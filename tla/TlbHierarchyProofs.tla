------------------------- MODULE TlbHierarchyProofs -------------------------
(***************************************************************************)
(* Proofs about the TLB hierarchy for every geometry, latency and set of   *)
(* clients and pages: types, one block per page in an upper TLB, no lost   *)
(* or doubled client, and every miss answered exactly once.                *)
(***************************************************************************)
EXTENDS TlbHierarchy, CommonLemmas, SequenceTheorems

\* The pages a side asks for.
Demanded(t) == IF t = "ITLB" THEN CodePages ELSE DataPages

\* What a block or a register may hold for a frame: 0 until it is known.
Data == Frames \cup {0}

\* A packet of an upper TLB is its own, and its page is one that its side asks for.
Own(t, packet) ==
  /\ t \in Upper => Above(packet) = t
  /\ packet.page \in Demanded(Above(packet))

Reads(t) == {packet \in Packets(t) : Own(t, packet)}
Registers(t) ==
  {packet \in [page : CodePages \cup DataPages, instruction : BOOLEAN,
               type : {"LOAD", "RFO"}, waiters : SUBSET Side(t), returned : BOOLEAN,
               data : Data, event : Int] : Own(t, packet)}
Answers(t) == [page : CodePages \cup DataPages, pa : Data, waiters : SUBSET Side(t)]
Blocks == {NoBlock} \cup [tag : Pages, data : Data]
Lookups == {NoLookup}
             \cup [kind : {"hit"}, set : Sets("STLB"), way : WaysOf("STLB"), data : Data,
                   budget : Nat]
             \cup [kind : {"miss"}, budget : Nat]

\* The page table: finite, from pages to frames.
TableOK(table) ==
  /\ DOMAIN table \subseteq Pages /\ IsFiniteSet(DOMAIN table)
  /\ \A page \in DOMAIN table : table[page] \in Frames

\* A read queue has no page twice, and neither have the registers.
QueueOK(t, queue) ==
  /\ queue \in Seq(Reads(t)) /\ Len(queue) <= RQ_SIZE[t]
  /\ \A i, j \in DOMAIN queue : queue[i].page = queue[j].page => i = j
RegistersOK(t, registers) ==
  /\ registers \in [Slots(t) -> {Empty} \cup Registers(t)]
  /\ \A i, j \in Slots(t) :
       registers[i] # Empty /\ registers[i].page = registers[j].page => i = j
PacketsOK ==
  /\ RQ = [t \in TLBs |-> RQ[t]] /\ \A t \in TLBs : QueueOK(t, RQ[t])
  /\ MSHR = [t \in TLBs |-> MSHR[t]] /\ \A t \in TLBs : RegistersOK(t, MSHR[t])
  /\ PROCESSED = [t \in Upper |-> PROCESSED[t]]
  /\ \A t \in Upper : PROCESSED[t] \in Seq(Answers(t))

\* The blocks and their ranking.
BlocksOK(blocks) ==
  /\ blocks = [t \in TLBs |-> blocks[t]]
  /\ \A t \in TLBs : blocks[t] \in [Sets(t) -> [WaysOf(t) -> Blocks]]
Ranked(counters) ==
  /\ counters = [t \in TLBs |-> counters[t]]
  /\ \A t \in TLBs : /\ counters[t] = [set \in Sets(t) |-> counters[t][set]]
                     /\ \A set \in Sets(t) : IsRanking(NUM_WAY[t], counters[t][set])

\* Where the cycle is; a callback is about the oldest read of the STLB.
ControlOK ==
  /\ stall \in Nat /\ reads \in Nat
  /\ phase \in {"issue", "fill", "read", "callback", "complete", "tick"} \X TLBs
  /\ lookup \in Lookups
  /\ (phase[1] = "callback") = (lookup # NoLookup)
  /\ phase[1] = "callback" => RQ["STLB"] # << >> /\ reads > 0

\* The state of each client is one of three.
ClientsOK ==
  /\ client = [c \in Clients |-> client[c]]
  /\ \A c \in Clients : client[c].state \in {"idle", "waiting", "translated"}

Types ==
  /\ TableOK(page_table) /\ PacketsOK
  /\ BlocksOK(block) /\ Ranked(lru)
  /\ ControlOK /\ ClientsOK

\* The tags of a set of an upper TLB differ, and it has no block for a page that one of
\* its registers is to fill.
TagsOK(t, registers, side) ==
  /\ \A set \in Sets(t) : \A v, w \in WaysOf(t) :
       side[set][v] # NoBlock /\ side[set][v].tag = side[set][w].tag => v = w
  /\ \A i \in Slots(t) : registers[i] # Empty =>
       \A way \in WaysOf(t) :
         side[get_set(t, registers[i].page)][way].tag # registers[i].page
UpperTags == \A t \in Upper : TagsOK(t, MSHR[t], block[t])

\* The clients of one upper TLB: who waits is in one packet of its queue, its registers or
\* its answers, and there once; no packet is without one.
Live(registers) == {i \in DOMAIN registers : registers[i] # Empty}
Placed(c, state, queue, registers, answers) ==
  /\ state.state = "waiting" =>
       \/ \E i \in DOMAIN queue : c \in queue[i].waiters
       \/ \E i \in Live(registers) : c \in registers[i].waiters
       \/ \E i \in DOMAIN answers : c \in answers[i].waiters
  /\ \A i \in DOMAIN queue : c \in queue[i].waiters =>
       /\ state.state = "waiting" /\ queue[i].page = state.page
       /\ \A j \in DOMAIN queue : c \in queue[j].waiters => i = j
       /\ \A j \in Live(registers) : c \notin registers[j].waiters
       /\ \A j \in DOMAIN answers : c \notin answers[j].waiters
  /\ \A i \in Live(registers) : c \in registers[i].waiters =>
       /\ state.state = "waiting" /\ registers[i].page = state.page
       /\ \A j \in Live(registers) : c \in registers[j].waiters => i = j
       /\ \A j \in DOMAIN answers : c \notin answers[j].waiters
  /\ \A i \in DOMAIN answers : c \in answers[i].waiters =>
       /\ state.state = "waiting" /\ answers[i].page = state.page
       /\ \A j \in DOMAIN answers : c \in answers[j].waiters => i = j
Carried(t, state, queue, registers, answers) ==
  /\ \A i \in DOMAIN queue : queue[i].waiters # {}
  /\ \A i \in Live(registers) : registers[i].waiters # {}
  /\ \A i \in DOMAIN answers : answers[i].waiters # {}
  /\ \A c \in Side(t) : Placed(c, state[c], queue, registers, answers)
ClientsCarried == \A t \in Upper : Carried(t, client, RQ[t], MSHR[t], PROCESSED[t])

\* A request of an upper TLB is in the queue of the STLB or in a register of it, not both,
\* except for the oldest while its miss is handled.
StlbOnce ==
  /\ \A i \in DOMAIN RQ["STLB"], j \in Slots("STLB") :
       /\ MSHR["STLB"][j].page = RQ["STLB"][i].page
       /\ Above(MSHR["STLB"][j]) = Above(RQ["STLB"][i])
       => i = 1 /\ lookup.kind = "miss"
  /\ lookup.kind = "miss" =>
       \E j \in Slots("STLB") : MSHR["STLB"][j].page = RQ["STLB"][1].page

IInv ==
  /\ Types
  /\ UpperTags /\ ClientsCarried
  /\ StlbOnce /\ ReturnExpected /\ NoOrphanedMiss

-----------------------------------------------------------------------------
(***************************************************************************)
(* The sizes are positive and the pages are not 0.                         *)
(***************************************************************************)
LEMMA Sizes ==
  /\ Upper \subseteq TLBs /\ "STLB" \in TLBs /\ "STLB" \notin Upper
  /\ \A t \in TLBs : /\ {NUM_SET[t], NUM_WAY[t], RQ_SIZE[t], MSHR_SIZE[t]} \subseteq Nat \ {0}
                     /\ LATENCY[t] \in Nat
                     /\ \A page \in Pages : get_set(t, page) \in Sets(t)
  /\ Pages \subseteq Nat \ {0} /\ CodePages \cup DataPages \subseteq Pages
  /\ \A t \in TLBs : WaysOf(t) \subseteq Nat /\ Slots(t) \subseteq Nat
<1>1. ASSUME NEW t \in TLBs, NEW page \in Pages
      PROVE  get_set(t, page) \in Sets(t)
  <2>1. NUM_SET[t] \in Nat \ {0} /\ page \in Nat
    BY GeometryAssumption, PagesAssumption
  <2>2. page % NUM_SET[t] \in 0 .. NUM_SET[t] - 1
    BY <2>1
  <2> QED
    BY <2>2 DEF get_set, Sets
<1>2. \A t \in TLBs : WaysOf(t) \subseteq Nat /\ Slots(t) \subseteq Nat
  BY GeometryAssumption DEF WaysOf, Slots
<1> QED
  BY <1>1, <1>2, GeometryAssumption, PagesAssumption, ClientPagesAssumption
  DEF Upper, TLBs

(***************************************************************************)
(* A search from the lowest index returns -1 or the least match.           *)
(***************************************************************************)
LEMMA FirstFound ==
  ASSUME NEW found \in SUBSET Nat
  PROVE  /\ First(found) = -1 <=> found = {}
         /\ found # {} => First(found) \in found /\ \A i \in found : First(found) <= i
<1>1. CASE found = {}
  BY <1>1 DEF First
<1>2. CASE found # {}
  <2>1. PICK i \in found : \A j \in found : i <= j
    BY <1>2, NatLeast
  <2>2. First(found) = CHOOSE k \in found : \A j \in found : k <= j
    BY <1>2 DEF First
  <2>3. First(found) \in found /\ \A j \in found : First(found) <= j
    BY <2>1, <2>2
  <2> QED
    BY <1>2, <2>3
<1> QED
  BY <1>1, <1>2

(***************************************************************************)
(* check_hit finds a way with the page, unless there is none.              *)
(***************************************************************************)
LEMMA HitFound ==
  ASSUME NEW blocks, NEW t \in TLBs, NEW page
  PROVE  LET way == check_hit(blocks, t, page)
         IN  /\ way = -1 <=> \A w \in WaysOf(t) : blocks[t][get_set(t, page)][w].tag # page
             /\ way # -1 => /\ way \in WaysOf(t)
                            /\ blocks[t][get_set(t, page)][way].tag = page
<1> DEFINE found == {way \in WaysOf(t) : blocks[t][get_set(t, page)][way].tag = page}
<1>1. found \in SUBSET Nat
  BY Sizes
<1>2. check_hit(blocks, t, page) = First(found)
  BY DEF check_hit
<1>3. /\ First(found) = -1 <=> found = {}
      /\ found # {} => First(found) \in found
  <2> HIDE DEF found
  <2> QED
    BY <1>1, FirstFound
<1> QED
  BY <1>2, <1>3

(***************************************************************************)
(* check_mshr finds a register of the page, unless there is none.          *)
(***************************************************************************)
LEMMA RegisterFound ==
  ASSUME NEW t \in TLBs, NEW page
  PROVE  LET slot == check_mshr(t, page)
         IN  /\ slot = -1 <=> \A i \in Slots(t) : MSHR[t][i].page # page
             /\ slot # -1 => slot \in Slots(t) /\ MSHR[t][slot].page = page
<1> DEFINE found == {i \in Slots(t) : MSHR[t][i].page = page}
<1>1. found \in SUBSET Nat
  BY Sizes
<1>2. check_mshr(t, page) = First(found)
  BY DEF check_mshr
<1>3. /\ First(found) = -1 <=> found = {}
      /\ found # {} => First(found) \in found
  <2> HIDE DEF found
  <2> QED
    BY <1>1, FirstFound
<1> QED
  BY <1>2, <1>3

(***************************************************************************)
(* The packets of a queue, a register or an answer name pages, and a used  *)
(* register is not an empty one.                                           *)
(***************************************************************************)
LEMMA PacketFacts ==
  ASSUME NEW t \in TLBs
  PROVE  /\ \A packet \in Reads(t) \cup Registers(t) :
              /\ packet.page \in Pages \cap (CodePages \cup DataPages) /\ packet.page # 0
              /\ packet.page \in Demanded(Above(packet))
              /\ packet.instruction \in BOOLEAN /\ packet.type \in {"LOAD", "RFO"}
              /\ packet.waiters \subseteq Side(t) /\ packet.event \in Int
              /\ Above(packet) \in Upper /\ (t \in Upper => Above(packet) = t)
         /\ \A packet \in Registers(t) : packet # Empty /\ packet.data \in Data
         /\ Empty.page = 0
<1>1. LATENCY[t] \in Nat /\ CodePages \cup DataPages \subseteq Pages /\ Pages \subseteq Nat \ {0}
  BY Sizes
<1>2. Empty.page = 0
  BY DEF Empty
<1>3. \A packet \in Reads(t) \cup Registers(t) :
        /\ packet.page \in CodePages \cup DataPages
        /\ packet.instruction \in BOOLEAN /\ packet.type \in {"LOAD", "RFO"}
        /\ packet.waiters \subseteq Side(t) /\ packet.event \in Int /\ Own(t, packet)
  BY <1>1 DEF Reads, Registers, Packets
<1>4. \A packet \in Registers(t) : packet.data \in Data
  BY DEF Registers
<1> QED
  BY <1>1, <1>2, <1>3, <1>4 DEF Own, Above, Upper

-----------------------------------------------------------------------------
(***************************************************************************)
(* The first n natural numbers are n.                                      *)
(***************************************************************************)
LEMMA Count ==
  ASSUME NEW n \in Nat
  PROVE  IsFiniteSet(0 .. n - 1) /\ Cardinality(0 .. n - 1) = n
<1>1. n - 1 \in Int /\ 0 \in Int
  OBVIOUS
<1>2. /\ IsFiniteSet(0 .. n - 1)
      /\ Cardinality(0 .. n - 1) = IF 0 > n - 1 THEN 0 ELSE n - 1 - 0 + 1
  BY <1>1, FS_Interval
<1> QED
  BY <1>2

(***************************************************************************)
(* While fewer registers than there are hold a miss, one is free, and      *)
(* add_mshr takes a free one.                                              *)
(***************************************************************************)
LEMMA AllocatedFacts ==
  ASSUME NEW t \in TLBs, MSHR = [u \in TLBs |-> MSHR[u]], RegistersOK(t, MSHR[t]),
         Occupancy(t) < MSHR_SIZE[t],
         NEW packet, packet \in Reads(t), \A i \in Slots(t) : MSHR[t][i].page # packet.page
  PROVE  \E slot \in Slots(t), entry \in Registers(t) :
           /\ MSHR[t][slot] = Empty
           /\ entry.page = packet.page /\ entry.waiters = packet.waiters
           /\ Above(entry) = Above(packet) /\ ~entry.returned
           /\ Allocated(t, packet) = [MSHR EXCEPT ![t] = [MSHR[t] EXCEPT ![slot] = entry]]
           /\ RegistersOK(t, [MSHR[t] EXCEPT ![slot] = entry])
<1> DEFINE free == {i \in Slots(t) : MSHR[t][i] = Empty}
<1> DEFINE slot == First(free)
<1> DEFINE entry == [page |-> packet.page, instruction |-> packet.instruction,
                     type |-> packet.type, waiters |-> packet.waiters,
                     returned |-> FALSE, data |-> 0, event |-> 0]
<1>1. free # {}
  <2>1. SUFFICES ASSUME free = {} PROVE FALSE
    OBVIOUS
  <2>2. {i \in Slots(t) : MSHR[t][i] # Empty} = Slots(t)
    BY <2>1
  <2>3. MSHR_SIZE[t] \in Nat \ {0}
    BY Sizes
  <2>4. Cardinality(Slots(t)) = MSHR_SIZE[t]
    BY <2>3, Count DEF Slots
  <2>5. Occupancy(t) = Cardinality(Slots(t))
    BY <2>2 DEF Occupancy
  <2> QED
    BY <2>3, <2>4, <2>5
<1>2. slot \in free
  <2>1. free \in SUBSET Nat
    BY Sizes
  <2> HIDE DEF free
  <2> QED
    BY <1>1, <2>1, FirstFound
<1>3. /\ packet.page \in CodePages \cup DataPages /\ packet.instruction \in BOOLEAN
      /\ packet.type \in {"LOAD", "RFO"} /\ packet.waiters \subseteq Side(t)
      /\ packet.page # 0
  BY PacketFacts
<1>4. entry \in Registers(t)
  <2>1. Own(t, packet)
    BY DEF Reads
  <2>2. Own(t, entry)
    BY <2>1 DEF Own, Above
  <2> QED
    BY <1>3, <2>2 DEF Registers, Data
<1>5. Allocated(t, packet) = [MSHR EXCEPT ![t] = [MSHR[t] EXCEPT ![slot] = entry]]
  BY DEF Allocated
<1>6. Above(entry) = Above(packet)
  BY DEF Above
<1>7. entry.page = packet.page /\ entry.waiters = packet.waiters /\ ~entry.returned
  OBVIOUS
<1>8. RegistersOK(t, [MSHR[t] EXCEPT ![slot] = entry])
  <2> HIDE DEF entry
  <2> DEFINE new == [MSHR[t] EXCEPT ![slot] = entry]
  <2>1. MSHR[t] \in [Slots(t) -> {Empty} \cup Registers(t)] /\ slot \in Slots(t)
    BY <1>2 DEF RegistersOK
  <2>2. new \in [Slots(t) -> {Empty} \cup Registers(t)]
    BY <1>4, <2>1
  <2>3. /\ new[slot] = entry /\ \A i \in Slots(t) \ {slot} : new[i] = MSHR[t][i]
    BY <2>1
  <2> HIDE DEF new, slot
  <2>4. ASSUME NEW i \in Slots(t), NEW j \in Slots(t),
               new[i] # Empty, new[i].page = new[j].page
        PROVE  i = j
    BY <1>7, <2>3, <2>4 DEF RegistersOK
  <2>5. RegistersOK(t, new)
    BY <2>2, <2>4 DEF RegistersOK
  <2> QED
    BY <2>5 DEF new
<1> HIDE DEF entry, slot
<1> QED
  BY <1>2, <1>4, <1>5, <1>6, <1>7, <1>8

\* What return_data does to the registers: it marks the one of the page, or none has it.
ReturnsTo(mshr, t, page, data, slot, entry) ==
  /\ mshr[t][slot] # Empty /\ mshr[t][slot].page = page
  /\ entry.page = page /\ entry.waiters = mshr[t][slot].waiters
  /\ Above(entry) = Above(mshr[t][slot]) /\ entry.returned /\ entry.data = data
  /\ Returned(mshr, t, page, data) = [mshr EXCEPT ![t] = [mshr[t] EXCEPT ![slot] = entry]]
  /\ RegistersOK(t, [mshr[t] EXCEPT ![slot] = entry])

(***************************************************************************)
(* return_data marks the register of the page, if there is one, and        *)
(* changes nothing else of it.                                             *)
(***************************************************************************)
LEMMA ReturnedFacts ==
  ASSUME NEW mshr, mshr = [u \in TLBs |-> mshr[u]],
         NEW t \in TLBs, RegistersOK(t, mshr[t]), NEW page \in Pages, NEW data \in Data
  PROVE  \/ /\ \A i \in Slots(t) : mshr[t][i].page # page
            /\ Returned(mshr, t, page, data) = mshr
         \/ \E slot \in Slots(t), entry \in Registers(t) :
              ReturnsTo(mshr, t, page, data, slot, entry)
<1> DEFINE found == {i \in Slots(t) : mshr[t][i].page = page}
<1> DEFINE slot == First(found)
<1>0. mshr[t] \in [Slots(t) -> {Empty} \cup Registers(t)]
  BY DEF RegistersOK
<1>1. /\ found \in SUBSET Nat /\ -1 \notin Slots(t) /\ Slots(t) \subseteq Nat
  BY Sizes
<1>2. /\ slot = -1 <=> found = {}
      /\ found # {} => slot \in found
  <2> HIDE DEF found
  <2> QED
    BY <1>1, FirstFound
<1>3. Returned(mshr, t, page, data) =
        [mshr EXCEPT ![t] = [mshr[t] EXCEPT ![slot].returned = TRUE,
                                            ![slot].data = data,
                                            ![slot].event = LATENCY[t]]]
  BY DEF Returned
<1>4. CASE found = {}
  <2>1. slot \notin Slots(t)
    BY <1>1, <1>2, <1>4
  <2>2. [mshr[t] EXCEPT ![slot].returned = TRUE, ![slot].data = data,
                        ![slot].event = LATENCY[t]] = mshr[t]
    BY <1>0, <2>1
  <2>3. Returned(mshr, t, page, data) = mshr
    BY <1>3, <2>2
  <2> QED
    BY <1>4, <2>3
<1>5. CASE found # {}
  <2>1. slot \in Slots(t) /\ mshr[t][slot].page = page
    BY <1>2, <1>5
  <2>2. mshr[t][slot] # Empty /\ mshr[t][slot] \in Registers(t)
    BY <1>0, <2>1, PacketFacts, Sizes DEF Empty
  <2> DEFINE old == mshr[t][slot]
             entry == [old EXCEPT !.returned = TRUE, !.data = data, !.event = LATENCY[t]]
  <2>3. /\ entry.page = old.page /\ entry.waiters = old.waiters /\ entry.returned
        /\ entry.instruction = old.instruction /\ entry.data = data
    <3> HIDE DEF old
    <3>1. old \in Registers(t)
      BY <2>2 DEF old
    <3> QED
      BY <3>1 DEF Registers
  <2>4. entry \in Registers(t)
    <3>1. LATENCY[t] \in Int /\ Own(t, old)
      BY <2>2, Sizes DEF Registers
    <3>2. Own(t, entry)
      <4> HIDE DEF entry, old
      <4> QED
        BY <2>3, <3>1 DEF Own, Above
    <3> QED
      BY <2>2, <3>1, <3>2 DEF Registers
  <2>5. Returned(mshr, t, page, data) =
          [mshr EXCEPT ![t] = [mshr[t] EXCEPT ![slot] = entry]]
    <3>1. [mshr[t] EXCEPT ![slot].returned = TRUE, ![slot].data = data,
                          ![slot].event = LATENCY[t]] = [mshr[t] EXCEPT ![slot] = entry]
      BY <1>0, <2>1
    <3> QED
      BY <1>3, <3>1
  <2>6. Above(entry) = Above(old)
    BY <2>3 DEF Above
  <2> DEFINE new == [mshr[t] EXCEPT ![slot] = entry]
  <2>7. RegistersOK(t, new)
    <3> HIDE DEF entry
    <3>1. new \in [Slots(t) -> {Empty} \cup Registers(t)]
      BY <1>0, <2>1, <2>4
    <3>2. /\ new[slot] = entry /\ \A i \in Slots(t) \ {slot} : new[i] = mshr[t][i]
          /\ entry.page = mshr[t][slot].page
      BY <1>0, <2>1, <2>3
    <3> HIDE DEF new, slot
    <3>3. ASSUME NEW i \in Slots(t), NEW j \in Slots(t),
                 new[i] # Empty, new[i].page = new[j].page
          PROVE  i = j
      BY <2>2, <3>2, <3>3 DEF RegistersOK
    <3> QED
      BY <3>1, <3>3 DEF RegistersOK
  <2> HIDE DEF entry, slot
  <2>8. ReturnsTo(mshr, t, page, data, slot, entry)
    BY <2>1, <2>2, <2>3, <2>5, <2>6, <2>7 DEF ReturnsTo
  <2> QED
    BY <2>1, <2>4, <2>8
<1> QED
  BY <1>4, <1>5

-----------------------------------------------------------------------------
(***************************************************************************)
(* What Tail does to a sequence, index by index.                           *)
(***************************************************************************)
LEMMA TailFacts ==
  ASSUME NEW S, NEW q \in Seq(S), q # << >>
  PROVE  /\ Tail(q) \in Seq(S) /\ Head(q) \in S /\ Head(q) = q[1]
         /\ Len(q) \in Nat \ {0} /\ DOMAIN q = 1 .. Len(q) /\ 1 \in DOMAIN q
         /\ Len(Tail(q)) = Len(q) - 1 /\ DOMAIN Tail(q) = 1 .. Len(q) - 1
         /\ \A i \in DOMAIN Tail(q) : i + 1 \in DOMAIN q /\ i + 1 # 1 /\ Tail(q)[i] = q[i + 1]
         /\ \A i \in DOMAIN q : i = 1 \/ (i - 1 \in DOMAIN Tail(q) /\ Tail(q)[i - 1] = q[i])
<1>1. /\ Tail(q) \in Seq(S) /\ Head(q) \in S /\ Head(q) = q[1]
      /\ Len(q) \in Nat \ {0} /\ DOMAIN q = 1 .. Len(q)
      /\ Len(Tail(q)) = Len(q) - 1 /\ DOMAIN Tail(q) = 1 .. Len(q) - 1
      /\ \A i \in 1 .. Len(q) - 1 : Tail(q)[i] = q[i + 1]
  OBVIOUS
<1>2. \A i \in DOMAIN q : i = 1 \/ i - 1 \in 1 .. Len(q) - 1
  BY <1>1
<1>3. ASSUME NEW i \in DOMAIN q, i # 1
      PROVE  i - 1 \in DOMAIN Tail(q) /\ Tail(q)[i - 1] = q[i]
  <2>1. i - 1 \in 1 .. Len(q) - 1 /\ (i - 1) + 1 = i
    BY <1>1, <1>3
  <2>2. Tail(q)[i - 1] = q[(i - 1) + 1]
    BY <1>1, <2>1
  <2> QED
    BY <1>1, <2>1, <2>2
<1>4. \A i \in 1 .. Len(q) - 1 : i + 1 \in 1 .. Len(q) /\ i + 1 # 1
  BY <1>1
<1> QED
  BY <1>1, <1>3, <1>4

(***************************************************************************)
(* Likewise Append.                                                        *)
(***************************************************************************)
LEMMA AppendFacts ==
  ASSUME NEW S, NEW q \in Seq(S), NEW x \in S
  PROVE  /\ Append(q, x) \in Seq(S) /\ Len(q) \in Nat /\ DOMAIN q = 1 .. Len(q)
         /\ Len(Append(q, x)) = Len(q) + 1 /\ DOMAIN Append(q, x) = 1 .. Len(q) + 1
         /\ \A i \in DOMAIN q : i \in DOMAIN Append(q, x) /\ i # Len(q) + 1
                                /\ Append(q, x)[i] = q[i]
         /\ Len(q) + 1 \in DOMAIN Append(q, x) /\ Append(q, x)[Len(q) + 1] = x
         /\ \A i \in DOMAIN Append(q, x) : i = Len(q) + 1 \/ i \in DOMAIN q
OBVIOUS

\* The three answers of add_rq: it joins the queued request for the page, or leaves the
\* full queue alone, or appends the packet.
Joins(t, packet, k, entry) ==
  /\ RQ[t][k].page = packet.page
  /\ entry.page = packet.page /\ Above(entry) = Above(RQ[t][k])
  /\ entry.waiters = RQ[t][k].waiters \cup packet.waiters
  /\ Queued(t, packet) = [RQ EXCEPT ![t] = [RQ[t] EXCEPT ![k] = entry]]
  /\ QueueOK(t, [RQ[t] EXCEPT ![k] = entry])
  /\ packet.waiters = {} => Queued(t, packet) = RQ
Refuses(t, packet) ==
  /\ \A i \in DOMAIN RQ[t] : RQ[t][i].page # packet.page
  /\ Len(RQ[t]) = RQ_SIZE[t] /\ Queued(t, packet) = RQ
Appends(t, packet, added) ==
  /\ \A i \in DOMAIN RQ[t] : RQ[t][i].page # packet.page
  /\ Len(RQ[t]) < RQ_SIZE[t]
  /\ Queued(t, packet) = [RQ EXCEPT ![t] = Append(RQ[t], added)]
  /\ QueueOK(t, Append(RQ[t], added))

(***************************************************************************)
(* add_rq joins the queued request for the page, or appends one, or leaves *)
(* the full queue alone.                                                   *)
(***************************************************************************)
LEMMA QueuedFacts ==
  ASSUME NEW t \in TLBs, RQ = [u \in TLBs |-> RQ[u]], QueueOK(t, RQ[t]),
         NEW packet, NEW added \in Reads(t), added = [packet EXCEPT !.event = LATENCY[t]],
         added.page = packet.page, added.waiters = packet.waiters
  PROVE  \/ \E k \in DOMAIN RQ[t], entry \in Reads(t) : Joins(t, packet, k, entry)
         \/ Refuses(t, packet)
         \/ Appends(t, packet, added)
<1> DEFINE q == RQ[t]
<1>1. /\ q \in Seq(Reads(t)) /\ Len(q) \in Nat /\ DOMAIN q = 1 .. Len(q)
      /\ Len(q) <= RQ_SIZE[t] /\ RQ_SIZE[t] \in Nat
      /\ \A i \in DOMAIN q : q[i] \in Reads(t)
      /\ \A i, j \in DOMAIN q : q[i].page = q[j].page => i = j
  BY Sizes DEF QueueOK
<1>2. CASE \E i \in 1 .. Len(q) : q[i].page = packet.page
  <2>1. PICK k \in DOMAIN q : q[k].page = packet.page
    BY <1>1, <1>2
  <2> DEFINE entry == [q[k] EXCEPT !.waiters = @ \cup packet.waiters]
             joined == [i \in 1 .. Len(q) |->
                          IF q[i].page = packet.page
                          THEN [q[i] EXCEPT !.waiters = @ \cup packet.waiters]
                          ELSE q[i]]
             new == [q EXCEPT ![k] = entry]
  <2>2. Queued(t, packet) = [RQ EXCEPT ![t] = joined]
    BY <1>2 DEF Queued
  <2>3. \A i \in DOMAIN q : q[i].page = packet.page => i = k
    BY <1>1, <2>1
  <2>4. joined = new
    <3>1. ASSUME NEW i \in 1 .. Len(q) PROVE joined[i] = new[i]
      <4>1. CASE i = k
        BY <1>1, <2>1, <4>1
      <4>2. CASE i # k
        BY <1>1, <2>3, <4>2
      <4> QED
        BY <4>1, <4>2
    <3>2. q = [i \in 1 .. Len(q) |-> q[i]]
      BY <1>1
    <3> HIDE DEF entry
    <3>3. new = [i \in 1 .. Len(q) |-> new[i]]
      BY <3>2
    <3>4. joined = [i \in 1 .. Len(q) |-> joined[i]]
      OBVIOUS
    <3> HIDE DEF joined, new
    <3> QED
      BY <3>1, <3>3, <3>4
  <2>5. q[k] \in Packets(t) /\ Own(t, q[k]) /\ packet.waiters \subseteq Side(t)
    BY <1>1, PacketFacts DEF Reads
  <2>6. /\ entry.page = q[k].page /\ entry.instruction = q[k].instruction
        /\ entry.waiters = q[k].waiters \cup packet.waiters
        /\ entry \in Packets(t)
        /\ packet.waiters = {} => entry = q[k]
    <3> DEFINE old == q[k]
    <3>1. old \in Packets(t)
      BY <2>5
    <3> HIDE DEF old, q
    <3>2. [old EXCEPT !.waiters = @ \cup packet.waiters] \in Packets(t)
      BY <2>5, <3>1 DEF Packets
    <3>3. LET e == [old EXCEPT !.waiters = @ \cup packet.waiters]
          IN  /\ e.page = old.page /\ e.instruction = old.instruction
              /\ e.waiters = old.waiters \cup packet.waiters
              /\ packet.waiters = {} => e = old
      BY <3>1 DEF Packets
    <3> QED
      BY <3>2, <3>3 DEF old
  <2>7. entry \in Reads(t) /\ Above(entry) = Above(q[k])
    <3> HIDE DEF entry, q
    <3>1. Above(entry) = Above(q[k])
      BY <2>6 DEF Above
    <3> QED
      BY <2>5, <2>6, <3>1 DEF Reads, Own
  <2>8. QueueOK(t, new)
    <3> HIDE DEF entry
    <3>1. new \in Seq(Reads(t)) /\ Len(new) = Len(q) /\ DOMAIN new = DOMAIN q
      BY <1>1, <2>1, <2>7
    <3>2. /\ new[k] = entry /\ \A i \in DOMAIN q \ {k} : new[i] = q[i]
          /\ entry.page = q[k].page
      BY <1>1, <2>1, <2>6
    <3> HIDE DEF new, q
    <3> QED
      BY <1>1, <3>1, <3>2 DEF QueueOK
  <2>9. packet.waiters = {} => Queued(t, packet) = RQ
    <3>1. ASSUME packet.waiters = {} PROVE new = q
      BY <1>1, <2>1, <2>6, <3>1
    <3> HIDE DEF new
    <3> QED
      BY <2>2, <2>4, <3>1
  <2>10. Queued(t, packet) = [RQ EXCEPT ![t] = [RQ[t] EXCEPT ![k] = entry]]
    BY <2>2, <2>4
  <2> HIDE DEF entry
  <2> QED
    BY <2>1, <2>6, <2>7, <2>8, <2>9, <2>10 DEF Joins
<1>3. CASE ~\E i \in 1 .. Len(q) : q[i].page = packet.page
  <2>1. CASE Len(q) = RQ_SIZE[t]
    BY <1>1, <1>3, <2>1 DEF Queued, Refuses
  <2>2. CASE Len(q) # RQ_SIZE[t]
    <3>1. Queued(t, packet) = [RQ EXCEPT ![t] = Append(q, added)]
      BY <1>3, <2>2 DEF Queued
    <3> DEFINE new == Append(q, added)
    <3>2. /\ new \in Seq(Reads(t)) /\ Len(new) = Len(q) + 1
          /\ \A i \in DOMAIN q : new[i] = q[i]
          /\ new[Len(q) + 1] = added
          /\ \A i \in DOMAIN new : i = Len(q) + 1 \/ i \in DOMAIN q
      BY <1>1, AppendFacts
    <3>3. ASSUME NEW i \in DOMAIN new, NEW j \in DOMAIN new, new[i].page = new[j].page
          PROVE  i = j
      <4> HIDE DEF new, q
      <4> QED
        BY <1>1, <1>3, <3>2, <3>3
    <3>4. QueueOK(t, new)
      BY <1>1, <2>2, <3>2, <3>3 DEF QueueOK
    <3>5. Len(RQ[t]) < RQ_SIZE[t] /\ \A i \in DOMAIN RQ[t] : RQ[t][i].page # packet.page
      BY <1>1, <1>3, <2>2
    <3> QED
      BY <3>1, <3>4, <3>5 DEF Appends
  <2> QED
    BY <2>1, <2>2
<1> QED
  BY <1>2, <1>3

-----------------------------------------------------------------------------
(***************************************************************************)
(* A full table has a page to swap out.                                    *)
(***************************************************************************)
LEMMA VictimMapped ==
  ASSUME NEW table, TableOK(table), Full(table)
  PROVE  NRU_vpage(table) \in DOMAIN table
<1>1. IsFiniteSet(DOMAIN table) /\ DOMAIN table \in SUBSET Nat
  BY PagesAssumption DEF TableOK
<1>2. DOMAIN table # {}
  BY DramAssumption, FS_EmptySet DEF Full
<1>3. \E p \in DOMAIN table : \A other \in DOMAIN table : p <= other
  BY <1>1, <1>2, NatLeast
<1> QED
  BY <1>3 DEF NRU_vpage

(***************************************************************************)
(* va_to_pa leaves a finite table of frames that has the page.             *)
(***************************************************************************)
LEMMA WalkFacts ==
  ASSUME NEW table, TableOK(table), NEW page \in Pages, NEW after \in Walks(table, page)
  PROVE  TableOK(after) /\ page \in DOMAIN after /\ after[page] \in Frames
<1>1. CASE page \in DOMAIN table
  <2>1. after = table
    BY <1>1 DEF Walks
  <2> QED
    BY <1>1, <2>1 DEF TableOK
<1>2. CASE page \notin DOMAIN table /\ Full(table)
  <2> DEFINE victim == NRU_vpage(table)
             D == (DOMAIN table \ {victim}) \cup {page}
  <2>1. after = [q \in D |-> IF q = page THEN table[victim] ELSE table[q]]
    BY <1>2 DEF Walks, Swapped, Moved
  <2>2. victim \in DOMAIN table
    BY <1>2, VictimMapped
  <2>3. IsFiniteSet(D)
    <3>1. IsFiniteSet(DOMAIN table \ {victim})
      BY FS_RemoveElement DEF TableOK
    <3> QED
      BY <3>1, FS_AddElement
  <2> HIDE DEF victim
  <2>4. DOMAIN after = D /\ page \in D /\ D \subseteq Pages
    BY <2>1 DEF TableOK
  <2>5. \A q \in D : after[q] \in Frames
    BY <2>1, <2>2 DEF TableOK
  <2> QED
    BY <2>3, <2>4, <2>5 DEF TableOK
<1>3. CASE page \notin DOMAIN table /\ ~Full(table)
  <2>1. PICK frame \in Frames : after = Mapped(table, page, frame)
    BY <1>3 DEF Walks
  <2>2. after = [q \in DOMAIN table \cup {page} |-> IF q = page THEN frame ELSE table[q]]
    BY <2>1 DEF Mapped
  <2>3. IsFiniteSet(DOMAIN table \cup {page})
    BY FS_AddElement DEF TableOK
  <2> QED
    BY <2>2, <2>3 DEF TableOK
<1> QED
  BY <1>1, <1>2, <1>3

(***************************************************************************)
(* A walk invalidates blocks or leaves them.                               *)
(***************************************************************************)
LEMMA WalkBlocks ==
  ASSUME BlocksOK(block), NEW page \in Pages, TableOK(page_table)
  PROVE  /\ BlocksOK(BlocksAfterWalk(page))
         /\ \A t \in TLBs : \A set \in Sets(t), way \in WaysOf(t) :
              BlocksAfterWalk(page)[t][set][way] \in {block[t][set][way], NoBlock}
<1>1. CASE BlocksAfterWalk(page) = block
  BY <1>1
<1>2. CASE BlocksAfterWalk(page) # block
  <2> DEFINE victim == NRU_vpage(page_table)
             new == Invalidated(victim)
  <2>1. BlocksAfterWalk(page) = new
    BY <1>2 DEF BlocksAfterWalk
  <2>2. ASSUME NEW t \in TLBs
        PROVE  /\ new[t] \in [Sets(t) -> [WaysOf(t) -> Blocks]]
               /\ \A set \in Sets(t), way \in WaysOf(t) :
                    new[t][set][way] \in {block[t][set][way], NoBlock}
    <3> DEFINE at == check_hit(block, t, victim)
               in == get_set(t, victim)
    <3>1. new[t] = IF at = -1 THEN block[t] ELSE [block[t] EXCEPT ![in][at] = NoBlock]
      BY DEF Invalidated
    <3>2. block[t] \in [Sets(t) -> [WaysOf(t) -> Blocks]] /\ NoBlock \in Blocks
      BY DEF BlocksOK, Blocks
    <3> HIDE DEF at, in, new
    <3>3. CASE at = -1
      BY <3>1, <3>2, <3>3
    <3>4. CASE at # -1 /\ in \notin Sets(t)
      BY <3>1, <3>2, <3>4
    <3>5. CASE at # -1 /\ in \in Sets(t)
      <4>1. new[t] = [block[t] EXCEPT ![in] = [block[t][in] EXCEPT ![at] = NoBlock]]
        BY <3>1, <3>5
      <4>2. block[t][in] \in [WaysOf(t) -> Blocks]
        BY <3>2, <3>5
      <4> DEFINE line == [block[t][in] EXCEPT ![at] = NoBlock]
      <4>3. /\ line \in [WaysOf(t) -> Blocks]
            /\ \A way \in WaysOf(t) : line[way] \in {block[t][in][way], NoBlock}
        BY <3>2, <4>2
      <4> HIDE DEF line
      <4>4. new[t] = [block[t] EXCEPT ![in] = line]
        BY <4>1 DEF line
      <4> QED
        BY <3>2, <3>5, <4>3, <4>4
    <3> QED
      BY <3>3, <3>4, <3>5
  <2>3. new = [t \in TLBs |-> new[t]]
    BY DEF Invalidated
  <2> HIDE DEF new
  <2> QED
    BY <2>1, <2>2, <2>3 DEF BlocksOK
<1> QED
  BY <1>1, <1>2

(***************************************************************************)
(* The victim is a way of the set.                                         *)
(***************************************************************************)
LEMMA VictimWay ==
  ASSUME NEW blocks, BlocksOK(blocks), Ranked(lru), NEW t \in TLBs, NEW page \in Pages
  PROVE  Victim(blocks, t, page) \in WaysOf(t)
<1> DEFINE set == get_set(t, page)
           bits == [way \in 0 .. NUM_WAY[t] - 1 |-> blocks[t][set][way] # NoBlock]
<1>1. set \in Sets(t) /\ NUM_WAY[t] \in Nat \ {0}
  BY Sizes
<1>2. bits \in [0 .. NUM_WAY[t] - 1 -> BOOLEAN]
  OBVIOUS
<1>3. IsRanking(NUM_WAY[t], lru[t][set])
  BY <1>1 DEF Ranked
<1>4. Victim(blocks, t, page) = lru_victim(NUM_WAY[t], bits, lru[t][set])
  BY DEF Victim, WaysOf
<1> HIDE DEF bits
<1>5. lru_victim(NUM_WAY[t], bits, lru[t][set]) \in 0 .. NUM_WAY[t] - 1
  BY <1>1, <1>2, <1>3, VictimExists
<1> QED
  BY <1>4, <1>5 DEF WaysOf

(***************************************************************************)
(* A fill puts the block of the page in one way and leaves the others.     *)
(***************************************************************************)
LEMMA FillFacts ==
  ASSUME NEW blocks, BlocksOK(blocks), NEW t \in TLBs, NEW page \in Pages,
         NEW way \in WaysOf(t), NEW data \in Data
  PROVE  LET new == fill_cache(blocks, t, page, way, data)
         IN  /\ BlocksOK(new)
             /\ \A u \in TLBs \ {t} : new[u] = blocks[u]
             /\ new[t][get_set(t, page)][way] = [tag |-> page, data |-> data]
             /\ \A set \in Sets(t), w \in WaysOf(t) :
                  set # get_set(t, page) \/ w # way => new[t][set][w] = blocks[t][set][w]
<1> DEFINE in == get_set(t, page)
           line == [blocks[t][in] EXCEPT ![way] = [tag |-> page, data |-> data]]
           side == [blocks[t] EXCEPT ![in] = line]
           new == [blocks EXCEPT ![t] = side]
<1>1. fill_cache(blocks, t, page, way, data) = new
  BY DEF fill_cache
<1>2. /\ blocks[t] \in [Sets(t) -> [WaysOf(t) -> Blocks]] /\ in \in Sets(t)
      /\ [tag |-> page, data |-> data] \in Blocks
      /\ blocks = [u \in TLBs |-> blocks[u]]
  BY Sizes DEF BlocksOK, Blocks
<1> HIDE DEF in
<1>3. /\ line \in [WaysOf(t) -> Blocks]
      /\ line[way] = [tag |-> page, data |-> data]
      /\ \A w \in WaysOf(t) \ {way} : line[w] = blocks[t][in][w]
  BY <1>2
<1> HIDE DEF line
<1>4. /\ side \in [Sets(t) -> [WaysOf(t) -> Blocks]] /\ side[in] = line
      /\ \A set \in Sets(t) \ {in} : side[set] = blocks[t][set]
  BY <1>2, <1>3
<1> HIDE DEF side
<1>5. /\ new = [u \in TLBs |-> new[u]] /\ new[t] = side
      /\ \A u \in TLBs \ {t} : new[u] = blocks[u]
  BY <1>2
<1> HIDE DEF new
<1>6. BlocksOK(new)
  BY <1>4, <1>5 DEF BlocksOK
<1> QED
  BY <1>1, <1>3, <1>4, <1>5, <1>6 DEF in

(***************************************************************************)
(* A promotion leaves every set ranked.                                    *)
(***************************************************************************)
LEMMA PromoteRanked ==
  ASSUME Ranked(lru), NEW t \in TLBs, NEW set \in Sets(t), NEW way \in WaysOf(t)
  PROVE  Ranked(Promote(t, set, way))
<1> DEFINE counters == lru_update(NUM_WAY[t], lru[t][set], way)
           side == [lru[t] EXCEPT ![set] = counters]
           new == [lru EXCEPT ![t] = side]
<1>1. Promote(t, set, way) = new
  BY DEF Promote
<1>2. IsRanking(NUM_WAY[t], counters)
  BY Sizes, UpdateRanking DEF Ranked, WaysOf
<1> HIDE DEF counters
<1>3. /\ side = [s \in Sets(t) |-> side[s]] /\ side[set] = counters
      /\ \A s \in Sets(t) \ {set} : side[s] = lru[t][s]
  BY DEF Ranked
<1> HIDE DEF side
<1>4. /\ new = [u \in TLBs |-> new[u]] /\ new[t] = side
      /\ \A u \in TLBs \ {t} : new[u] = lru[u]
  BY DEF Ranked
<1> HIDE DEF new
<1>5. Ranked(new)
  BY <1>2, <1>3, <1>4 DEF Ranked
<1> QED
  BY <1>1, <1>5

-----------------------------------------------------------------------------
(***************************************************************************)
(* Where the clients are depends on the pages and clients of the packets   *)
(* and on the clients of this side only.                                   *)
(***************************************************************************)
LEMMA CarriedSame ==
  ASSUME NEW t, NEW state, NEW queue, NEW registers, NEW answers,
         Carried(t, state, queue, registers, answers),
         NEW state2, \A c \in Side(t) : state2[c] = state[c],
         NEW queue2, DOMAIN queue2 = DOMAIN queue,
         \A i \in DOMAIN queue : /\ queue2[i].page = queue[i].page
                                 /\ queue2[i].waiters = queue[i].waiters,
         NEW registers2, Live(registers2) = Live(registers),
         \A i \in Live(registers) : /\ registers2[i].page = registers[i].page
                                    /\ registers2[i].waiters = registers[i].waiters
  PROVE  Carried(t, state2, queue2, registers2, answers)
BY DEF Carried, Placed

(***************************************************************************)
(* A client that did not wait is in no packet.                             *)
(***************************************************************************)
LEMMA NotCarried ==
  ASSUME NEW t, NEW state, NEW queue, NEW registers, NEW answers,
         Carried(t, state, queue, registers, answers),
         NEW c \in Side(t), state[c].state # "waiting"
  PROVE  /\ \A i \in DOMAIN queue : c \notin queue[i].waiters
         /\ \A i \in Live(registers) : c \notin registers[i].waiters
         /\ \A i \in DOMAIN answers : c \notin answers[i].waiters
BY DEF Carried, Placed

(***************************************************************************)
(* A request that is appended carries its client.                          *)
(***************************************************************************)
LEMMA CarriedAppended ==
  ASSUME NEW t, NEW state, NEW queue, NEW registers, NEW answers,
         Carried(t, state, queue, registers, answers),
         NEW c \in Side(t), state[c].state # "waiting",
         NEW S, queue \in Seq(S), NEW packet \in S, packet.waiters = {c},
         NEW state2, \A d \in Side(t) \ {c} : state2[d] = state[d],
         state2[c].state = "waiting", state2[c].page = packet.page
  PROVE  Carried(t, state2, Append(queue, packet), registers, answers)
<1> DEFINE new == Append(queue, packet)
           n == Len(queue) + 1
<1>1. /\ \A i \in DOMAIN queue : i \in DOMAIN new /\ i # n /\ new[i] = queue[i]
      /\ n \in DOMAIN new /\ new[n] = packet
      /\ \A i \in DOMAIN new : i = n \/ i \in DOMAIN queue
  BY AppendFacts
<1>2. /\ \A i \in DOMAIN queue : c \notin queue[i].waiters
      /\ \A i \in Live(registers) : c \notin registers[i].waiters
      /\ \A i \in DOMAIN answers : c \notin answers[i].waiters
  BY NotCarried
<1> HIDE DEF new, n
<1>3. \A i \in DOMAIN new : new[i].waiters # {}
  BY <1>1 DEF Carried
<1>4. ASSUME NEW d \in Side(t), d # c
      PROVE  /\ state2[d] = state[d] /\ d \notin packet.waiters
             /\ \A i \in DOMAIN new : d \in new[i].waiters =>
                  i \in DOMAIN queue /\ new[i] = queue[i]
  BY <1>1, <1>4
<1>5. ASSUME NEW d \in Side(t)
      PROVE  Placed(d, state2[d], new, registers, answers)
  <2>1. CASE d = c
    BY <1>1, <1>2, <2>1 DEF Placed
  <2>2. CASE d # c
    <3>1. /\ state2[d] = state[d]
          /\ \A i \in DOMAIN new : d \in new[i].waiters =>
               i \in DOMAIN queue /\ new[i] = queue[i]
      BY <1>4, <2>2
    <3> QED
      BY <1>1, <3>1 DEF Carried, Placed
  <2> QED
    BY <2>1, <2>2
<1>6. Carried(t, state2, new, registers, answers)
  BY <1>3, <1>5 DEF Carried
<1> QED
  BY <1>6 DEF new

(***************************************************************************)
(* A request that is joined carries the new client as well.                *)
(***************************************************************************)
LEMMA CarriedJoined ==
  ASSUME NEW t, NEW state, NEW queue, NEW registers, NEW answers,
         Carried(t, state, queue, registers, answers),
         NEW c \in Side(t), state[c].state # "waiting",
         NEW k \in DOMAIN queue, NEW packet, packet.waiters = queue[k].waiters \cup {c},
         packet.page = queue[k].page, queue = [i \in DOMAIN queue |-> queue[i]],
         NEW state2, \A d \in Side(t) \ {c} : state2[d] = state[d],
         state2[c].state = "waiting", state2[c].page = packet.page
  PROVE  Carried(t, state2, [queue EXCEPT ![k] = packet], registers, answers)
<1> DEFINE new == [queue EXCEPT ![k] = packet]
<1>1. /\ DOMAIN new = DOMAIN queue /\ new[k] = packet
      /\ \A i \in DOMAIN queue \ {k} : new[i] = queue[i]
  OBVIOUS
<1>2. /\ \A i \in DOMAIN queue : c \notin queue[i].waiters
      /\ \A i \in Live(registers) : c \notin registers[i].waiters
      /\ \A i \in DOMAIN answers : c \notin answers[i].waiters
  BY NotCarried
<1> HIDE DEF new
<1>3. \A i \in DOMAIN new : new[i].waiters # {}
  BY <1>1 DEF Carried
<1>4. ASSUME NEW d \in Side(t), d # c
      PROVE  /\ state2[d] = state[d]
             /\ \A i \in DOMAIN queue : /\ d \in new[i].waiters <=> d \in queue[i].waiters
                                        /\ new[i].page = queue[i].page
  BY <1>1, <1>4
<1>5. ASSUME NEW d \in Side(t)
      PROVE  Placed(d, state2[d], new, registers, answers)
  <2>1. CASE d = c
    <3>1. \A i \in DOMAIN new : d \in new[i].waiters <=> i = k
      BY <1>1, <1>2, <2>1 DEF Placed
    <3> QED
      BY <1>1, <1>2, <2>1, <3>1 DEF Placed
  <2>2. CASE d # c
    BY <1>1, <1>4, <2>2 DEF Carried, Placed
  <2> QED
    BY <2>1, <2>2
<1>6. Carried(t, state2, new, registers, answers)
  BY <1>3, <1>5 DEF Carried
<1> QED
  BY <1>6 DEF new

(***************************************************************************)
(* The oldest request takes a register of its own and its clients along.   *)
(***************************************************************************)
LEMMA CarriedMissed ==
  ASSUME NEW t, NEW state, NEW queue, NEW registers, NEW answers,
         Carried(t, state, queue, registers, answers),
         NEW S, queue \in Seq(S), queue # << >>,
         registers = [i \in DOMAIN registers |-> registers[i]],
         NEW k \in DOMAIN registers, registers[k] = Empty,
         NEW packet, packet # Empty, packet.page = Head(queue).page,
         packet.waiters = Head(queue).waiters
  PROVE  Carried(t, state, Tail(queue), [registers EXCEPT ![k] = packet], answers)
<1> DEFINE rest == Tail(queue)
           new == [registers EXCEPT ![k] = packet]
<1>1. /\ Head(queue) = queue[1] /\ 1 \in DOMAIN queue
      /\ \A i \in DOMAIN rest : i + 1 \in DOMAIN queue /\ i + 1 # 1 /\ rest[i] = queue[i + 1]
      /\ \A i \in DOMAIN queue : i = 1 \/ (i - 1 \in DOMAIN rest /\ rest[i - 1] = queue[i])
      /\ DOMAIN rest \subseteq Nat
  BY TailFacts
<1>2. /\ DOMAIN new = DOMAIN registers /\ new[k] = packet
      /\ \A i \in DOMAIN registers \ {k} : new[i] = registers[i]
  OBVIOUS
<1> HIDE DEF rest, new
<1>3. /\ Live(new) = Live(registers) \cup {k} /\ k \notin Live(registers)
      /\ \A i \in Live(registers) : new[i] = registers[i]
  BY <1>2 DEF Live
<1>4. \A i, j \in DOMAIN rest : i + 1 = j + 1 => i = j
  BY <1>1
<1>5. /\ \A i \in DOMAIN rest : rest[i].waiters # {}
      /\ \A i \in Live(new) : new[i].waiters # {}
  BY <1>1, <1>2, <1>3 DEF Carried
<1>6. ASSUME NEW d \in Side(t)
      PROVE  Placed(d, state[d], rest, new, answers)
  <2>1. Placed(d, state[d], queue, registers, answers)
    BY DEF Carried
  <2>2. CASE d \in queue[1].waiters
    <3>1. \A i \in DOMAIN rest : d \notin rest[i].waiters
      BY <1>1, <2>1, <2>2 DEF Placed
    <3>2. \A i \in Live(new) : d \in new[i].waiters <=> i = k
      BY <1>1, <1>2, <1>3, <2>1, <2>2 DEF Placed
    <3>3. \A i \in DOMAIN answers : d \notin answers[i].waiters
      BY <1>1, <2>1, <2>2 DEF Placed
    <3>4. state[d].state = "waiting" /\ packet.page = state[d].page
      BY <1>1, <2>1, <2>2 DEF Placed
    <3> QED
      BY <1>2, <1>3, <3>1, <3>2, <3>3, <3>4 DEF Placed
  <2>3. CASE d \notin queue[1].waiters
    <3>1. \A i \in Live(new) : d \in new[i].waiters <=> i \in Live(registers) /\ d \in registers[i].waiters
      BY <1>1, <1>2, <1>3, <2>3
    <3>2. \A i \in Live(registers) : new[i].page = registers[i].page
      BY <1>3
    <3>3. (\E i \in DOMAIN queue : d \in queue[i].waiters)
             => \E i \in DOMAIN rest : d \in rest[i].waiters
      BY <1>1, <2>3
    <3>4. ASSUME NEW i \in DOMAIN rest, d \in rest[i].waiters
          PROVE  /\ state[d].state = "waiting" /\ rest[i].page = state[d].page
                 /\ \A j \in DOMAIN rest : d \in rest[j].waiters => i = j
                 /\ \A j \in Live(registers) : d \notin registers[j].waiters
                 /\ \A j \in DOMAIN answers : d \notin answers[j].waiters
      BY <1>1, <1>4, <2>1, <3>4 DEF Placed
    <3> HIDE DEF Live
    <3> QED
      BY <1>3, <2>1, <3>1, <3>2, <3>3, <3>4 DEF Placed
  <2> QED
    BY <2>2, <2>3
<1>7. Carried(t, state, rest, new, answers)
  BY <1>5, <1>6 DEF Carried
<1> QED
  BY <1>7 DEF rest, new

(***************************************************************************)
(* The oldest request joins the register of its page.                      *)
(***************************************************************************)
LEMMA CarriedMerged ==
  ASSUME NEW t, NEW state, NEW queue, NEW registers, NEW answers,
         Carried(t, state, queue, registers, answers),
         NEW S, queue \in Seq(S), queue # << >>,
         registers = [i \in DOMAIN registers |-> registers[i]],
         NEW k \in Live(registers), registers[k].page = Head(queue).page,
         NEW packet, packet # Empty, packet.page = Head(queue).page,
         packet.waiters = registers[k].waiters \cup Head(queue).waiters
  PROVE  Carried(t, state, Tail(queue), [registers EXCEPT ![k] = packet], answers)
<1> DEFINE rest == Tail(queue)
           new == [registers EXCEPT ![k] = packet]
<1>1. /\ Head(queue) = queue[1] /\ 1 \in DOMAIN queue
      /\ \A i \in DOMAIN rest : i + 1 \in DOMAIN queue /\ i + 1 # 1 /\ rest[i] = queue[i + 1]
      /\ \A i \in DOMAIN queue : i = 1 \/ (i - 1 \in DOMAIN rest /\ rest[i - 1] = queue[i])
      /\ DOMAIN rest \subseteq Nat
  BY TailFacts
<1>2. /\ DOMAIN new = DOMAIN registers /\ new[k] = packet
      /\ \A i \in DOMAIN registers \ {k} : new[i] = registers[i]
  BY DEF Live
<1> HIDE DEF rest, new
<1>3. /\ Live(new) = Live(registers)
      /\ \A i \in Live(registers) : new[i].page = registers[i].page
      /\ \A i \in Live(registers) \ {k} : new[i] = registers[i]
  BY <1>2 DEF Live
<1>4. \A i, j \in DOMAIN rest : i + 1 = j + 1 => i = j
  BY <1>1
<1>5. /\ \A i \in DOMAIN rest : rest[i].waiters # {}
      /\ \A i \in Live(new) : new[i].waiters # {}
  BY <1>1, <1>2, <1>3, ZenonT(60) DEF Carried
<1>6. ASSUME NEW d \in Side(t)
      PROVE  Placed(d, state[d], rest, new, answers)
  <2>1. Placed(d, state[d], queue, registers, answers)
    BY DEF Carried
  <2>2. CASE d \in queue[1].waiters
    <3>1. \A i \in DOMAIN rest : d \notin rest[i].waiters
      BY <1>1, <2>1, <2>2 DEF Placed
    <3>2. \A i \in Live(new) : d \in new[i].waiters <=> i = k
      BY <1>1, <1>2, <1>3, <2>1, <2>2 DEF Placed
    <3>3. \A i \in DOMAIN answers : d \notin answers[i].waiters
      BY <1>1, <2>1, <2>2 DEF Placed
    <3>4. state[d].state = "waiting" /\ packet.page = state[d].page
      BY <1>1, <2>1, <2>2 DEF Placed
    <3> QED
      BY <1>2, <1>3, <3>1, <3>2, <3>3, <3>4 DEF Placed
  <2>3. CASE d \notin queue[1].waiters
    <3>1. \A i \in Live(new) : d \in new[i].waiters <=> d \in registers[i].waiters
      BY <1>1, <1>2, <1>3, <2>3
    <3>2. \A i \in Live(registers) : new[i].page = registers[i].page
      BY <1>3
    <3>3. (\E i \in DOMAIN queue : d \in queue[i].waiters)
             => \E i \in DOMAIN rest : d \in rest[i].waiters
      BY <1>1, <2>3
    <3>4. ASSUME NEW i \in DOMAIN rest, d \in rest[i].waiters
          PROVE  /\ state[d].state = "waiting" /\ rest[i].page = state[d].page
                 /\ \A j \in DOMAIN rest : d \in rest[j].waiters => i = j
                 /\ \A j \in Live(registers) : d \notin registers[j].waiters
                 /\ \A j \in DOMAIN answers : d \notin answers[j].waiters
      BY <1>1, <1>4, <2>1, <3>4 DEF Placed
    <3> HIDE DEF Live
    <3> QED
      BY <1>3, <2>1, <3>1, <3>2, <3>3, <3>4 DEF Placed
  <2> QED
    BY <2>2, <2>3
<1>7. Carried(t, state, rest, new, answers)
  BY <1>5, <1>6 DEF Carried
<1> QED
  BY <1>7 DEF rest, new

(***************************************************************************)
(* The oldest request hits: its clients go to the last answer.             *)
(***************************************************************************)
LEMMA CarriedHit ==
  ASSUME NEW t, NEW state, NEW queue, NEW registers, NEW answers,
         Carried(t, state, queue, registers, answers),
         NEW S, queue \in Seq(S), queue # << >>,
         NEW A, answers \in Seq(A),
         NEW answer \in A, answer.page = Head(queue).page,
         answer.waiters = Head(queue).waiters
  PROVE  Carried(t, state, Tail(queue), registers, Append(answers, answer))
<1> DEFINE rest == Tail(queue)
           new == Append(answers, answer)
           n == Len(answers) + 1
<1>1. /\ Head(queue) = queue[1] /\ 1 \in DOMAIN queue
      /\ \A i \in DOMAIN rest : i + 1 \in DOMAIN queue /\ i + 1 # 1 /\ rest[i] = queue[i + 1]
      /\ \A i \in DOMAIN queue : i = 1 \/ (i - 1 \in DOMAIN rest /\ rest[i - 1] = queue[i])
      /\ DOMAIN rest \subseteq Nat
  BY TailFacts
<1>2. /\ \A i \in DOMAIN answers : i \in DOMAIN new /\ i # n /\ new[i] = answers[i]
      /\ n \in DOMAIN new /\ new[n] = answer
      /\ \A i \in DOMAIN new : i = n \/ i \in DOMAIN answers
  BY AppendFacts
<1> HIDE DEF rest, new, n
<1>4. \A i, j \in DOMAIN rest : i + 1 = j + 1 => i = j
  BY <1>1
<1>5. /\ \A i \in DOMAIN rest : rest[i].waiters # {}
      /\ \A i \in DOMAIN new : new[i].waiters # {}
  BY <1>1, <1>2 DEF Carried
<1>6. ASSUME NEW d \in Side(t)
      PROVE  Placed(d, state[d], rest, registers, new)
  <2>1. Placed(d, state[d], queue, registers, answers)
    BY DEF Carried
  <2>2. CASE d \in queue[1].waiters
    <3>1. \A i \in DOMAIN rest : d \notin rest[i].waiters
      BY <1>1, <2>1, <2>2 DEF Placed
    <3>2. \A i \in DOMAIN new : d \in new[i].waiters <=> i = n
      BY <1>1, <1>2, <2>1, <2>2 DEF Placed
    <3>3. \A i \in Live(registers) : d \notin registers[i].waiters
      BY <1>1, <2>1, <2>2 DEF Placed
    <3>4. state[d].state = "waiting" /\ answer.page = state[d].page
      BY <1>1, <2>1, <2>2 DEF Placed
    <3> QED
      BY <1>2, <3>1, <3>2, <3>3, <3>4 DEF Placed
  <2>3. CASE d \notin queue[1].waiters
    <3>1. \A i \in DOMAIN new : d \in new[i].waiters =>
             i \in DOMAIN answers /\ new[i] = answers[i]
      BY <1>1, <1>2, <2>3
    <3>3. (\E i \in DOMAIN queue : d \in queue[i].waiters)
             => \E i \in DOMAIN rest : d \in rest[i].waiters
      BY <1>1, <2>3
    <3>4. ASSUME NEW i \in DOMAIN rest, d \in rest[i].waiters
          PROVE  /\ state[d].state = "waiting" /\ rest[i].page = state[d].page
                 /\ \A j \in DOMAIN rest : d \in rest[j].waiters => i = j
                 /\ \A j \in Live(registers) : d \notin registers[j].waiters
                 /\ \A j \in DOMAIN answers : d \notin answers[j].waiters
      BY <1>1, <1>4, <2>1, <3>4 DEF Placed
    <3> QED
      BY <1>2, <2>1, <3>1, <3>3, <3>4 DEF Placed
  <2> QED
    BY <2>2, <2>3
<1>7. Carried(t, state, rest, registers, new)
  BY <1>5, <1>6 DEF Carried
<1> QED
  BY <1>7 DEF rest, new

(***************************************************************************)
(* A register is filled: its clients go to the last answer.                *)
(***************************************************************************)
LEMMA CarriedFilled ==
  ASSUME NEW t, NEW state, NEW queue, NEW registers, NEW answers,
         Carried(t, state, queue, registers, answers),
         registers = [i \in DOMAIN registers |-> registers[i]],
         NEW k \in Live(registers),
         NEW A, answers \in Seq(A),
         NEW answer \in A, answer.page = registers[k].page,
         answer.waiters = registers[k].waiters
  PROVE  Carried(t, state, queue, [registers EXCEPT ![k] = Empty], Append(answers, answer))
<1> DEFINE left == [registers EXCEPT ![k] = Empty]
           new == Append(answers, answer)
           n == Len(answers) + 1
<1>1. /\ DOMAIN left = DOMAIN registers /\ left[k] = Empty
      /\ \A i \in DOMAIN registers \ {k} : left[i] = registers[i]
  BY DEF Live
<1>2. /\ \A i \in DOMAIN answers : i \in DOMAIN new /\ i # n /\ new[i] = answers[i]
      /\ n \in DOMAIN new /\ new[n] = answer
      /\ \A i \in DOMAIN new : i = n \/ i \in DOMAIN answers
  BY AppendFacts
<1> HIDE DEF left, new, n
<1>3. /\ Live(left) = Live(registers) \ {k}
      /\ \A i \in Live(left) : left[i] = registers[i]
  BY <1>1 DEF Live
<1>5. /\ \A i \in Live(left) : left[i].waiters # {}
      /\ \A i \in DOMAIN new : new[i].waiters # {}
  BY <1>2, <1>3 DEF Carried
<1>6. ASSUME NEW d \in Side(t)
      PROVE  Placed(d, state[d], queue, left, new)
  <2>1. Placed(d, state[d], queue, registers, answers)
    BY DEF Carried
  <2> HIDE DEF Live
  <2>2. CASE d \in registers[k].waiters
    <3>1. \A i \in DOMAIN queue : d \notin queue[i].waiters
      BY <2>1, <2>2 DEF Placed
    <3>2. \A i \in DOMAIN new : d \in new[i].waiters <=> i = n
      BY <1>2, <2>1, <2>2 DEF Placed
    <3>3. \A i \in Live(left) : d \notin left[i].waiters
      BY <1>3, <2>1, <2>2 DEF Placed
    <3>4. state[d].state = "waiting" /\ answer.page = state[d].page
      BY <2>1, <2>2 DEF Placed
    <3> QED
      BY <1>2, <3>1, <3>2, <3>3, <3>4 DEF Placed
  <2>3. CASE d \notin registers[k].waiters
    <3>1. \A i \in DOMAIN new : d \in new[i].waiters =>
             i \in DOMAIN answers /\ new[i] = answers[i]
      BY <1>2, <2>3
    <3>2. \A i \in Live(registers) : d \in registers[i].waiters =>
             i \in Live(left) /\ left[i] = registers[i]
      BY <1>3, <2>3
    <3> QED
      BY <1>2, <1>3, <2>1, <3>1, <3>2 DEF Placed
  <2> QED
    BY <2>2, <2>3
<1>7. Carried(t, state, queue, left, new)
  BY <1>5, <1>6 DEF Carried
<1> QED
  BY <1>7 DEF left, new

(***************************************************************************)
(* The oldest answer is handed to its clients.                             *)
(***************************************************************************)
LEMMA CarriedCompleted ==
  ASSUME NEW t, NEW state, NEW queue, NEW registers, NEW answers,
         Carried(t, state, queue, registers, answers),
         NEW A, answers \in Seq(A), answers # << >>,
         NEW state2,
         \A c \in Side(t) : IF c \in Head(answers).waiters
                            THEN state2[c].state # "waiting"
                            ELSE state2[c] = state[c]
  PROVE  Carried(t, state2, queue, registers, Tail(answers))
<1> DEFINE rest == Tail(answers)
<1>1. /\ Head(answers) = answers[1] /\ 1 \in DOMAIN answers
      /\ \A i \in DOMAIN rest : /\ i + 1 \in DOMAIN answers /\ i + 1 # 1
                                /\ rest[i] = answers[i + 1]
      /\ \A i \in DOMAIN answers :
           i = 1 \/ (i - 1 \in DOMAIN rest /\ rest[i - 1] = answers[i])
      /\ DOMAIN rest \subseteq Nat
  BY TailFacts
<1> HIDE DEF rest
<1>2. \A i, j \in DOMAIN rest : i + 1 = j + 1 => i = j
  BY <1>1
<1>3. \A i \in DOMAIN rest : rest[i].waiters # {}
  BY <1>1 DEF Carried
<1>4. ASSUME NEW d \in Side(t)
      PROVE  Placed(d, state2[d], queue, registers, rest)
  <2>1. Placed(d, state[d], queue, registers, answers)
    BY DEF Carried
  <2> HIDE DEF Live
  <2>2. CASE d \in answers[1].waiters
    <3>1. /\ \A i \in DOMAIN rest : d \notin rest[i].waiters
          /\ \A i \in DOMAIN queue : d \notin queue[i].waiters
          /\ \A i \in Live(registers) : d \notin registers[i].waiters
      BY <1>1, <2>1, <2>2 DEF Placed
    <3>2. state2[d].state # "waiting"
      BY <1>1, <2>2
    <3> QED
      BY <3>1, <3>2 DEF Placed
  <2>3. CASE d \notin answers[1].waiters
    <3>1. state2[d] = state[d]
      BY <1>1, <2>3
    <3>2. (\E i \in DOMAIN answers : d \in answers[i].waiters)
             => \E i \in DOMAIN rest : d \in rest[i].waiters
      BY <1>1, <2>3
    <3>3. ASSUME NEW i \in DOMAIN rest, d \in rest[i].waiters
          PROVE  /\ state[d].state = "waiting" /\ rest[i].page = state[d].page
                 /\ \A j \in DOMAIN rest : d \in rest[j].waiters => i = j
      BY <1>1, <1>2, <2>1, <3>3 DEF Placed
    <3>4. ASSUME NEW j \in DOMAIN rest, d \in rest[j].waiters
          PROVE  \E i \in DOMAIN answers : d \in answers[i].waiters
      BY <1>1, <3>4
    <3> QED
      BY <2>1, <3>1, <3>2, <3>3, <3>4 DEF Placed
  <2> QED
    BY <2>2, <2>3
<1>5. Carried(t, state2, queue, registers, rest)
  BY <1>3, <1>4 DEF Carried
<1> QED
  BY <1>5 DEF rest

(***************************************************************************)
(* PROCESSED has room for one more answer: each one there has a client of  *)
(* its own, and the new one's are in none of them.                         *)
(***************************************************************************)
LEMMA AnswersFit ==
  ASSUME NEW t \in Upper, NEW answers \in Seq(Answers(t)),
         \A i \in DOMAIN answers : answers[i].waiters # {},
         \A i, j \in DOMAIN answers, c \in Side(t) :
           c \in answers[i].waiters /\ c \in answers[j].waiters => i = j,
         NEW c \in Side(t), \A i \in DOMAIN answers : c \notin answers[i].waiters
  PROVE  Len(answers) < PROCESSED_SIZE
<1> DEFINE n == Len(answers)
           f == [i \in 0 .. n |-> IF i = 0 THEN c ELSE CHOOSE d \in answers[i].waiters : TRUE]
           T == {f[i] : i \in 0 .. n}
<1>1. n \in Nat /\ DOMAIN answers = 1 .. n
  OBVIOUS
<1>2. \A i \in 1 .. n : answers[i].waiters \subseteq Side(t)
  <2>1. \A i \in 1 .. n : answers[i] \in Answers(t)
    BY <1>1
  <2>2. \A answer \in Answers(t) : answer.waiters \subseteq Side(t)
    BY DEF Answers
  <2> QED
    BY <2>1, <2>2
<1>3. f[0] = c /\ \A i \in 1 .. n : f[i] \in answers[i].waiters
  <2>1. f[0] = c
    BY <1>1
  <2>2. \A i \in 1 .. n : f[i] = CHOOSE d \in answers[i].waiters : TRUE
    BY <1>1
  <2> HIDE DEF f
  <2> QED
    BY <1>1, <2>1, <2>2
<1>4. f = [i \in 0 .. n |-> f[i]]
  OBVIOUS
<1>5. IsFiniteSet(0 .. n) /\ Cardinality(0 .. n) = n + 1
  <2>1. (n + 1) - 1 = n /\ n + 1 \in Nat
    BY <1>1
  <2>2. IsFiniteSet(0 .. (n + 1) - 1) /\ Cardinality(0 .. (n + 1) - 1) = n + 1
    BY <2>1, Count
  <2> HIDE DEF n
  <2> QED
    BY <2>1, <2>2
<1> HIDE DEF f
<1>6. \A i, j \in 0 .. n : f[i] = f[j] => i = j
  <2>1. \A i \in 0 .. n : i = 0 \/ i \in 1 .. n
    BY <1>1
  <2> HIDE DEF n
  <2> QED
    BY <1>1, <1>2, <1>3, <2>1
<1>7. IsFiniteSet(T) /\ Cardinality(T) = n + 1
  <2> DEFINE S == 0 .. n
  <2>1. IsFiniteSet(S) /\ Cardinality(S) = n + 1
    BY <1>5
  <2>2. f = [i \in S |-> f[i]] /\ \A i, j \in S : f[i] = f[j] => i = j
    BY <1>4, <1>6
  <2>3. T = {f[i] : i \in S}
    OBVIOUS
  <2> HIDE DEF n, S, T
  <2>4. IsFiniteSet({f[i] : i \in S}) /\ Cardinality({f[i] : i \in S}) = Cardinality(S)
    BY <2>1, <2>2, ImageSize
  <2> QED
    BY <2>1, <2>3, <2>4
<1>8. T \subseteq Side(t)
  <2>1. \A i \in 0 .. n : i = 0 \/ i \in 1 .. n
    BY <1>1
  <2> QED
    BY <1>2, <1>3, <2>1
<1>9. IsFiniteSet(Side(t)) /\ Cardinality(Side(t)) <= PROCESSED_SIZE /\ PROCESSED_SIZE \in Nat
  <2>1. IsFiniteSet(Fetchers) /\ IsFiniteSet(Loads \cup Stores)
    BY ClientsFit, FS_Subset
  <2>2. \/ Side(t) = Fetchers /\ Cardinality(Fetchers) <= PROCESSED_SIZE
        \/ Side(t) = Loads \cup Stores /\ Cardinality(Loads \cup Stores) <= PROCESSED_SIZE
    BY ClientsFit DEF Side, Upper
  <2> QED
    BY <2>1, <2>2, GeometryAssumption
<1> HIDE DEF T
<1>10. Cardinality(T) <= Cardinality(Side(t)) /\ Cardinality(Side(t)) \in Nat
  BY <1>8, <1>9, FS_Subset, FS_CardinalityType
<1> QED
  BY <1>1, <1>7, <1>9, <1>10

-----------------------------------------------------------------------------
(***************************************************************************)
(* Tags stay apart when registers are freed and blocks invalidated.        *)
(***************************************************************************)
LEMMA TagsShrink ==
  ASSUME NEW t \in TLBs, NEW registers, NEW side, TagsOK(t, registers, side),
         RegistersOK(t, registers),
         NEW registers2,
         \A i \in Slots(t) : registers2[i] # Empty =>
           registers[i] # Empty /\ registers2[i].page = registers[i].page,
         NEW side2,
         \A set \in Sets(t), way \in WaysOf(t) : side2[set][way] \in {side[set][way], NoBlock},
         side \in [Sets(t) -> [WaysOf(t) -> Blocks]]
  PROVE  TagsOK(t, registers2, side2)
<1>1. NoBlock.tag = 0 /\ \A b \in Blocks : b # NoBlock => b.tag # 0
  BY Sizes DEF NoBlock, Blocks
<1>2. ASSUME NEW i \in Slots(t), registers[i] # Empty
      PROVE  registers[i].page # 0 /\ get_set(t, registers[i].page) \in Sets(t)
  BY <1>2, PacketFacts, Sizes DEF RegistersOK
<1>3. \A set \in Sets(t), way \in WaysOf(t) : side[set][way] \in Blocks
  OBVIOUS
<1>4. ASSUME NEW set \in Sets(t), NEW v \in WaysOf(t), NEW w \in WaysOf(t),
             side2[set][v] # NoBlock, side2[set][v].tag = side2[set][w].tag
      PROVE  v = w
  <2>1. side2[set][v] = side[set][v] /\ side[set][v] # NoBlock /\ side[set][v].tag # 0
    BY <1>1, <1>3, <1>4
  <2>2. side2[set][w] = side[set][w]
    BY <1>1, <1>4, <2>1
  <2> QED
    BY <1>4, <2>1, <2>2 DEF TagsOK
<1>5. ASSUME NEW i \in Slots(t), registers2[i] # Empty, NEW way \in WaysOf(t)
      PROVE  side2[get_set(t, registers2[i].page)][way].tag # registers2[i].page
  <2>1. registers[i] # Empty /\ registers2[i].page = registers[i].page
    BY <1>5
  <2>2. side[get_set(t, registers[i].page)][way].tag # registers[i].page
    BY <2>1 DEF TagsOK
  <2> QED
    BY <1>1, <1>2, <2>1, <2>2
<1> QED
  BY <1>4, <1>5 DEF TagsOK

(***************************************************************************)
(* A register is taken for a page that is not there.                       *)
(***************************************************************************)
LEMMA TagsMiss ==
  ASSUME NEW t \in TLBs, NEW registers, NEW side, TagsOK(t, registers, side),
         RegistersOK(t, registers), NEW k \in Slots(t), NEW packet,
         \A way \in WaysOf(t) : side[get_set(t, packet.page)][way].tag # packet.page
  PROVE  TagsOK(t, [registers EXCEPT ![k] = packet], side)
<1> DEFINE new == [registers EXCEPT ![k] = packet]
<1>1. new[k] = packet /\ \A i \in Slots(t) \ {k} : new[i] = registers[i]
  BY DEF RegistersOK
<1> HIDE DEF new
<1>2. TagsOK(t, new, side)
  BY <1>1 DEF TagsOK
<1> QED
  BY <1>2 DEF new

\* What a fill does to the tags of its TLB.
Filled(t, page, way, side, side2) ==
  /\ side2[get_set(t, page)][way].tag = page
  /\ \A set \in Sets(t), w \in WaysOf(t) :
       set # get_set(t, page) \/ w # way => side2[set][w] = side[set][w]

(***************************************************************************)
(* A register that is filled gives its page to one block.                  *)
(***************************************************************************)
LEMMA TagsFill ==
  ASSUME NEW t \in TLBs, NEW registers, NEW side, TagsOK(t, registers, side),
         RegistersOK(t, registers), NEW k \in Slots(t), registers[k] # Empty,
         side \in [Sets(t) -> [WaysOf(t) -> Blocks]],
         NEW way \in WaysOf(t), NEW side2, Filled(t, registers[k].page, way, side, side2)
  PROVE  TagsOK(t, [registers EXCEPT ![k] = Empty], side2)
<1> DEFINE new == [registers EXCEPT ![k] = Empty]
           page == registers[k].page
           in == get_set(t, page)
<1>1. new[k] = Empty /\ \A i \in Slots(t) \ {k} : new[i] = registers[i]
  BY DEF RegistersOK
<1>2. page # 0 /\ in \in Sets(t)
  BY PacketFacts, Sizes DEF RegistersOK
<1>3. \A set \in Sets(t), w \in WaysOf(t) : set # in \/ w # way => side2[set][w] = side[set][w]
  BY DEF Filled
<1>4. side2[in][way].tag = page /\ \A w \in WaysOf(t) : side[in][w].tag # page
  BY DEF TagsOK, Filled
<1>5. \A i \in Slots(t) : registers[i] # Empty =>
        /\ get_set(t, registers[i].page) \in Sets(t)
        /\ i # k => registers[i].page # page
  BY PacketFacts, Sizes DEF RegistersOK
<1> HIDE DEF new, page, in
<1>6. ASSUME NEW set \in Sets(t), NEW v \in WaysOf(t), NEW w \in WaysOf(t),
             side2[set][v] # NoBlock, side2[set][v].tag = side2[set][w].tag
      PROVE  v = w
  <2>1. CASE set = in /\ v = way /\ w # way
    BY <1>3, <1>4, <1>6, <2>1
  <2>2. CASE set = in /\ v # way /\ w = way
    BY <1>3, <1>4, <1>6, <2>2
  <2>3. CASE set # in \/ (v # way /\ w # way)
    <3>1. side2[set][v] = side[set][v] /\ side2[set][w] = side[set][w]
      BY <1>3, <2>3
    <3> QED
      BY <1>6, <3>1 DEF TagsOK
  <2> QED
    BY <2>1, <2>2, <2>3
<1>7. ASSUME NEW i \in Slots(t), new[i] # Empty, NEW w \in WaysOf(t)
      PROVE  side2[get_set(t, new[i].page)][w].tag # new[i].page
  <2>1. i # k /\ new[i] = registers[i] /\ registers[i].page # page
    BY <1>1, <1>5, <1>7
  <2>2. /\ get_set(t, registers[i].page) \in Sets(t)
        /\ side[get_set(t, registers[i].page)][w].tag # registers[i].page
    BY <1>5, <1>7, <2>1 DEF TagsOK
  <2>3. CASE get_set(t, registers[i].page) = in /\ w = way
    BY <1>4, <2>1, <2>3
  <2>4. CASE ~(get_set(t, registers[i].page) = in /\ w = way)
    BY <1>3, <2>1, <2>2, <2>4
  <2> QED
    BY <2>3, <2>4
<1>8. TagsOK(t, new, side2)
  BY <1>6, <1>7 DEF TagsOK
<1> QED
  BY <1>8 DEF new

(***************************************************************************)
(* Requests and misses keep matching while pages, sides and what has       *)
(* returned stay as they are.                                              *)
(***************************************************************************)
LEMMA MissesSame ==
  ASSUME StlbOnce, ReturnExpected, NoOrphanedMiss,
         Len(RQ'["STLB"]) = Len(RQ["STLB"]), DOMAIN RQ'["STLB"] = DOMAIN RQ["STLB"],
         DOMAIN RQ["STLB"] = 1 .. Len(RQ["STLB"]),
         \A i \in DOMAIN RQ["STLB"] :
           /\ RQ'["STLB"][i].page = RQ["STLB"][i].page
           /\ Above(RQ'["STLB"][i]) = Above(RQ["STLB"][i]),
         \A t \in TLBs : \A i \in Slots(t) :
           /\ MSHR'[t][i] = Empty <=> MSHR[t][i] = Empty
           /\ MSHR'[t][i].page = MSHR[t][i].page
           /\ Above(MSHR'[t][i]) = Above(MSHR[t][i])
           /\ MSHR'[t][i].returned = MSHR[t][i].returned,
         lookup'.kind = lookup.kind,
         lookup.kind = "miss" => RQ["STLB"] # << >>
  PROVE  StlbOnce' /\ ReturnExpected' /\ NoOrphanedMiss'
<1>1. "STLB" \in TLBs /\ Upper \subseteq TLBs
  BY Sizes
<1>2. \A t \in Upper, page \in Pages : InStlb(t, page)' <=> InStlb(t, page)
  BY <1>1 DEF InStlb
<1>3. \A t \in Upper, page \in Pages : InFlight(t, page)' <=> InFlight(t, page)
  BY <1>1 DEF InFlight
<1>4. ReturnExpected'
  BY <1>2, <1>3 DEF ReturnExpected
<1>5. NoOrphanedMiss'
  BY <1>2, <1>3 DEF NoOrphanedMiss
<1>6. StlbOnce'
  BY <1>1 DEF StlbOnce
<1> QED
  BY <1>4, <1>5, <1>6

(***************************************************************************)
(* In particular when nothing of this changes.                             *)
(***************************************************************************)
LEMMA MissesUnchanged ==
  ASSUME StlbOnce, ReturnExpected, NoOrphanedMiss,
         RQ'["STLB"] = RQ["STLB"], MSHR' = MSHR, lookup'.kind = lookup.kind
  PROVE  StlbOnce' /\ ReturnExpected' /\ NoOrphanedMiss'
<1>1. \A t \in Upper, page \in Pages : InStlb(t, page)' <=> InStlb(t, page)
  BY DEF InStlb
<1>2. \A t \in Upper, page \in Pages : InFlight(t, page)' <=> InFlight(t, page)
  BY DEF InFlight
<1>3. StlbOnce'
  BY DEF StlbOnce
<1> QED
  BY <1>1, <1>2, <1>3 DEF ReturnExpected, NoOrphanedMiss

-----------------------------------------------------------------------------
(***************************************************************************)
(* The hierarchy starts with empty queues, registers and blocks.           *)
(***************************************************************************)
LEMMA InitInvariant == Init => IInv
<1> SUFFICES ASSUME Init PROVE IInv
  OBVIOUS
<1>1. /\ page_table = << >> /\ stall = 0 /\ reads = 0 /\ lookup = NoLookup
      /\ client = [c \in Clients |-> [state |-> "idle"]]
      /\ RQ = [t \in TLBs |-> << >>]
      /\ MSHR = [t \in TLBs |-> [i \in Slots(t) |-> Empty]]
      /\ PROCESSED = [t \in Upper |-> << >>]
      /\ block = [t \in TLBs |-> [set \in Sets(t) |-> [way \in WaysOf(t) |-> NoBlock]]]
      /\ lru = [t \in TLBs |-> [set \in Sets(t) |-> [way \in WaysOf(t) |-> way]]]
      /\ phase = <<"issue", "ITLB">>
  BY DEF Init
<1>2. TableOK(page_table)
  <2>1. DOMAIN page_table = {}
    BY <1>1
  <2> QED
    BY <2>1, FS_EmptySet DEF TableOK
<1>3. PacketsOK
  <2>1. ASSUME NEW t \in TLBs
        PROVE  QueueOK(t, RQ[t]) /\ RegistersOK(t, MSHR[t])
    <3>1. RQ[t] = << >> /\ MSHR[t] = [i \in Slots(t) |-> Empty] /\ RQ_SIZE[t] \in Nat
      BY <1>1, Sizes
    <3> QED
      BY <3>1 DEF QueueOK, RegistersOK
  <2>2. \A t \in Upper : PROCESSED[t] \in Seq(Answers(t))
    BY <1>1
  <2>3. /\ RQ = [t \in TLBs |-> RQ[t]] /\ MSHR = [t \in TLBs |-> MSHR[t]]
        /\ PROCESSED = [t \in Upper |-> PROCESSED[t]]
    BY <1>1
  <2> QED
    BY <2>1, <2>2, <2>3 DEF PacketsOK
<1>4. BlocksOK(block)
  BY <1>1 DEF BlocksOK, Blocks
<1>5. Ranked(lru)
  <2>1. ASSUME NEW t \in TLBs, NEW set \in Sets(t)
        PROVE  IsRanking(NUM_WAY[t], lru[t][set])
    <3>1. lru[t][set] = [way \in 0 .. NUM_WAY[t] - 1 |-> way]
      BY <1>1, <2>1 DEF WaysOf
    <3> QED
      BY <3>1 DEF IsRanking
  <2> QED
    BY <1>1, <2>1 DEF Ranked
<1>6. ControlOK
  <2>1. lookup \in Lookups
    BY <1>1 DEF Lookups
  <2>2. phase \in {"issue", "fill", "read", "callback", "complete", "tick"} \X TLBs
        /\ phase[1] = "issue"
    BY <1>1 DEF TLBs
  <2> QED
    BY <1>1, <2>1, <2>2 DEF ControlOK
<1>7. ClientsOK
  BY <1>1 DEF ClientsOK
<1>8. \A t \in Upper : \A i \in Slots(t) : MSHR[t][i] = Empty
  BY <1>1, Sizes
<1>9. UpperTags
  <2>1. ASSUME NEW t \in Upper, NEW set \in Sets(t), NEW way \in WaysOf(t)
        PROVE  block[t][set][way] = NoBlock
    BY <1>1, <2>1, Sizes
  <2> QED
    BY <1>8, <2>1 DEF UpperTags, TagsOK
<1>10. ClientsCarried
  <2>1. ASSUME NEW t \in Upper
        PROVE  Carried(t, client, RQ[t], MSHR[t], PROCESSED[t])
    <3>1. DOMAIN RQ[t] = {} /\ DOMAIN PROCESSED[t] = {}
      BY <1>1, Sizes
    <3>2. Live(MSHR[t]) = {}
      BY <1>1, Sizes DEF Live
    <3>3. \A c \in Side(t) : client[c].state # "waiting"
      BY <1>1 DEF Side, Clients
    <3> QED
      BY <3>1, <3>2, <3>3 DEF Carried, Placed
  <2> QED
    BY <2>1 DEF ClientsCarried
<1>11. StlbOnce
  BY <1>1, Sizes DEF StlbOnce, NoLookup
<1>12. ReturnExpected /\ NoOrphanedMiss
  <2>1. \A t \in Upper, page \in Pages : ~InStlb(t, page)
    BY <1>1, Sizes DEF InStlb
  <2>2. \A t \in Upper, page \in Pages : ~InFlight(t, page)
    BY <1>8 DEF InFlight
  <2> QED
    BY <2>1, <2>2 DEF ReturnExpected, NoOrphanedMiss
<1> QED
  BY <1>2, <1>3, <1>4, <1>5, <1>6, <1>7, <1>9, <1>10, <1>11, <1>12 DEF IInv, Types

-----------------------------------------------------------------------------
(***************************************************************************)
(* The steps that only move the cycle on.                                  *)
(***************************************************************************)
LEMMA IdleStep ==
  ASSUME IInv,
         \/ EndIssue
         \/ \E t \in TLBs : NoFill(t) \/ NoRead(t)
         \/ UNCHANGED vars
  PROVE  IInv'
<1>1. /\ TableOK(page_table) /\ PacketsOK /\ BlocksOK(block) /\ Ranked(lru) /\ ControlOK
      /\ ClientsOK /\ UpperTags /\ ClientsCarried
      /\ StlbOnce /\ ReturnExpected /\ NoOrphanedMiss
  BY DEF IInv, Types
<1>2. UNCHANGED <<page_table, stall, client, RQ, MSHR, PROCESSED, block, lru, lookup>>
  BY DEF EndIssue, NoFill, NoRead, vars
<1>3. ControlOK'
  <2>1. CASE EndIssue
    BY <1>1, <1>2, <2>1 DEF EndIssue, ControlOK, TLBs
  <2>2. CASE \E t \in TLBs : NoFill(t)
    <3>1. PICK t \in TLBs : NoFill(t)
      BY <2>2
    <3>2. phase = <<"fill", t>> /\ phase' = <<"read", t>> /\ reads' = MAX_READ[t]
      BY <3>1 DEF NoFill, StartReads
    <3>3. reads' \in Nat
      BY <3>2, GeometryAssumption
    <3> QED
      BY <1>1, <1>2, <3>2, <3>3 DEF ControlOK
  <2>3. CASE \E t \in TLBs : NoRead(t)
    <3>1. PICK t \in TLBs : NoRead(t)
      BY <2>3
    <3>2. phase = <<"read", t>> /\ phase' = NextTlb(t) /\ reads' = 0
      BY <3>1 DEF NoRead
    <3>3. phase' \in {"fill", "complete"} \X TLBs
      BY <3>2 DEF NextTlb, TLBs
    <3> QED
      BY <1>1, <1>2, <3>2, <3>3 DEF ControlOK
  <2>4. CASE UNCHANGED vars
    BY <1>1, <2>4 DEF ControlOK, vars
  <2> QED
    BY <2>1, <2>2, <2>3, <2>4
<1>4. TableOK(page_table)' /\ BlocksOK(block)' /\ Ranked(lru)'
  BY <1>1, <1>2
<1>5. PacketsOK' /\ ClientsOK' /\ UpperTags' /\ ClientsCarried'
  BY <1>1, <1>2 DEF PacketsOK, ClientsOK, UpperTags, ClientsCarried
<1>6. StlbOnce' /\ ReturnExpected' /\ NoOrphanedMiss'
  BY <1>1, <1>2, MissesUnchanged
<1> QED
  BY <1>1, <1>3, <1>4, <1>5, <1>6 DEF IInv, Types

(***************************************************************************)
(* A client asks its TLB.                                                  *)
(***************************************************************************)
LEMMA RequestStep ==
  ASSUME IInv, NEW t \in Upper, NEW c \in Side(t), NEW page \in Demanded(t),
         NEW type \in {"LOAD", "RFO"}, Request(c, t, type, page)
  PROVE  IInv'
<1> DEFINE packet == [page |-> page, instruction |-> t = "ITLB", type |-> type,
                      waiters |-> {c}, event |-> 0]
           added == [packet EXCEPT !.event = LATENCY[t]]
           asked == [state |-> "waiting", page |-> page]
<1>1. /\ TableOK(page_table) /\ PacketsOK /\ BlocksOK(block) /\ Ranked(lru) /\ ControlOK
      /\ ClientsOK /\ UpperTags /\ ClientsCarried
      /\ StlbOnce /\ ReturnExpected /\ NoOrphanedMiss
  BY DEF IInv, Types
<1>2. /\ client[c].state # "waiting" /\ Queued(t, packet) # RQ /\ RQ' = Queued(t, packet)
      /\ client' = [client EXCEPT ![c] = asked]
      /\ UNCHANGED <<page_table, stall, MSHR, PROCESSED, block, lru, phase, reads, lookup>>
  BY DEF Request
<1>3. t \in TLBs /\ t # "STLB" /\ QueueOK(t, RQ[t]) /\ RQ = [u \in TLBs |-> RQ[u]]
  BY <1>1, Sizes DEF PacketsOK
<1>4. /\ added \in Reads(t) /\ added.page = page /\ added.waiters = {c}
      /\ packet.page = page /\ packet.waiters = {c}
  <2>1. added \in Packets(t)
    <3>1. /\ page \in CodePages \cup DataPages /\ {c} \in SUBSET Side(t)
          /\ LATENCY[t] \in 0 .. LATENCY[t]
      BY <1>3, Sizes DEF Demanded
    <3>2. PICK flag \in BOOLEAN : flag = (t = "ITLB")
      OBVIOUS
    <3>3. added = [page |-> page, instruction |-> flag, type |-> type,
                   waiters |-> {c}, event |-> LATENCY[t]]
      BY <3>2
    <3> HIDE DEF added
    <3> QED
      BY <3>1, <3>3 DEF Packets
  <2>2. Above(added) = t
    BY DEF Above, Upper
  <2>3. Own(t, added)
    BY <2>2 DEF Own
  <2> QED
    BY <2>1, <2>3 DEF Reads
<1> HIDE DEF packet, added
<1>5. /\ c \in Clients /\ client'[c] = asked /\ \A d \in Clients \ {c} : client'[d] = client[d]
      /\ Side(t) \subseteq Clients
      /\ \A u \in Upper \ {t} : Side(u) \subseteq Clients /\ c \notin Side(u)
  <2>1. Side(t) \subseteq Clients
    BY DEF Side, Clients, Upper
  <2>2. \A u \in Upper \ {t} : Side(u) \subseteq Clients /\ c \notin Side(u)
    BY ClientsFit DEF Side, Clients, Upper
  <2>3. c \in Clients /\ client = [d \in Clients |-> client[d]]
    BY <1>1, <2>1 DEF ClientsOK
  <2> QED
    BY <1>2, <2>1, <2>2, <2>3
<1>6. PICK queue : /\ RQ' = [RQ EXCEPT ![t] = queue] /\ QueueOK(t, queue)
                   /\ Carried(t, client', queue, MSHR[t], PROCESSED[t])
  <2>1. Carried(t, client, RQ[t], MSHR[t], PROCESSED[t])
    BY <1>1 DEF ClientsCarried
  <2>2. /\ \A d \in Side(t) \ {c} : client'[d] = client[d]
        /\ client'[c].state = "waiting" /\ client'[c].page = page
    BY <1>5
  <2>3. RQ[t] \in Seq(Reads(t)) /\ RQ[t] = [i \in DOMAIN RQ[t] |-> RQ[t][i]]
    BY <1>3 DEF QueueOK
  <2>4. CASE \E k \in DOMAIN RQ[t], entry \in Reads(t) : Joins(t, packet, k, entry)
    <3>1. PICK k \in DOMAIN RQ[t], entry \in Reads(t) : Joins(t, packet, k, entry)
      BY <2>4
    <3>2. /\ entry.waiters = RQ[t][k].waiters \cup {c} /\ entry.page = RQ[t][k].page
          /\ client[c].state # "waiting"
          /\ client'[c].state = "waiting" /\ client'[c].page = entry.page
      BY <1>2, <1>4, <2>2, <3>1 DEF Joins
    <3>3. Carried(t, client', [RQ[t] EXCEPT ![k] = entry], MSHR[t], PROCESSED[t])
      BY <2>1, <2>2, <2>3, <3>2, CarriedJoined
    <3> QED
      BY <1>2, <3>1, <3>3 DEF Joins
  <2>5. CASE Appends(t, packet, added)
    <3>1. /\ added.waiters = {c} /\ client[c].state # "waiting"
          /\ client'[c].state = "waiting" /\ client'[c].page = added.page
      BY <1>2, <1>4, <2>2
    <3>2. Carried(t, client', Append(RQ[t], added), MSHR[t], PROCESSED[t])
      BY <1>4, <2>1, <2>2, <2>3, <3>1, CarriedAppended
    <3> QED
      BY <1>2, <2>5, <3>2 DEF Appends
  <2>6. added = [packet EXCEPT !.event = LATENCY[t]] /\ added.page = packet.page
        /\ added.waiters = packet.waiters
    BY <1>4 DEF added
  <2>7. \/ \E k \in DOMAIN RQ[t], entry \in Reads(t) : Joins(t, packet, k, entry)
        \/ Refuses(t, packet)
        \/ Appends(t, packet, added)
    BY <1>3, <1>4, <2>6, QueuedFacts
  <2>8. ~Refuses(t, packet)
    BY <1>2 DEF Refuses
  <2> QED
    BY <2>4, <2>5, <2>7, <2>8
<1>7. RQ'[t] = queue /\ \A u \in TLBs \ {t} : RQ'[u] = RQ[u]
  BY <1>3, <1>6
<1>8. PacketsOK'
  <2>1. RQ' = [u \in TLBs |-> RQ'[u]]
    BY <1>3, <1>6
  <2> QED
    BY <1>1, <1>2, <1>6, <1>7, <2>1 DEF PacketsOK
<1>9. ClientsOK'
  <2>1. client' = [d \in Clients |-> client'[d]]
    BY <1>1, <1>2 DEF ClientsOK
  <2> QED
    BY <1>1, <1>5, <2>1 DEF ClientsOK
<1>10. ClientsCarried'
  <2>1. ASSUME NEW u \in Upper
        PROVE  Carried(u, client', RQ'[u], MSHR'[u], PROCESSED'[u])
    <3>1. CASE u = t
      BY <1>2, <1>6, <1>7, <3>1
    <3>2. CASE u # t
      <4>1. Carried(u, client, RQ[u], MSHR[u], PROCESSED[u])
        BY <1>1 DEF ClientsCarried
      <4>2. \A d \in Side(u) : client'[d] = client[d]
        BY <1>5, <3>2
      <4>3. RQ'[u] = RQ[u]
        BY <1>7, <3>2, Sizes
      <4>4. Carried(u, client', RQ[u], MSHR[u], PROCESSED[u])
        BY <4>1, <4>2, CarriedSame
      <4> QED
        BY <1>2, <4>3, <4>4
    <3> QED
      BY <3>1, <3>2
  <2> QED
    BY <2>1 DEF ClientsCarried
<1>11. RQ'["STLB"] = RQ["STLB"]
  BY <1>3, <1>7, Sizes
<1>12. ControlOK'
  BY <1>1, <1>2, <1>11 DEF ControlOK
<1>13. TableOK(page_table)' /\ BlocksOK(block)' /\ Ranked(lru)' /\ UpperTags'
  BY <1>1, <1>2 DEF UpperTags
<1>14. StlbOnce' /\ ReturnExpected' /\ NoOrphanedMiss'
  BY <1>1, <1>2, <1>11, MissesUnchanged
<1> QED
  BY <1>8, <1>9, <1>10, <1>12, <1>13, <1>14 DEF IInv, Types

(***************************************************************************)
(* A queue without its oldest packet.                                      *)
(***************************************************************************)
LEMMA QueueTail ==
  ASSUME NEW t \in TLBs, NEW queue, QueueOK(t, queue), queue # << >>
  PROVE  QueueOK(t, Tail(queue)) /\ Head(queue) \in Reads(t)
<1> DEFINE rest == Tail(queue)
<1>1. /\ rest \in Seq(Reads(t)) /\ Head(queue) \in Reads(t) /\ Len(rest) = Len(queue) - 1
      /\ \A i \in DOMAIN rest : i + 1 \in DOMAIN queue /\ rest[i] = queue[i + 1]
      /\ DOMAIN rest \subseteq Nat /\ Len(queue) \in Nat
  BY TailFacts DEF QueueOK
<1>2. Len(rest) <= RQ_SIZE[t]
  BY <1>1, Sizes DEF QueueOK
<1>3. ASSUME NEW i \in DOMAIN rest, NEW j \in DOMAIN rest, rest[i].page = rest[j].page
      PROVE  i = j
  <2>1. i + 1 = j + 1
    BY <1>1, <1>3 DEF QueueOK
  <2> QED
    BY <1>1, <2>1
<1> QED
  BY <1>1, <1>2, <1>3 DEF QueueOK

(***************************************************************************)
(* An answer for a packet of an upper TLB is never dropped.                *)
(***************************************************************************)
LEMMA AnsweredFacts ==
  ASSUME NEW t \in Upper, PROCESSED = [u \in Upper |-> PROCESSED[u]],
         PROCESSED[t] \in Seq(Answers(t)),
         Carried(t, client, RQ[t], MSHR[t], PROCESSED[t]),
         NEW packet \in Reads(t) \cup Registers(t), packet.waiters # {},
         \A i \in DOMAIN PROCESSED[t], c \in Side(t) :
           c \in packet.waiters => c \notin PROCESSED[t][i].waiters,
         NEW data \in Data
  PROVE  \E answer \in Answers(t) :
           /\ answer.page = packet.page /\ answer.waiters = packet.waiters
           /\ Answered(t, packet, data) =
                [PROCESSED EXCEPT ![t] = Append(PROCESSED[t], answer)]
<1> DEFINE answer == [page |-> packet.page, pa |-> data, waiters |-> packet.waiters]
<1>1. /\ packet.page \in CodePages \cup DataPages /\ packet.waiters \subseteq Side(t)
  BY PacketFacts, Sizes
<1>2. answer \in Answers(t)
  BY <1>1 DEF Answers
<1>3. PICK c \in Side(t) : c \in packet.waiters
  BY <1>1
<1>4. \A i \in DOMAIN PROCESSED[t] : PROCESSED[t][i].waiters # {} /\ c \notin PROCESSED[t][i].waiters
  BY <1>3 DEF Carried
<1>5. \A i, j \in DOMAIN PROCESSED[t], d \in Side(t) :
        d \in PROCESSED[t][i].waiters /\ d \in PROCESSED[t][j].waiters => i = j
  BY DEF Carried, Placed
<1>6. Len(PROCESSED[t]) < PROCESSED_SIZE
  BY <1>4, <1>5, AnswersFit
<1>7. Answered(t, packet, data) = [PROCESSED EXCEPT ![t] = Append(PROCESSED[t], answer)]
  BY <1>6 DEF Answered
<1>8. answer.page = packet.page /\ answer.waiters = packet.waiters
  OBVIOUS
<1> HIDE DEF answer
<1> QED
  BY <1>2, <1>7, <1>8

(***************************************************************************)
(* A read of an upper TLB hits.                                            *)
(***************************************************************************)
LEMMA ReadHitStep ==
  ASSUME IInv, NEW t \in Upper, ReadHit(t)
  PROVE  IInv'
<1> DEFINE packet == Head(RQ[t])
           set == get_set(t, packet.page)
           way == check_hit(block, t, packet.page)
           data == block[t][set][way].data
<1>1. /\ TableOK(page_table) /\ PacketsOK /\ BlocksOK(block) /\ Ranked(lru) /\ ControlOK
      /\ ClientsOK /\ UpperTags /\ ClientsCarried
      /\ StlbOnce /\ ReturnExpected /\ NoOrphanedMiss
  BY DEF IInv, Types
<1>2. /\ phase = <<"read", t>> /\ reads > 0 /\ RQ[t] # << >> /\ way # -1
      /\ PROCESSED' = Answered(t, packet, data)
      /\ lru' = Promote(t, set, way)
      /\ RQ' = [RQ EXCEPT ![t] = Tail(@)] /\ reads' = reads - 1
      /\ UNCHANGED <<page_table, stall, client, MSHR, block, phase, lookup>>
  BY DEF ReadHit, HeadReady, ReadDone
<1>3. /\ t \in TLBs /\ t # "STLB" /\ QueueOK(t, RQ[t]) /\ RQ = [u \in TLBs |-> RQ[u]]
      /\ RQ[t] \in Seq(Reads(t)) /\ PROCESSED[t] \in Seq(Answers(t))
      /\ PROCESSED = [u \in Upper |-> PROCESSED[u]]
  BY <1>1, Sizes DEF PacketsOK, QueueOK
<1>4. QueueOK(t, Tail(RQ[t])) /\ packet \in Reads(t)
  BY <1>2, <1>3, QueueTail
<1>5. packet.page \in Pages /\ packet.page # 0 /\ set \in Sets(t)
  BY <1>3, <1>4, PacketFacts, Sizes
<1>6. way \in WaysOf(t) /\ block[t][set][way].tag = packet.page
  BY <1>2, <1>3, HitFound
<1>7. data \in Data
  <2>1. block[t][set][way] \in Blocks /\ NoBlock.tag = 0
    BY <1>1, <1>3, <1>5, <1>6 DEF BlocksOK, NoBlock
  <2>2. \A b \in Blocks : b.tag # 0 => b.data \in Data
    BY DEF Blocks, NoBlock
  <2> QED
    BY <1>5, <1>6, <2>1, <2>2
<1>8. Ranked(lru')
  BY <1>1, <1>2, <1>3, <1>5, <1>6, PromoteRanked
<1> HIDE DEF packet, set, way, data
<1>9. Carried(t, client, RQ[t], MSHR[t], PROCESSED[t])
  BY <1>1 DEF ClientsCarried
<1>10. packet = RQ[t][1] /\ 1 \in DOMAIN RQ[t]
  BY <1>2, <1>3, TailFacts DEF packet
<1>11. PICK answer \in Answers(t) :
         /\ answer.page = packet.page /\ answer.waiters = packet.waiters
         /\ Answered(t, packet, data) =
              [PROCESSED EXCEPT ![t] = Append(PROCESSED[t], answer)]
  <2>1. packet.waiters # {}
    BY <1>9, <1>10 DEF Carried
  <2>2. \A i \in DOMAIN PROCESSED[t], c \in Side(t) :
          c \in packet.waiters => c \notin PROCESSED[t][i].waiters
    BY <1>9, <1>10 DEF Carried, Placed
  <2>3. packet \in Reads(t) \cup Registers(t)
    BY <1>4
  <2> QED
    BY <1>3, <1>7, <1>9, <2>1, <2>2, <2>3, AnsweredFacts, ZenonT(60)
<1>12. /\ RQ' = [u \in TLBs |-> RQ'[u]] /\ RQ'[t] = Tail(RQ[t])
       /\ \A u \in TLBs \ {t} : RQ'[u] = RQ[u]
       /\ PROCESSED' = [u \in Upper |-> PROCESSED'[u]]
       /\ PROCESSED'[t] = Append(PROCESSED[t], answer)
       /\ \A u \in Upper \ {t} : PROCESSED'[u] = PROCESSED[u]
  BY <1>2, <1>3, <1>11
<1>13. PacketsOK'
  <2>1. Append(PROCESSED[t], answer) \in Seq(Answers(t))
    BY <1>3
  <2> QED
    BY <1>1, <1>2, <1>4, <1>12, <2>1 DEF PacketsOK
<1>14. ClientsCarried'
  <2>1. Carried(t, client, Tail(RQ[t]), MSHR[t], Append(PROCESSED[t], answer))
    BY <1>2, <1>3, <1>9, <1>11, CarriedHit DEF packet
  <2> QED
    BY <1>1, <1>2, <1>12, <2>1, Sizes DEF ClientsCarried
<1>15. RQ'["STLB"] = RQ["STLB"]
  BY <1>3, <1>12, Sizes
<1>16. ControlOK'
  <2>1. reads' \in Nat
    BY <1>1, <1>2 DEF ControlOK
  <2>2. phase'[1] # "callback" /\ lookup' = lookup
    BY <1>2
  <2> QED
    BY <1>1, <1>2, <1>15, <2>1, <2>2 DEF ControlOK
<1>17. TableOK(page_table)' /\ BlocksOK(block)' /\ ClientsOK' /\ UpperTags'
  BY <1>1, <1>2 DEF UpperTags, ClientsOK
<1>18. StlbOnce' /\ ReturnExpected' /\ NoOrphanedMiss'
  BY <1>1, <1>2, <1>15, MissesUnchanged
<1> QED
  BY <1>8, <1>13, <1>14, <1>16, <1>17, <1>18 DEF IInv, Types

(***************************************************************************)
(* A read of an upper TLB joins the miss of its page.                      *)
(***************************************************************************)
LEMMA ReadMergedStep ==
  ASSUME IInv, NEW t \in Upper, ReadMerged(t)
  PROVE  IInv'
<1> DEFINE packet == Head(RQ[t])
           k == check_mshr(t, packet.page)
           old == MSHR[t][k]
           entry == [old EXCEPT !.waiters = @ \cup packet.waiters]
<1>1. /\ TableOK(page_table) /\ PacketsOK /\ BlocksOK(block) /\ Ranked(lru) /\ ControlOK
      /\ ClientsOK /\ UpperTags /\ ClientsCarried
      /\ StlbOnce /\ ReturnExpected /\ NoOrphanedMiss
  BY DEF IInv, Types
<1>2. /\ phase = <<"read", t>> /\ reads > 0 /\ RQ[t] # << >> /\ k # -1
      /\ MSHR' = [MSHR EXCEPT ![t][k].waiters = @ \cup packet.waiters]
      /\ RQ' = [RQ EXCEPT ![t] = Tail(@)] /\ reads' = reads - 1
      /\ UNCHANGED <<page_table, stall, client, PROCESSED, block, lru, phase, lookup>>
  BY DEF ReadMerged, HeadReady, ReadDone
<1>3. /\ t \in TLBs /\ t # "STLB" /\ QueueOK(t, RQ[t]) /\ RQ = [u \in TLBs |-> RQ[u]]
      /\ RQ[t] \in Seq(Reads(t)) /\ MSHR = [u \in TLBs |-> MSHR[u]]
      /\ RegistersOK(t, MSHR[t]) /\ MSHR[t] \in [Slots(t) -> {Empty} \cup Registers(t)]
  BY <1>1, Sizes DEF PacketsOK, QueueOK, RegistersOK
<1>4. QueueOK(t, Tail(RQ[t])) /\ packet \in Reads(t)
  BY <1>2, <1>3, QueueTail
<1>5. packet.page # 0 /\ packet.waiters \subseteq Side(t)
  BY <1>3, <1>4, PacketFacts, Sizes
<1>6. k \in Slots(t) /\ old.page = packet.page
  BY <1>2, <1>3, RegisterFound
<1>7. old \in Registers(t) /\ old # Empty
  BY <1>3, <1>5, <1>6, PacketFacts
<1>8. /\ entry \in Registers(t) /\ entry # Empty
      /\ entry.page = old.page /\ entry.waiters = old.waiters \cup packet.waiters
      /\ entry.returned = old.returned /\ Above(entry) = Above(old)
  <2> HIDE DEF packet, old
  <2>1. /\ entry.page = old.page /\ entry.waiters = old.waiters \cup packet.waiters
        /\ entry.returned = old.returned /\ entry.instruction = old.instruction
    BY <1>7 DEF Registers
  <2>2. Above(entry) = Above(old)
    <3> HIDE DEF entry
    <3> QED
      BY <2>1 DEF Above
  <2>3. Own(t, entry)
    <3>1. Own(t, old)
      BY <1>7 DEF Registers
    <3> HIDE DEF entry
    <3> QED
      BY <2>1, <2>2, <3>1 DEF Own
  <2>4. entry \in Registers(t)
    BY <1>5, <1>7, <2>3 DEF Registers
  <2> HIDE DEF entry
  <2> QED
    BY <1>3, <2>1, <2>2, <2>4, PacketFacts
<1> DEFINE new == [MSHR[t] EXCEPT ![k] = entry]
<1>9. MSHR' = [MSHR EXCEPT ![t] = new]
  <2>1. [MSHR[t] EXCEPT ![k].waiters = @ \cup packet.waiters] = new
    BY <1>3, <1>6
  <2> QED
    BY <1>2, <2>1
<1>10. /\ new[k] = entry /\ \A i \in Slots(t) \ {k} : new[i] = MSHR[t][i]
       /\ new \in [Slots(t) -> {Empty} \cup Registers(t)]
  <2> HIDE DEF entry, packet, k
  <2> QED
    BY <1>3, <1>6, <1>8
<1>11. k \in Live(MSHR[t])
  BY <1>3, <1>6, <1>7 DEF Live
<1>12. Carried(t, client, Tail(RQ[t]), new, PROCESSED[t])
  <2>1. Carried(t, client, RQ[t], MSHR[t], PROCESSED[t])
    BY <1>1 DEF ClientsCarried
  <2>2. MSHR[t] = [i \in DOMAIN MSHR[t] |-> MSHR[t][i]]
    BY <1>3
  <2>3. MSHR[t][k].page = Head(RQ[t]).page /\ entry.page = Head(RQ[t]).page
        /\ entry.waiters = MSHR[t][k].waiters \cup Head(RQ[t]).waiters
    BY <1>6, <1>8
  <2> HIDE DEF entry, k
  <2> QED
    BY <1>2, <1>3, <1>8, <1>11, <2>1, <2>2, <2>3, CarriedMerged
<1> HIDE DEF packet, k, old, entry, new
<1>13. /\ RQ' = [u \in TLBs |-> RQ'[u]] /\ RQ'[t] = Tail(RQ[t])
       /\ \A u \in TLBs \ {t} : RQ'[u] = RQ[u]
       /\ MSHR' = [u \in TLBs |-> MSHR'[u]] /\ MSHR'[t] = new
       /\ \A u \in TLBs \ {t} : MSHR'[u] = MSHR[u]
  BY <1>2, <1>3, <1>9
<1>14. \A i \in Slots(t) : /\ new[i] = Empty <=> MSHR[t][i] = Empty
                           /\ new[i].page = MSHR[t][i].page
                           /\ Above(new[i]) = Above(MSHR[t][i])
                           /\ new[i].returned = MSHR[t][i].returned
  BY <1>7, <1>8, <1>10 DEF old
<1>15. PacketsOK'
  <2>1. RegistersOK(t, new)
    BY <1>3, <1>10, <1>14 DEF RegistersOK
  <2> QED
    BY <1>1, <1>2, <1>4, <1>13, <2>1 DEF PacketsOK
<1>16. ClientsCarried'
  BY <1>1, <1>2, <1>12, <1>13, Sizes DEF ClientsCarried
<1>17. UpperTags'
  <2>1. TagsOK(t, new, block[t])
    <3>1. TagsOK(t, MSHR[t], block[t])
      BY <1>1 DEF UpperTags
    <3> QED
      BY <1>14, <3>1 DEF TagsOK
  <2> QED
    BY <1>1, <1>2, <1>13, <2>1, Sizes DEF UpperTags
<1>18. RQ'["STLB"] = RQ["STLB"]
  BY <1>3, <1>13, Sizes
<1>19. ControlOK'
  <2>1. reads' \in Nat
    BY <1>1, <1>2 DEF ControlOK
  <2>2. phase'[1] # "callback" /\ lookup' = lookup
    BY <1>2
  <2> QED
    BY <1>1, <1>2, <1>18, <2>1, <2>2 DEF ControlOK
<1>20. TableOK(page_table)' /\ BlocksOK(block)' /\ Ranked(lru)' /\ ClientsOK'
  BY <1>1, <1>2 DEF ClientsOK
<1>21. StlbOnce' /\ ReturnExpected' /\ NoOrphanedMiss'
  <2>1. \A u \in TLBs : \A i \in Slots(u) :
           /\ MSHR'[u][i] = Empty <=> MSHR[u][i] = Empty
           /\ MSHR'[u][i].page = MSHR[u][i].page
           /\ Above(MSHR'[u][i]) = Above(MSHR[u][i])
           /\ MSHR'[u][i].returned = MSHR[u][i].returned
    BY <1>13, <1>14
  <2>2. DOMAIN RQ["STLB"] = 1 .. Len(RQ["STLB"])
    BY <1>1, Sizes DEF PacketsOK, QueueOK
  <2>3. lookup.kind = "miss" => RQ["STLB"] # << >>
    BY <1>1 DEF ControlOK, NoLookup
  <2> QED
    BY <1>1, <1>2, <1>18, <2>1, <2>2, <2>3, MissesSame
<1> QED
  BY <1>15, <1>16, <1>17, <1>19, <1>20, <1>21 DEF IInv, Types

(***************************************************************************)
(* While an upper TLB has a free register, the read queue of the STLB has  *)
(* a free slot: its packets are of different misses, each in a register    *)
(* of an upper TLB.                                                        *)
(***************************************************************************)
LEMMA RoomInStlb ==
  ASSUME PacketsOK, ReturnExpected, NEW t \in Upper, NEW k \in Slots(t), MSHR[t][k] = Empty
  PROVE  Len(RQ["STLB"]) < RQ_SIZE["STLB"]
<1> DEFINE q == RQ["STLB"]
           a == MSHR_SIZE["ITLB"]
           b == MSHR_SIZE["DTLB"]
           N == a + b
           Offset(u) == IF u = "ITLB" THEN 0 ELSE a
           Slot(i) == CHOOSE s \in Slots(Above(q[i])) :
                        /\ MSHR[Above(q[i])][s] # Empty
                        /\ MSHR[Above(q[i])][s].page = q[i].page
           D == 1 .. Len(q)
           f == [i \in D |-> Offset(Above(q[i])) + Slot(i)]
           T == {f[i] : i \in D}
           free == Offset(t) + k
<1>1. /\ a \in Nat \ {0} /\ b \in Nat \ {0} /\ N <= RQ_SIZE["STLB"] /\ RQ_SIZE["STLB"] \in Nat
      /\ Slots("ITLB") = 0 .. a - 1 /\ Slots("DTLB") = 0 .. b - 1
  BY Sizes, MissesFit DEF Slots, TLBs
<1>2. /\ q \in Seq(Reads("STLB")) /\ D = DOMAIN q /\ Len(q) \in Nat
      /\ \A i, j \in D : q[i].page = q[j].page => i = j
  BY Sizes DEF PacketsOK, QueueOK
<1>3. ASSUME NEW i \in D
      PROVE  /\ Above(q[i]) \in Upper /\ Slot(i) \in Slots(Above(q[i]))
             /\ MSHR[Above(q[i])][Slot(i)] # Empty
             /\ MSHR[Above(q[i])][Slot(i)].page = q[i].page
  <2>1. q[i] \in Reads("STLB")
    BY <1>2
  <2>2. Above(q[i]) \in Upper /\ q[i].page \in Pages
    BY <2>1, PacketFacts, Sizes
  <2>3. InStlb(Above(q[i]), q[i].page)
    BY <2>2 DEF InStlb
  <2>4. InFlight(Above(q[i]), q[i].page)
    BY <2>2, <2>3 DEF ReturnExpected
  <2>5. \E s \in Slots(Above(q[i])) : /\ MSHR[Above(q[i])][s] # Empty
                                      /\ MSHR[Above(q[i])][s].page = q[i].page
    BY <2>4 DEF InFlight
  <2> HIDE DEF q, D
  <2> QED
    BY <2>2, <2>5
<1>4. \A i \in D : f[i] = Offset(Above(q[i])) + Slot(i)
  OBVIOUS
<1>5. f = [i \in D |-> f[i]]
  OBVIOUS
<1> HIDE DEF f, Slot
<1>6. ASSUME NEW u \in Upper, NEW v \in Upper, NEW s \in Slots(u), NEW r \in Slots(v),
             Offset(u) + s = Offset(v) + r
      PROVE  u = v /\ s = r /\ Offset(u) + s \in 0 .. N - 1
  <2>1. CASE u = "ITLB" /\ v = "ITLB"
    BY <1>1, <1>6, <2>1
  <2>2. CASE u = "ITLB" /\ v = "DTLB"
    BY <1>1, <1>6, <2>2
  <2>3. CASE u = "DTLB" /\ v = "ITLB"
    BY <1>1, <1>6, <2>3
  <2>4. CASE u = "DTLB" /\ v = "DTLB"
    BY <1>1, <1>6, <2>4
  <2> QED
    BY <2>1, <2>2, <2>3, <2>4 DEF Upper
<1> HIDE DEF Offset, q, D
<1>7. ASSUME NEW i \in D, NEW j \in D, f[i] = f[j]
      PROVE  i = j
  <2>1. Above(q[i]) = Above(q[j]) /\ Slot(i) = Slot(j)
    BY <1>3, <1>4, <1>6, <1>7
  <2>2. q[i].page = q[j].page
    BY <1>3, <2>1
  <2> QED
    BY <1>2, <2>2
<1>8. \A i \in D : f[i] \in 0 .. N - 1 /\ f[i] # free
  <2>1. ASSUME NEW i \in D PROVE f[i] \in 0 .. N - 1
    BY <1>3, <1>4, <1>6
  <2>2. ASSUME NEW i \in D, f[i] = free PROVE FALSE
    <3>1. Above(q[i]) = t /\ Slot(i) = k
      BY <1>3, <1>4, <1>6, <2>2
    <3> QED
      BY <1>3, <3>1
  <2> QED
    BY <2>1, <2>2
<1>9. free \in 0 .. N - 1
  BY <1>6
<1>10. IsFiniteSet(D) /\ Cardinality(D) = Len(q)
  <2>1. D = 1 .. Len(q) /\ Len(q) \in Nat
    BY <1>2 DEF D
  <2>2. 1 \in Int /\ Len(q) \in Int
    BY <2>1
  <2>3. IsFiniteSet(1 .. Len(q))
        /\ Cardinality(1 .. Len(q)) = IF 1 > Len(q) THEN 0 ELSE Len(q) - 1 + 1
    BY <2>2, FS_Interval
  <2> QED
    BY <2>1, <2>3
<1>11. Cardinality(T) = Len(q) /\ IsFiniteSet(T)
  <2>1. T = {f[i] : i \in D}
    OBVIOUS
  <2> HIDE DEF T
  <2>2. IsFiniteSet({f[i] : i \in D}) /\ Cardinality({f[i] : i \in D}) = Cardinality(D)
    BY <1>5, <1>7, <1>10, ImageSize
  <2> QED
    BY <1>10, <2>1, <2>2
<1>12. T \subseteq (0 .. N - 1) \ {free}
  BY <1>8
<1>13. N \in Nat /\ IsFiniteSet(0 .. N - 1) /\ Cardinality(0 .. N - 1) = N
  <2>1. N \in Nat
    BY <1>1
  <2> HIDE DEF N
  <2> QED
    BY <2>1, Count
<1> HIDE DEF T, N, free
<1>14. IsFiniteSet((0 .. N - 1) \ {free}) /\ Cardinality((0 .. N - 1) \ {free}) = N - 1
  BY <1>9, <1>13, FS_RemoveElement
<1>15. Cardinality(T) <= N - 1
  <2> DEFINE S == (0 .. N - 1) \ {free}
  <2>1. T \in SUBSET S /\ IsFiniteSet(S) /\ Cardinality(S) = N - 1
    BY <1>12, <1>14
  <2> HIDE DEF S
  <2>2. Cardinality(T) <= Cardinality(S)
    BY <2>1, FS_Subset
  <2> QED
    BY <2>1, <2>2
<1>16. Len(q) <= N - 1 /\ Len(q) \in Nat
  BY <1>2, <1>11, <1>15
<1>17. Len(q) < RQ_SIZE["STLB"]
  BY <1>1, <1>13, <1>16 DEF N
<1> QED
  BY <1>17 DEF q

(***************************************************************************)
(* A read of an upper TLB misses: it takes a register and asks the STLB.   *)
(***************************************************************************)
LEMMA ReadMissStep ==
  ASSUME IInv, NEW t \in Upper, ReadMiss(t)
  PROVE  IInv'
<1> DEFINE packet == Head(RQ[t])
           asked == [packet EXCEPT !.waiters = {}]
           added == [asked EXCEPT !.event = LATENCY["STLB"]]
           q == RQ["STLB"]
<1>0. PICK page : page = packet.page
  OBVIOUS
<1>1. /\ TableOK(page_table) /\ PacketsOK /\ BlocksOK(block) /\ Ranked(lru) /\ ControlOK
      /\ ClientsOK /\ UpperTags /\ ClientsCarried
      /\ StlbOnce /\ ReturnExpected /\ NoOrphanedMiss
  BY DEF IInv, Types
<1>2. /\ phase = <<"read", t>> /\ reads > 0 /\ RQ[t] # << >>
      /\ check_hit(block, t, page) = -1 /\ check_mshr(t, page) = -1
      /\ Occupancy(t) < MSHR_SIZE[t]
      /\ MSHR' = Allocated(t, packet)
      /\ RQ' = [Queued("STLB", asked) EXCEPT ![t] = Tail(RQ[t])]
      /\ reads' = reads - 1
      /\ UNCHANGED <<page_table, stall, client, PROCESSED, block, lru, phase, lookup>>
  BY <1>0 DEF ReadMiss, HeadReady
<1>3. /\ t \in TLBs /\ "STLB" \in TLBs /\ t # "STLB" /\ QueueOK(t, RQ[t]) /\ QueueOK("STLB", q)
      /\ RQ = [u \in TLBs |-> RQ[u]] /\ RQ[t] \in Seq(Reads(t))
      /\ MSHR = [u \in TLBs |-> MSHR[u]] /\ RegistersOK(t, MSHR[t])
      /\ MSHR[t] \in [Slots(t) -> {Empty} \cup Registers(t)]
  BY <1>1, Sizes DEF PacketsOK, QueueOK, RegistersOK
<1>4. QueueOK(t, Tail(RQ[t])) /\ packet \in Reads(t)
  BY <1>2, <1>3, QueueTail
<1>5. /\ page \in Pages /\ page # 0 /\ page \in Demanded(t) /\ Above(packet) = t
  BY <1>0, <1>3, <1>4, PacketFacts, Sizes
<1>6. \A i \in Slots(t) : MSHR[t][i].page # page
  BY <1>2, <1>3, RegisterFound
<1>7. \A way \in WaysOf(t) : block[t][get_set(t, page)][way].tag # page
  BY <1>2, <1>3, HitFound
<1>8. /\ added \in Reads("STLB") /\ added.page = page /\ Above(added) = t
      /\ asked.page = page /\ asked.waiters = {} /\ added.waiters = {}
  <2>1. /\ packet \in Packets(t) /\ packet.page \in CodePages \cup DataPages
        /\ packet.instruction \in BOOLEAN /\ packet.type \in {"LOAD", "RFO"}
    BY <1>3, <1>4, PacketFacts, Sizes DEF Reads
  <2> HIDE DEF packet, asked, added
  <2>2. /\ added = [page |-> packet.page, instruction |-> packet.instruction,
                    type |-> packet.type, waiters |-> {}, event |-> LATENCY["STLB"]]
        /\ asked.page = page /\ asked.waiters = {}
    <3>1. PICK flag, type, waiters, event :
                 packet = [page |-> page, instruction |-> flag, type |-> type,
                           waiters |-> waiters, event |-> event]
      BY <1>0, <2>1 DEF Packets
    <3>2. asked = [page |-> page, instruction |-> flag, type |-> type,
                   waiters |-> {}, event |-> event]
      BY <3>1 DEF asked
    <3>3. added = [page |-> page, instruction |-> flag, type |-> type,
                   waiters |-> {}, event |-> LATENCY["STLB"]]
      BY <3>2 DEF added
    <3> QED
      BY <3>1, <3>2, <3>3
  <2>3. /\ added.page = page /\ added.instruction = packet.instruction /\ added.waiters = {}
        /\ added \in Packets("STLB")
    <3>1. LATENCY["STLB"] \in 0 .. LATENCY["STLB"] /\ {} \in SUBSET Side("STLB")
      BY <1>3, Sizes
    <3> QED
      BY <1>0, <2>1, <2>2, <3>1 DEF Packets
  <2>4. Above(added) = t
    BY <1>5, <2>3 DEF Above
  <2>5. Own("STLB", added)
    BY <1>3, <1>5, <2>3, <2>4, Sizes DEF Own
  <2> QED
    BY <2>2, <2>3, <2>4, <2>5 DEF Reads
<1>9. PICK k \in Slots(t), entry \in Registers(t) :
        /\ MSHR[t][k] = Empty
        /\ entry.page = packet.page /\ entry.waiters = packet.waiters
        /\ Above(entry) = Above(packet) /\ ~entry.returned
        /\ Allocated(t, packet) = [MSHR EXCEPT ![t] = [MSHR[t] EXCEPT ![k] = entry]]
        /\ RegistersOK(t, [MSHR[t] EXCEPT ![k] = entry])
  BY <1>0, <1>2, <1>3, <1>4, <1>6, AllocatedFacts, ZenonT(60)
<1>10. entry # Empty
  BY <1>3, PacketFacts
<1> DEFINE new == [MSHR[t] EXCEPT ![k] = entry]
<1>11. /\ new[k] = entry /\ \A i \in Slots(t) \ {k} : new[i] = MSHR[t][i]
  BY <1>3
<1>12. Carried(t, client, Tail(RQ[t]), new, PROCESSED[t])
  <2>1. Carried(t, client, RQ[t], MSHR[t], PROCESSED[t])
    BY <1>1 DEF ClientsCarried
  <2>2. MSHR[t] = [i \in DOMAIN MSHR[t] |-> MSHR[t][i]] /\ k \in DOMAIN MSHR[t]
    BY <1>3
  <2>3. entry.page = Head(RQ[t]).page /\ entry.waiters = Head(RQ[t]).waiters
    BY <1>9
  <2> QED
    BY <1>2, <1>3, <1>9, <1>10, <2>1, <2>2, <2>3, CarriedMissed
<1>13. TagsOK(t, new, block[t])
  <2>1. TagsOK(t, MSHR[t], block[t])
    BY <1>1 DEF UpperTags
  <2>2. \A way \in WaysOf(t) : block[t][get_set(t, entry.page)][way].tag # entry.page
    BY <1>0, <1>7, <1>9
  <2> QED
    BY <1>3, <2>1, <2>2, TagsMiss
<1>14. RegistersOK(t, new)
  BY <1>9
<1>15. MSHR' = [MSHR EXCEPT ![t] = new]
  BY <1>2, <1>9
<1>16. added = [asked EXCEPT !.event = LATENCY["STLB"]]
  OBVIOUS
<1> HIDE DEF packet, asked, added, new
<1>17. \/ /\ Queued("STLB", asked) = RQ
          /\ \E i \in DOMAIN q : q[i].page = page
       \/ /\ Queued("STLB", asked) = [RQ EXCEPT !["STLB"] = Append(q, added)]
          /\ QueueOK("STLB", Append(q, added))
          /\ \A i \in DOMAIN q : q[i].page # page
  <2>1. \/ \E i \in DOMAIN q, e \in Reads("STLB") : Joins("STLB", asked, i, e)
        \/ Refuses("STLB", asked)
        \/ Appends("STLB", asked, added)
    BY <1>3, <1>8, <1>16, QueuedFacts
  <2>2. Len(q) < RQ_SIZE["STLB"] /\ Len(q) \in Nat /\ RQ_SIZE["STLB"] \in Nat
    <3>1. Len(q) < RQ_SIZE["STLB"]
      BY <1>1, <1>9, RoomInStlb DEF q
    <3>2. Len(q) \in Nat /\ RQ_SIZE["STLB"] \in Nat
      BY <1>3, Sizes DEF QueueOK
    <3> QED
      BY <3>1, <3>2
  <2>3. ~Refuses("STLB", asked)
    BY <2>2 DEF Refuses
  <2>4. CASE \E i \in DOMAIN q, e \in Reads("STLB") : Joins("STLB", asked, i, e)
    BY <1>8, <2>4 DEF Joins
  <2>5. CASE Appends("STLB", asked, added)
    BY <1>8, <2>5 DEF Appends
  <2> QED
    BY <2>1, <2>3, <2>4, <2>5
<1>18. /\ MSHR' = [u \in TLBs |-> MSHR'[u]] /\ MSHR'[t] = new
       /\ \A u \in TLBs \ {t} : MSHR'[u] = MSHR[u]
  BY <1>3, <1>15
<1>19. /\ RQ' = [u \in TLBs |-> RQ'[u]] /\ RQ'[t] = Tail(RQ[t])
       /\ \A u \in Upper \ {t} : RQ'[u] = RQ[u]
       /\ \/ RQ'["STLB"] = q /\ \E i \in DOMAIN q : q[i].page = page
          \/ /\ RQ'["STLB"] = Append(q, added) /\ QueueOK("STLB", Append(q, added))
             /\ \A i \in DOMAIN q : q[i].page # page
  BY <1>2, <1>3, <1>17, Sizes
<1>20. QueueOK("STLB", RQ'["STLB"])
  BY <1>3, <1>19
<1>21. PacketsOK'
  <2>1. \A u \in TLBs : QueueOK(u, RQ'[u])
    BY <1>1, <1>4, <1>19, <1>20 DEF PacketsOK, TLBs, Upper
  <2>2. \A u \in TLBs : RegistersOK(u, MSHR'[u])
    BY <1>1, <1>14, <1>18 DEF PacketsOK
  <2> QED
    BY <1>1, <1>2, <1>18, <1>19, <2>1, <2>2 DEF PacketsOK
<1>22. ClientsCarried'
  BY <1>1, <1>2, <1>12, <1>18, <1>19, Sizes DEF ClientsCarried
<1>23. UpperTags'
  BY <1>1, <1>2, <1>13, <1>18, Sizes DEF UpperTags
<1>24. ControlOK'
  <2>1. reads' \in Nat
    BY <1>1, <1>2 DEF ControlOK
  <2>2. phase'[1] # "callback"
    BY <1>2
  <2> QED
    BY <1>1, <1>2, <2>1, <2>2 DEF ControlOK
<1>25. TableOK(page_table)' /\ BlocksOK(block)' /\ Ranked(lru)' /\ ClientsOK'
  BY <1>1, <1>2 DEF ClientsOK
<1>26. /\ q \in Seq(Reads("STLB")) /\ DOMAIN q = 1 .. Len(q)
       /\ RQ'["STLB"] \in Seq(Reads("STLB"))
       /\ DOMAIN RQ'["STLB"] = 1 .. Len(RQ'["STLB"])
       /\ \A i \in DOMAIN q : i \in DOMAIN RQ'["STLB"] /\ RQ'["STLB"][i] = q[i]
       /\ \A i \in DOMAIN RQ'["STLB"] : i \in DOMAIN q \/ RQ'["STLB"][i] = added
  <2>1. q \in Seq(Reads("STLB")) /\ RQ'["STLB"] \in Seq(Reads("STLB"))
    BY <1>3, <1>20 DEF QueueOK
  <2> HIDE DEF q
  <2>2. DOMAIN q = 1 .. Len(q) /\ DOMAIN RQ'["STLB"] = 1 .. Len(RQ'["STLB"])
    BY <2>1
  <2>3. CASE RQ'["STLB"] = q
    BY <2>1, <2>2, <2>3
  <2>4. CASE RQ'["STLB"] = Append(q, added)
    <3>1. /\ \A i \in DOMAIN q : i \in DOMAIN Append(q, added) /\ Append(q, added)[i] = q[i]
          /\ \A i \in DOMAIN Append(q, added) :
               i \in DOMAIN q \/ Append(q, added)[i] = added
      BY <1>8, <2>1, AppendFacts
    <3> QED
      BY <2>1, <2>2, <2>4, <3>1
  <2> QED
    BY <1>19, <2>3, <2>4
<1>27. ASSUME NEW u \in Upper, NEW p \in Pages
       PROVE  /\ InFlight(u, p)' <=> InFlight(u, p) \/ (u = t /\ p = page)
              /\ InStlb(u, p) => InStlb(u, p)'
              /\ InStlb(u, p)' => InStlb(u, p) \/ (u = t /\ p = page)
              /\ \A j \in Slots("STLB") :
                   /\ MSHR["STLB"][j] # Empty /\ MSHR["STLB"][j].page = p
                   /\ Above(MSHR["STLB"][j]) = u
                   => InStlb(u, p)
  <2>1. MSHR'["STLB"] = MSHR["STLB"]
    BY <1>3, <1>18
  <2>2. InFlight(u, p)' <=> InFlight(u, p) \/ (u = t /\ p = page)
    <3>1. CASE u = t
      BY <1>0, <1>6, <1>9, <1>10, <1>11, <1>18, <3>1 DEF InFlight
    <3>2. CASE u # t
      BY <1>18, <3>2, Sizes DEF InFlight
    <3> QED
      BY <3>1, <3>2
  <2>3. InStlb(u, p) => InStlb(u, p)'
    BY <1>26, <2>1 DEF InStlb
  <2>4. InStlb(u, p)' => InStlb(u, p) \/ (u = t /\ p = page)
    BY <1>8, <1>26, <2>1 DEF InStlb
  <2>5. \A j \in Slots("STLB") :
          /\ MSHR["STLB"][j] # Empty /\ MSHR["STLB"][j].page = p
          /\ Above(MSHR["STLB"][j]) = u
          => InStlb(u, p)
    BY DEF InStlb
  <2> QED
    BY <2>2, <2>3, <2>4, <2>5
<1>28. ReturnExpected'
  BY <1>1, <1>27 DEF ReturnExpected
<1>29. InStlb(t, page)' \/ page \in CodePages \cap DataPages
  <2>1. PICK i \in DOMAIN RQ'["STLB"] : RQ'["STLB"][i].page = page
    <3>1. CASE \E i \in DOMAIN q : q[i].page = page
      BY <1>26, <3>1
    <3>2. CASE RQ'["STLB"] = Append(q, added)
      <4>1. /\ Len(q) + 1 \in DOMAIN RQ'["STLB"]
            /\ RQ'["STLB"][Len(q) + 1] = added
        BY <1>8, <1>26, <3>2, AppendFacts
      <4> QED
        BY <1>8, <4>1
    <3> QED
      BY <1>19, <3>1, <3>2
  <2>2. RQ'["STLB"][i] \in Reads("STLB")
    BY <1>26
  <2>3. /\ Above(RQ'["STLB"][i]) \in Upper
        /\ page \in Demanded(Above(RQ'["STLB"][i]))
    BY <2>1, <2>2, PacketFacts, Sizes
  <2>4. CASE Above(RQ'["STLB"][i]) = t
    <3>1. /\ i \in 1 .. Len(RQ'["STLB"]) /\ RQ'["STLB"][i].page = page
          /\ Above(RQ'["STLB"][i]) = t
      BY <1>26, <2>1, <2>4
    <3>2. InStlb(t, page)'
      BY <3>1 DEF InStlb
    <3> QED
      BY <3>2
  <2>5. CASE Above(RQ'["STLB"][i]) # t
    BY <1>5, <2>3, <2>5 DEF Demanded, Upper
  <2> QED
    BY <2>4, <2>5
<1>30. NoOrphanedMiss'
  <2>1. ASSUME NEW u \in Upper, NEW p \in Pages \ (CodePages \cap DataPages), InFlight(u, p)'
        PROVE  InStlb(u, p)'
    <3>1. CASE InFlight(u, p)
      <4>1. InStlb(u, p)
        BY <1>1, <3>1 DEF NoOrphanedMiss
      <4> QED
        BY <1>27, <4>1
    <3>2. CASE u = t /\ p = page
      BY <1>29, <3>2
    <3> QED
      BY <1>27, <2>1, <3>1, <3>2
  <2> QED
    BY <2>1 DEF NoOrphanedMiss
<1>31. StlbOnce'
  <2>1. lookup'.kind # "miss" /\ lookup.kind # "miss"
    BY <1>1, <1>2 DEF ControlOK, NoLookup
  <2>2. ASSUME NEW i \in DOMAIN RQ'["STLB"], NEW j \in Slots("STLB"),
               MSHR'["STLB"][j].page = RQ'["STLB"][i].page,
               Above(MSHR'["STLB"][j]) = Above(RQ'["STLB"][i])
        PROVE  FALSE
    <3>1. MSHR'["STLB"] = MSHR["STLB"]
      BY <1>3, <1>18
    <3>2. CASE i \in DOMAIN q
      BY <1>1, <1>26, <2>1, <2>2, <3>1, <3>2 DEF StlbOnce
    <3>3. CASE RQ'["STLB"][i] = added
      <4>1. MSHR["STLB"][j].page = page /\ Above(MSHR["STLB"][j]) = t
        BY <1>8, <2>2, <3>1, <3>3
      <4>2. MSHR["STLB"][j] # Empty
        BY <1>3, <1>5, <4>1, PacketFacts
      <4>3. InStlb(t, page)
        BY <1>5, <1>27, <4>1, <4>2
      <4>4. InFlight(t, page)
        BY <1>1, <1>5, <4>3 DEF ReturnExpected
      <4> QED
        BY <1>6, <4>4 DEF InFlight
    <3> QED
      BY <1>26, <3>2, <3>3
  <2> QED
    BY <2>1, <2>2 DEF StlbOnce
<1> QED
  BY <1>21, <1>22, <1>23, <1>24, <1>25, <1>28, <1>30, <1>31 DEF IInv, Types

-----------------------------------------------------------------------------
(***************************************************************************)
(* The miss that a fill handles is in a register and has returned.         *)
(***************************************************************************)
LEMMA NextFill ==
  ASSUME NEW t \in TLBs, RegistersOK(t, MSHR[t]), FillReady(t)
  PROVE  LET k == next_fill_index(t)
         IN  /\ k \in Slots(t) /\ MSHR[t][k] \in Registers(t)
             /\ MSHR[t][k] # Empty /\ MSHR[t][k].returned
<1> DEFINE S == Completed(t)
           f == [i \in S |-> MSHR[t][i].event]
           due == {i \in S : \A j \in S : MSHR[t][i].event <= MSHR[t][j].event}
<1>1. S # {} /\ S \subseteq Slots(t)
  BY DEF FillReady, Completed
<1>2. \A i \in S : MSHR[t][i] \in Registers(t) /\ MSHR[t][i] # Empty /\ MSHR[t][i].returned
  BY DEF Completed, RegistersOK
<1>3. IsFiniteSet(S)
  <2>1. IsFiniteSet(Slots(t))
    BY Sizes, Count DEF Slots
  <2> QED
    BY <1>1, <2>1, FS_Subset
<1>4. f \in [S -> Int]
  BY <1>2, PacketFacts
<1>5. PICK i \in S : \A j \in S : f[i] <= f[j]
  <2> HIDE DEF S, f
  <2> QED
    BY <1>1, <1>3, <1>4, LeastValue
<1>6. due # {} /\ due \in SUBSET Nat
  BY <1>1, <1>5, Sizes
<1>7. next_fill_index(t) = First(due)
  BY DEF next_fill_index
<1>8. First(due) \in due
  <2> HIDE DEF due
  <2> QED
    BY <1>6, FirstFound
<1>9. next_fill_index(t) \in S
  BY <1>7, <1>8
<1> HIDE DEF S
<1> QED
  BY <1>1, <1>2, <1>9

(***************************************************************************)
(* An upper TLB handles a fill: a block for the page, and its clients are  *)
(* answered.                                                               *)
(***************************************************************************)
LEMMA FillUpperStep ==
  ASSUME IInv, NEW t \in Upper, handle_fill(t)
  PROVE  IInv'
<1> DEFINE k == next_fill_index(t)
           packet == MSHR[t][k]
           set == get_set(t, packet.page)
           way == Victim(block, t, packet.page)
           new == [MSHR[t] EXCEPT ![k] = Empty]
<1>1. /\ TableOK(page_table) /\ PacketsOK /\ BlocksOK(block) /\ Ranked(lru) /\ ControlOK
      /\ ClientsOK /\ UpperTags /\ ClientsCarried
      /\ StlbOnce /\ ReturnExpected /\ NoOrphanedMiss
  BY DEF IInv, Types
<1>2. /\ t \in TLBs /\ t # "STLB"
      /\ MSHR = [u \in TLBs |-> MSHR[u]] /\ RegistersOK(t, MSHR[t])
      /\ MSHR[t] \in [Slots(t) -> {Empty} \cup Registers(t)]
      /\ PROCESSED = [u \in Upper |-> PROCESSED[u]] /\ PROCESSED[t] \in Seq(Answers(t))
  BY <1>1, Sizes DEF PacketsOK, RegistersOK
<1>3. /\ phase = <<"fill", t>> /\ FillReady(t)
      /\ block' = fill_cache(block, t, packet.page, way, packet.data)
      /\ lru' = Promote(t, set, way)
      /\ MSHR' = [MSHR EXCEPT ![t][k] = Empty]
      /\ PROCESSED' = Answered(t, packet, packet.data)
      /\ phase' = <<"read", t>> /\ reads' = MAX_READ[t]
      /\ UNCHANGED <<page_table, stall, client, RQ, lookup>>
  BY <1>2 DEF handle_fill, StartReads
<1>4. /\ k \in Slots(t) /\ packet \in Registers(t) /\ packet # Empty /\ packet.returned
  BY <1>2, <1>3, NextFill
<1>5. /\ packet.page \in Pages /\ packet.page # 0 /\ set \in Sets(t) /\ packet.data \in Data
  BY <1>2, <1>4, PacketFacts, Sizes
<1>6. way \in WaysOf(t)
  BY <1>1, <1>2, <1>5, VictimWay
<1>7. Ranked(lru')
  BY <1>1, <1>2, <1>3, <1>5, <1>6, PromoteRanked
<1>8. MSHR' = [MSHR EXCEPT ![t] = new]
  BY <1>3
<1> HIDE DEF k, packet, set, way, new
<1>9. /\ BlocksOK(block') /\ \A u \in TLBs \ {t} : block'[u] = block[u]
      /\ block'[t][get_set(t, packet.page)][way] = [tag |-> packet.page, data |-> packet.data]
      /\ \A s \in Sets(t), w \in WaysOf(t) :
           s # get_set(t, packet.page) \/ w # way => block'[t][s][w] = block[t][s][w]
  BY <1>1, <1>2, <1>3, <1>5, <1>6, FillFacts
<1>10. /\ MSHR' = [u \in TLBs |-> MSHR'[u]] /\ MSHR'[t] = new
       /\ \A u \in TLBs \ {t} : MSHR'[u] = MSHR[u]
       /\ new[k] = Empty /\ \A i \in Slots(t) \ {k} : new[i] = MSHR[t][i]
       /\ new \in [Slots(t) -> {Empty} \cup Registers(t)]
  BY <1>2, <1>4, <1>8 DEF new
<1>11. RegistersOK(t, new)
  <2>1. Empty.page = 0 /\ \A i \in Slots(t) : new[i] # Empty => new[i].page # 0
    BY <1>2, <1>10, PacketFacts
  <2> QED
    BY <1>2, <1>10, <2>1 DEF RegistersOK
<1>12. Carried(t, client, RQ[t], MSHR[t], PROCESSED[t])
  BY <1>1 DEF ClientsCarried
<1>13. k \in Live(MSHR[t]) /\ MSHR[t][k] = packet
  BY <1>2, <1>4 DEF Live, packet
<1>14. PICK answer \in Answers(t) :
         /\ answer.page = packet.page /\ answer.waiters = packet.waiters
         /\ Answered(t, packet, packet.data) =
              [PROCESSED EXCEPT ![t] = Append(PROCESSED[t], answer)]
  <2>1. packet.waiters # {}
    BY <1>12, <1>13 DEF Carried
  <2>2. \A i \in DOMAIN PROCESSED[t], c \in Side(t) :
          c \in packet.waiters => c \notin PROCESSED[t][i].waiters
    BY <1>12, <1>13 DEF Carried, Placed
  <2>3. packet \in Reads(t) \cup Registers(t)
    BY <1>4
  <2> QED
    BY <1>2, <1>5, <1>12, <2>1, <2>2, <2>3, AnsweredFacts, ZenonT(60)
<1>15. /\ PROCESSED' = [u \in Upper |-> PROCESSED'[u]]
       /\ PROCESSED'[t] = Append(PROCESSED[t], answer)
       /\ \A u \in Upper \ {t} : PROCESSED'[u] = PROCESSED[u]
  BY <1>2, <1>3, <1>14
<1>16. PacketsOK'
  <2>1. Append(PROCESSED[t], answer) \in Seq(Answers(t))
    BY <1>2
  <2> QED
    BY <1>1, <1>3, <1>10, <1>11, <1>15, <2>1 DEF PacketsOK
<1>17. ClientsCarried'
  <2>1. MSHR[t] = [i \in DOMAIN MSHR[t] |-> MSHR[t][i]]
    BY <1>2
  <2>2. Carried(t, client, RQ[t], [MSHR[t] EXCEPT ![k] = Empty], Append(PROCESSED[t], answer))
    BY <1>2, <1>12, <1>13, <1>14, <2>1, CarriedFilled
  <2>3. Carried(t, client, RQ[t], new, Append(PROCESSED[t], answer))
    BY <2>2 DEF new
  <2> QED
    BY <1>1, <1>3, <1>10, <1>15, <2>3, Sizes DEF ClientsCarried
<1>18. UpperTags'
  <2>1. TagsOK(t, MSHR[t], block[t]) /\ block[t] \in [Sets(t) -> [WaysOf(t) -> Blocks]]
    BY <1>1, <1>2 DEF UpperTags, BlocksOK
  <2>2. MSHR[t][k] # Empty /\ Filled(t, MSHR[t][k].page, way, block[t], block'[t])
    BY <1>4, <1>9, <1>13 DEF Filled
  <2>3. TagsOK(t, [MSHR[t] EXCEPT ![k] = Empty], block'[t])
    BY <1>2, <1>4, <1>6, <2>1, <2>2, TagsFill
  <2>4. TagsOK(t, new, block'[t])
    BY <2>3 DEF new
  <2> QED
    BY <1>1, <1>9, <1>10, <2>4, Sizes DEF UpperTags
<1>19. ControlOK'
  <2>1. reads' \in Nat
    BY <1>2, <1>3, GeometryAssumption
  <2> QED
    BY <1>1, <1>2, <1>3, <2>1 DEF ControlOK
<1>20. TableOK(page_table)' /\ ClientsOK'
  BY <1>1, <1>3 DEF ClientsOK
<1>21. ASSUME NEW u \in Upper, NEW p \in Pages
       PROVE  /\ InFlight(u, p)' <=> InFlight(u, p)
              /\ InStlb(u, p)' <=> InStlb(u, p)
  <2>1. MSHR'["STLB"] = MSHR["STLB"] /\ RQ'["STLB"] = RQ["STLB"]
    BY <1>2, <1>3, <1>10, Sizes
  <2>2. InStlb(u, p)' <=> InStlb(u, p)
    BY <2>1 DEF InStlb
  <2>3. CASE u = t
    BY <1>4, <1>10, <1>13, <2>2, <2>3 DEF InFlight
  <2>4. CASE u # t
    BY <1>10, <2>2, <2>4, Sizes DEF InFlight
  <2> QED
    BY <2>3, <2>4
<1>22. ReturnExpected' /\ NoOrphanedMiss'
  BY <1>1, <1>21 DEF ReturnExpected, NoOrphanedMiss
<1>23. StlbOnce'
  <2>1. MSHR'["STLB"] = MSHR["STLB"] /\ RQ'["STLB"] = RQ["STLB"] /\ lookup' = lookup
    BY <1>2, <1>3, <1>10, Sizes
  <2> QED
    BY <1>1, <2>1 DEF StlbOnce
<1> QED
  BY <1>7, <1>9, <1>16, <1>17, <1>18, <1>19, <1>20, <1>22, <1>23 DEF IInv, Types

(***************************************************************************)
(* The STLB returns data to a register of an upper TLB: its clients and    *)
(* tags stay, and the page is no longer in flight.                         *)
(***************************************************************************)
LEMMA ReturnedUpper ==
  ASSUME PacketsOK, ClientsCarried, UpperTags,
         NEW u \in Upper, NEW s \in Slots(u), NEW entry \in Registers(u), NEW page \in Pages,
         MSHR[u][s] # Empty, MSHR[u][s].page = page,
         entry.page = page, entry.waiters = MSHR[u][s].waiters, entry.returned,
         MSHR'[u] = [MSHR[u] EXCEPT ![s] = entry],
         \A v \in Upper \ {u} : MSHR'[v] = MSHR[v],
         \A v \in Upper : RQ'[v] = RQ[v] /\ block'[v] = block[v],
         UNCHANGED <<client, PROCESSED>>
  PROVE  /\ ClientsCarried' /\ UpperTags'
         /\ \A v \in Upper, p \in Pages :
              InFlight(v, p)' <=> InFlight(v, p) /\ ~(v = u /\ p = page)
<1> DEFINE old == MSHR[u]
           new == MSHR'[u]
<1>1. /\ u \in TLBs /\ RegistersOK(u, old)
      /\ old \in [Slots(u) -> {Empty} \cup Registers(u)]
  BY Sizes DEF PacketsOK, RegistersOK
<1>2. entry # Empty
  BY <1>1, PacketFacts
<1>3. /\ DOMAIN new = DOMAIN old /\ DOMAIN old = Slots(u)
      /\ new[s] = entry /\ \A i \in Slots(u) \ {s} : new[i] = old[i]
  BY <1>1
<1>4. old[s] # Empty /\ old[s].page = page /\ entry.waiters = old[s].waiters
  OBVIOUS
<1> HIDE DEF old, new
<1>5. /\ Live(new) = Live(old)
      /\ \A i \in Live(old) : new[i].page = old[i].page /\ new[i].waiters = old[i].waiters
      /\ \A i \in Slots(u) : new[i] # Empty => old[i] # Empty /\ new[i].page = old[i].page
  BY <1>2, <1>3, <1>4 DEF Live
<1>6. ClientsCarried'
  <2>1. Carried(u, client, RQ[u], old, PROCESSED[u])
    BY DEF ClientsCarried, old
  <2>2. Carried(u, client, RQ[u], new, PROCESSED[u])
    BY <1>5, <2>1, CarriedSame
  <2> QED
    BY <2>2 DEF ClientsCarried, new
<1>7. UpperTags'
  <2>1. TagsOK(u, old, block[u])
    BY DEF UpperTags, old
  <2>2. TagsOK(u, new, block[u])
    BY <1>5, <2>1 DEF TagsOK
  <2> QED
    BY <2>2 DEF UpperTags, new
<1>8. ASSUME NEW v \in Upper, NEW p \in Pages
      PROVE  InFlight(v, p)' <=> InFlight(v, p) /\ ~(v = u /\ p = page)
  <2>1. CASE v = u /\ p = page
    <3>1. \A i \in Slots(u) : old[i].page = page => i = s
      BY <1>1, <1>4 DEF RegistersOK
    <3>2. \A i \in Slots(u) : new[i].page = page /\ new[i] # Empty => new[i].returned
      BY <1>3, <1>5, <3>1
    <3> QED
      BY <2>1, <3>2 DEF InFlight, new
  <2>2. CASE v = u /\ p # page
    <3>1. \A i \in Slots(u) : new[i].page = p \/ old[i].page = p => new[i] = old[i]
      BY <1>3, <1>4, <2>2
    <3> QED
      BY <2>2, <3>1, ZenonT(60) DEF InFlight, new, old
  <2>3. CASE v # u
    BY <2>3 DEF InFlight
  <2> QED
    BY <2>1, <2>2, <2>3
<1> QED
  BY <1>6, <1>7, <1>8

(***************************************************************************)
(* The STLB handles a fill: a block for the page, and the TLB above gets   *)
(* the frame.                                                              *)
(***************************************************************************)
LEMMA FillStlbStep ==
  ASSUME IInv, handle_fill("STLB")
  PROVE  IInv'
<1> DEFINE k == next_fill_index("STLB")
           packet == MSHR["STLB"][k]
           set == get_set("STLB", packet.page)
           way == Victim(block, "STLB", packet.page)
           left == [MSHR["STLB"] EXCEPT ![k] = Empty]
           freed == [MSHR EXCEPT !["STLB"] = left]
<1>1. /\ TableOK(page_table) /\ PacketsOK /\ BlocksOK(block) /\ Ranked(lru) /\ ControlOK
      /\ ClientsOK /\ UpperTags /\ ClientsCarried
      /\ StlbOnce /\ ReturnExpected /\ NoOrphanedMiss
  BY DEF IInv, Types
<1>2. /\ "STLB" \in TLBs /\ "STLB" \notin Upper /\ Upper \subseteq TLBs
      /\ MSHR = [u \in TLBs |-> MSHR[u]] /\ \A u \in TLBs : RegistersOK(u, MSHR[u])
      /\ MSHR["STLB"] \in [Slots("STLB") -> {Empty} \cup Registers("STLB")]
  BY <1>1, Sizes DEF PacketsOK, RegistersOK
<1>3. /\ phase = <<"fill", "STLB">> /\ FillReady("STLB")
      /\ block' = fill_cache(block, "STLB", packet.page, way, packet.data)
      /\ lru' = Promote("STLB", set, way)
      /\ MSHR' = Returned([MSHR EXCEPT !["STLB"][k] = Empty], Above(packet), packet.page, packet.data)
      /\ phase' = <<"read", "STLB">> /\ reads' = MAX_READ["STLB"]
      /\ UNCHANGED <<page_table, stall, client, RQ, PROCESSED, lookup>>
  BY <1>2 DEF handle_fill, StartReads
<1>4. /\ k \in Slots("STLB") /\ packet \in Registers("STLB") /\ packet # Empty
  BY <1>2, <1>3, NextFill
<1>5. /\ packet.page \in Pages /\ packet.page # 0 /\ set \in Sets("STLB")
      /\ packet.data \in Data /\ Above(packet) \in Upper
  BY <1>2, <1>4, PacketFacts, Sizes
<1>6. way \in WaysOf("STLB")
  BY <1>1, <1>2, <1>5, VictimWay
<1>7. Ranked(lru')
  BY <1>1, <1>2, <1>3, <1>5, <1>6, PromoteRanked
<1>8. MSHR' = Returned(freed, Above(packet), packet.page, packet.data)
  BY <1>3
<1>9. packet = MSHR["STLB"][k]
  OBVIOUS
<1> HIDE DEF k, packet, set, way, left
<1>10. BlocksOK(block') /\ \A u \in TLBs \ {"STLB"} : block'[u] = block[u]
  <2>1. PICK t \in TLBs : t = "STLB"
    BY <1>2
  <2>2. block' = fill_cache(block, t, packet.page, way, packet.data) /\ way \in WaysOf(t)
    BY <1>3, <1>6, <2>1
  <2>3. /\ BlocksOK(block') /\ \A u \in TLBs \ {t} : block'[u] = block[u]
        /\ block'[t][get_set(t, packet.page)][way] = [tag |-> packet.page, data |-> packet.data]
        /\ \A s \in Sets(t), w \in WaysOf(t) :
             s # get_set(t, packet.page) \/ w # way => block'[t][s][w] = block[t][s][w]
    BY <1>1, <1>5, <2>2, FillFacts
  <2> QED
    BY <2>1, <2>3
<1>11. /\ left[k] = Empty /\ \A i \in Slots("STLB") \ {k} : left[i] = MSHR["STLB"][i]
       /\ left \in [Slots("STLB") -> {Empty} \cup Registers("STLB")]
  BY <1>2, <1>4 DEF left
<1>12. RegistersOK("STLB", left)
  <2>1. Empty.page = 0 /\ \A i \in Slots("STLB") : left[i] # Empty => left[i].page # 0
    BY <1>2, <1>11, PacketFacts
  <2> QED
    BY <1>2, <1>11, <2>1 DEF RegistersOK
<1>13. PICK u \in Upper, page \in Pages, data \in Data :
         u = Above(packet) /\ page = packet.page /\ data = packet.data
  BY <1>5
<1>14. /\ freed = [v \in TLBs |-> freed[v]] /\ freed["STLB"] = left
       /\ \A v \in Upper : freed[v] = MSHR[v]
  BY <1>2
<1> HIDE DEF freed
<1>15. InFlight(u, page)
  <2>1. InStlb(u, page)
    BY <1>4, <1>9, <1>13 DEF InStlb
  <2> QED
    BY <1>1, <2>1 DEF ReturnExpected
<1>16. PICK s \in Slots(u), entry \in Registers(u) :
         /\ MSHR[u][s] # Empty /\ MSHR[u][s].page = page
         /\ entry.page = page /\ entry.waiters = MSHR[u][s].waiters
         /\ entry.returned
         /\ MSHR' = [freed EXCEPT ![u] = [MSHR[u] EXCEPT ![s] = entry]]
         /\ RegistersOK(u, [MSHR[u] EXCEPT ![s] = entry])
  <2>1. freed[u] = MSHR[u] /\ u \in TLBs /\ RegistersOK(u, freed[u])
    BY <1>2, <1>14
  <2>2. ~ \A i \in Slots(u) : freed[u][i].page # page
    BY <1>15, <2>1 DEF InFlight
  <2>3. MSHR' = Returned(freed, u, page, data)
    BY <1>8, <1>13
  <2>4. freed = [v \in TLBs |-> freed[v]]
    BY <1>14
  <2>5. PICK s \in Slots(u), entry \in Registers(u) :
          ReturnsTo(freed, u, page, data, s, entry)
    BY <2>1, <2>2, <2>4, ReturnedFacts
  <2> QED
    BY <2>1, <2>3, <2>5 DEF ReturnsTo
<1>17. /\ MSHR' = [v \in TLBs |-> MSHR'[v]] /\ MSHR'["STLB"] = left
       /\ MSHR'[u] = [MSHR[u] EXCEPT ![s] = entry]
       /\ \A v \in Upper \ {u} : MSHR'[v] = MSHR[v]
  BY <1>2, <1>14, <1>16
<1>18. PacketsOK'
  <2>1. \A v \in TLBs : RegistersOK(v, MSHR'[v])
    BY <1>2, <1>12, <1>16, <1>17 DEF TLBs, Upper
  <2> QED
    BY <1>1, <1>3, <1>17, <2>1 DEF PacketsOK
<1>19. /\ ClientsCarried' /\ UpperTags'
       /\ \A v \in Upper, p \in Pages :
            InFlight(v, p)' <=> InFlight(v, p) /\ ~(v = u /\ p = page)
  <2>1. \A v \in Upper : RQ'[v] = RQ[v] /\ block'[v] = block[v]
    BY <1>2, <1>3, <1>10
  <2>2. UNCHANGED <<client, PROCESSED>>
    BY <1>3
  <2> QED
    BY <1>1, <1>16, <1>17, <2>1, <2>2, ReturnedUpper
<1>20. lookup.kind # "miss" /\ lookup' = lookup /\ RQ' = RQ
  BY <1>1, <1>3 DEF ControlOK, NoLookup
<1>21. ASSUME NEW v \in Upper, NEW p \in Pages
       PROVE  InStlb(v, p)' <=> InStlb(v, p) /\ ~(v = u /\ p = page)
  <2>1. \A i \in Slots("STLB") : left[i] # Empty => i # k /\ left[i] = MSHR["STLB"][i]
    BY <1>11
  <2>2. \A i \in Slots("STLB") : MSHR["STLB"][i].page = page => i = k
    BY <1>2, <1>4, <1>9, <1>13 DEF RegistersOK
  <2>3. CASE v = u /\ p = page
    <3>1. \A i \in Slots("STLB") : left[i] # Empty => left[i].page # page
      BY <2>1, <2>2
    <3>2. \A i \in 1 .. Len(RQ["STLB"]) : ~(RQ["STLB"][i].page = page /\ Above(RQ["STLB"][i]) = u)
      <4>1. DOMAIN RQ["STLB"] = 1 .. Len(RQ["STLB"])
        BY <1>1, <1>2 DEF PacketsOK, QueueOK
      <4> QED
        BY <1>1, <1>4, <1>9, <1>13, <1>20, <4>1 DEF StlbOnce
    <3> QED
      BY <1>17, <1>20, <2>3, <3>1, <3>2 DEF InStlb
  <2>4. CASE ~(v = u /\ p = page)
    <3>1. \A i \in Slots("STLB") :
            MSHR["STLB"][i].page = p /\ Above(MSHR["STLB"][i]) = v => i # k
      BY <1>9, <1>13, <2>4
    <3>2. \A i \in Slots("STLB") :
            /\ MSHR["STLB"][i] # Empty /\ MSHR["STLB"][i].page = p /\ Above(MSHR["STLB"][i]) = v
            <=> left[i] # Empty /\ left[i].page = p /\ Above(left[i]) = v
      BY <1>11, <2>1, <3>1
    <3> QED
      BY <1>17, <1>20, <2>4, <3>2 DEF InStlb
  <2> QED
    BY <2>3, <2>4
<1>22. ReturnExpected' /\ NoOrphanedMiss'
  BY <1>1, <1>19, <1>21 DEF ReturnExpected, NoOrphanedMiss
<1>23. StlbOnce'
  <2>1. \A i \in DOMAIN RQ["STLB"], j \in Slots("STLB") :
          ~(left[j].page = RQ["STLB"][i].page /\ Above(left[j]) = Above(RQ["STLB"][i]))
    <3>1. ASSUME NEW i \in DOMAIN RQ["STLB"], NEW j \in Slots("STLB"),
                 left[j].page = RQ["STLB"][i].page, Above(left[j]) = Above(RQ["STLB"][i])
          PROVE  FALSE
      <4>1. RQ["STLB"][i].page # 0
        BY <1>1, <1>2, PacketFacts DEF PacketsOK, QueueOK
      <4>2. left[j] = MSHR["STLB"][j]
        BY <1>2, <1>11, <3>1, <4>1, PacketFacts
      <4> QED
        BY <1>1, <1>20, <3>1, <4>2 DEF StlbOnce
    <3> QED
      BY <3>1
  <2> QED
    BY <1>17, <1>20, <2>1 DEF StlbOnce
<1>24. ControlOK'
  <2>1. reads' \in Nat
    BY <1>2, <1>3, GeometryAssumption
  <2> QED
    BY <1>1, <1>2, <1>3, <2>1 DEF ControlOK
<1>25. TableOK(page_table)' /\ ClientsOK'
  BY <1>1, <1>3 DEF ClientsOK
<1> QED
  BY <1>7, <1>10, <1>18, <1>19, <1>22, <1>23, <1>24, <1>25 DEF IInv, Types

(***************************************************************************)
(* A read of the STLB hits: what was found is kept for after the callback. *)
(***************************************************************************)
LEMMA StlbHitStep ==
  ASSUME IInv, StlbHit
  PROVE  IInv'
<1> DEFINE packet == Head(RQ["STLB"])
           set == get_set("STLB", packet.page)
           way == check_hit(block, "STLB", packet.page)
           data == block["STLB"][set][way].data
<1>1. /\ TableOK(page_table) /\ PacketsOK /\ BlocksOK(block) /\ Ranked(lru) /\ ControlOK
      /\ ClientsOK /\ UpperTags /\ ClientsCarried
      /\ StlbOnce /\ ReturnExpected /\ NoOrphanedMiss
  BY DEF IInv, Types
<1>2. /\ phase = <<"read", "STLB">> /\ RQ["STLB"] # << >> /\ reads > 0 /\ way # -1
      /\ lookup' = [kind |-> "hit", set |-> set, way |-> way, data |-> data,
                    budget |-> Calls(packet)]
      /\ phase' = <<"callback", "STLB">>
      /\ UNCHANGED <<page_table, stall, client, RQ, MSHR, PROCESSED, block, lru, reads>>
  BY DEF StlbHit, HeadReady
<1>3. /\ "STLB" \in TLBs /\ QueueOK("STLB", RQ["STLB"])
  BY <1>1, Sizes DEF PacketsOK
<1>4. packet \in Reads("STLB")
  BY <1>2, <1>3, QueueTail
<1>5. packet.page \in Pages /\ packet.page # 0 /\ set \in Sets("STLB")
  BY <1>3, <1>4, PacketFacts, Sizes
<1>6. way \in WaysOf("STLB") /\ block["STLB"][set][way].tag = packet.page
  BY <1>2, <1>3, HitFound
<1>7. data \in Data
  <2>1. block["STLB"] \in [Sets("STLB") -> [WaysOf("STLB") -> Blocks]]
    BY <1>1, <1>3 DEF BlocksOK
  <2>2. block["STLB"][set][way] \in Blocks
    BY <1>5, <1>6, <2>1
  <2>3. block["STLB"][set][way] # NoBlock
    BY <1>5, <1>6 DEF NoBlock
  <2> QED
    BY <2>2, <2>3 DEF Blocks
<1>8. Calls(packet) \in Nat
  BY GeometryAssumption DEF Calls
<1> HIDE DEF packet, set, way, data
<1>9. lookup' \in Lookups /\ lookup'.kind = "hit" /\ lookup' # NoLookup
  <2>1. lookup'.kind = "hit"
    BY <1>2
  <2>2. NoLookup.kind # "hit"
    BY DEF NoLookup
  <2> QED
    BY <1>2, <1>5, <1>6, <1>7, <1>8, <2>1, <2>2 DEF Lookups
<1>10. ControlOK'
  BY <1>1, <1>2, <1>3, <1>9 DEF ControlOK
<1>11. /\ TableOK(page_table)' /\ PacketsOK' /\ BlocksOK(block)' /\ Ranked(lru)'
       /\ ClientsOK' /\ UpperTags' /\ ClientsCarried'
  BY <1>1, <1>2 DEF PacketsOK, ClientsOK, UpperTags, ClientsCarried
<1>12. ReturnExpected' /\ NoOrphanedMiss'
  BY <1>1, <1>2 DEF ReturnExpected, NoOrphanedMiss, InStlb, InFlight
<1>13. StlbOnce'
  <2>1. lookup.kind # "miss"
    BY <1>1, <1>2 DEF ControlOK, NoLookup
  <2>2. lookup'.kind # "miss"
    BY <1>9
  <2> QED
    BY <1>1, <1>2, <2>1, <2>2 DEF StlbOnce
<1> QED
  BY <1>10, <1>11, <1>12, <1>13 DEF IInv, Types

(***************************************************************************)
(* A fill of the STLB leaves the blocks of the other TLBs.                 *)
(***************************************************************************)
LEMMA FillStlb ==
  ASSUME NEW blocks, BlocksOK(blocks), NEW page \in Pages, NEW way \in WaysOf("STLB"),
         NEW data \in Data, NEW new, new = fill_cache(blocks, "STLB", page, way, data)
  PROVE  BlocksOK(new) /\ \A u \in Upper : new[u] = blocks[u]
<1>1. PICK t \in TLBs : t = "STLB"
  BY Sizes
<1>2. new = fill_cache(blocks, t, page, way, data) /\ way \in WaysOf(t)
  BY <1>1
<1>3. /\ BlocksOK(new) /\ \A u \in TLBs \ {t} : new[u] = blocks[u]
      /\ new[t][get_set(t, page)][way] = [tag |-> page, data |-> data]
      /\ \A s \in Sets(t), w \in WaysOf(t) :
           s # get_set(t, page) \/ w # way => new[t][s][w] = blocks[t][s][w]
  BY <1>2, FillFacts
<1> QED
  BY <1>1, <1>3, Sizes

(***************************************************************************)
(* What a walk invalidates leaves the tags of the upper TLBs apart.        *)
(***************************************************************************)
LEMMA WalkTags ==
  ASSUME PacketsOK, BlocksOK(block), TableOK(page_table), UpperTags, NEW page \in Pages,
         \A u \in Upper : MSHR'[u] = MSHR[u] /\ block'[u] = BlocksAfterWalk(page)[u]
  PROVE  UpperTags'
<1>1. ASSUME NEW u \in Upper
      PROVE  TagsOK(u, MSHR[u], block'[u])
  <2>1. /\ u \in TLBs /\ TagsOK(u, MSHR[u], block[u]) /\ RegistersOK(u, MSHR[u])
        /\ block[u] \in [Sets(u) -> [WaysOf(u) -> Blocks]]
    BY Sizes DEF UpperTags, PacketsOK, BlocksOK
  <2>2. \A set \in Sets(u), way \in WaysOf(u) :
          block'[u][set][way] \in {block[u][set][way], NoBlock}
    BY <2>1, WalkBlocks
  <2>3. \A i \in Slots(u) : MSHR[u][i] # Empty =>
          MSHR[u][i] # Empty /\ MSHR[u][i].page = MSHR[u][i].page
    OBVIOUS
  <2> QED
    BY <2>1, <2>2, <2>3, TagsShrink
<1> QED
  BY <1>1 DEF UpperTags

(***************************************************************************)
(* A prediction is filled into the STLB in the callback.                   *)
(***************************************************************************)
LEMMA PrefetchFillStep ==
  ASSUME IInv, NEW page \in Pages, PrefetchFill(page)
  PROVE  IInv'
<1> DEFINE blocks == BlocksAfterWalk(page)
           way == Victim(blocks, "STLB", page)
           data == page_table'[page]
<1>1. /\ TableOK(page_table) /\ PacketsOK /\ BlocksOK(block) /\ Ranked(lru) /\ ControlOK
      /\ ClientsOK /\ UpperTags /\ ClientsCarried
      /\ StlbOnce /\ ReturnExpected /\ NoOrphanedMiss
  BY DEF IInv, Types
<1>2. /\ phase[1] = "callback" /\ lookup.budget > 0
      /\ page_table' \in Walks(page_table, page)
      /\ block' = fill_cache(blocks, "STLB", page, way, data)
      /\ lookup' = [lookup EXCEPT !.budget = @ - 1]
      /\ UNCHANGED <<stall, client, RQ, MSHR, PROCESSED, lru, phase, reads>>
  BY DEF PrefetchFill
<1>3. TableOK(page_table') /\ data \in Data
  BY <1>1, <1>2, WalkFacts DEF Data
<1>4. BlocksOK(blocks)
  BY <1>1, WalkBlocks
<1>5. way \in WaysOf("STLB")
  BY <1>1, <1>4, VictimWay, Sizes
<1>6. BlocksOK(block') /\ \A u \in Upper : block'[u] = blocks[u]
  <2> HIDE DEF blocks, way, data
  <2> QED
    BY <1>2, <1>3, <1>4, <1>5, FillStlb
<1>7. UpperTags'
  BY <1>1, <1>2, <1>6, WalkTags
<1>8. lookup' \in Lookups /\ lookup'.kind = lookup.kind /\ lookup' # NoLookup
  <2>1. lookup \in Lookups /\ lookup # NoLookup
    BY <1>1, <1>2 DEF ControlOK
  <2>2. lookup.budget \in Nat /\ lookup.budget - 1 \in Nat /\ lookup.kind \in {"hit", "miss"}
    BY <1>2, <2>1 DEF Lookups
  <2>3. lookup'.kind = lookup.kind /\ lookup' \in Lookups
    BY <1>2, <2>1, <2>2 DEF Lookups
  <2> QED
    BY <2>2, <2>3 DEF NoLookup
<1>9. ControlOK'
  BY <1>1, <1>2, <1>8 DEF ControlOK
<1>10. PacketsOK' /\ Ranked(lru)' /\ ClientsOK' /\ ClientsCarried'
  BY <1>1, <1>2 DEF PacketsOK, ClientsOK, ClientsCarried
<1>11. StlbOnce' /\ ReturnExpected' /\ NoOrphanedMiss'
  BY <1>1, <1>2, <1>8, MissesUnchanged
<1> QED
  BY <1>3, <1>6, <1>7, <1>9, <1>10, <1>11 DEF IInv, Types

\* Registers after a miss of the packet: the page has one, and all others are as before.
Registered(t, packet, registers) ==
  /\ RegistersOK(t, registers)
  /\ \A i \in Slots(t) : MSHR[t][i] # Empty => registers[i] = MSHR[t][i]
  /\ \A i \in Slots(t) : registers[i] # Empty =>
       \/ registers[i] = MSHR[t][i]
       \/ registers[i].page = packet.page /\ Above(registers[i]) = Above(packet)
  /\ \E i \in Slots(t) : registers[i].page = packet.page

(***************************************************************************)
(* A miss that takes a register and returns to it at once.                 *)
(***************************************************************************)
LEMMA RegisteredFacts ==
  ASSUME PacketsOK, NEW t \in TLBs, NEW packet, packet \in Reads(t),
         \A i \in Slots(t) : MSHR[t][i].page # packet.page,
         Occupancy(t) < MSHR_SIZE[t], NEW data \in Data
  PROVE  \E registers :
           /\ Returned(Allocated(t, packet), t, packet.page, data) =
                [MSHR EXCEPT ![t] = registers]
           /\ Registered(t, packet, registers)
<1>1. MSHR = [u \in TLBs |-> MSHR[u]] /\ RegistersOK(t, MSHR[t])
  BY DEF PacketsOK
<1>2. PICK slot \in Slots(t), entry \in Registers(t) :
        /\ MSHR[t][slot] = Empty
        /\ entry.page = packet.page /\ entry.waiters = packet.waiters
        /\ Above(entry) = Above(packet) /\ ~entry.returned
        /\ Allocated(t, packet) = [MSHR EXCEPT ![t] = [MSHR[t] EXCEPT ![slot] = entry]]
        /\ RegistersOK(t, [MSHR[t] EXCEPT ![slot] = entry])
  BY <1>1, AllocatedFacts
<1> DEFINE taken == [MSHR[t] EXCEPT ![slot] = entry]
           mshr == [MSHR EXCEPT ![t] = taken]
<1>3. /\ Allocated(t, packet) = mshr /\ RegistersOK(t, taken)
      /\ mshr = [u \in TLBs |-> mshr[u]] /\ mshr[t] = taken
      /\ \A registers : [mshr EXCEPT ![t] = registers] = [MSHR EXCEPT ![t] = registers]
  BY <1>1, <1>2
<1>4. /\ taken[slot] = entry /\ \A i \in Slots(t) \ {slot} : taken[i] = MSHR[t][i]
      /\ taken \in [Slots(t) -> {Empty} \cup Registers(t)]
  BY <1>1, <1>2 DEF RegistersOK
<1>5. PICK page \in Pages : page = packet.page
  BY PacketFacts
<1> HIDE DEF taken, mshr
<1>6. ~ \A i \in Slots(t) : mshr[t][i].page # page
  BY <1>2, <1>3, <1>4, <1>5
<1>7. PICK slot2 \in Slots(t), entry2 \in Registers(t) :
        ReturnsTo(mshr, t, page, data, slot2, entry2)
  <2>1. RegistersOK(t, mshr[t])
    BY <1>3
  <2> QED
    BY <1>3, <1>6, <2>1, ReturnedFacts
<1> DEFINE registers == [taken EXCEPT ![slot2] = entry2]
<1>8. /\ taken[slot2] # Empty /\ taken[slot2].page = page
      /\ entry2.page = page /\ Above(entry2) = Above(taken[slot2])
      /\ Returned(mshr, t, page, data) = [mshr EXCEPT ![t] = registers]
      /\ RegistersOK(t, registers)
  BY <1>3, <1>7 DEF ReturnsTo
<1>9. slot2 = slot
  BY <1>2, <1>3, <1>4, <1>5, <1>8 DEF RegistersOK
<1>10. registers[slot] = entry2 /\ \A i \in Slots(t) \ {slot} : registers[i] = taken[i]
  BY <1>4, <1>9
<1> HIDE DEF registers
<1>11. Registered(t, packet, registers)
  <2>1. \A i \in Slots(t) : MSHR[t][i] # Empty => registers[i] = MSHR[t][i]
    BY <1>2, <1>4, <1>10
  <2>2. /\ registers[slot].page = packet.page
        /\ Above(registers[slot]) = Above(packet)
    BY <1>2, <1>4, <1>5, <1>8, <1>9, <1>10
  <2>3. \A i \in Slots(t) : registers[i] # Empty =>
          \/ registers[i] = MSHR[t][i]
          \/ registers[i].page = packet.page /\ Above(registers[i]) = Above(packet)
    BY <1>4, <1>10, <2>2
  <2> QED
    BY <1>8, <2>1, <2>2, <2>3 DEF Registered
<1> QED
  BY <1>3, <1>5, <1>8, <1>11

(***************************************************************************)
(* A read of the STLB misses: the page is walked for and its register      *)
(* holds the frame, or another request has done so.                        *)
(***************************************************************************)
LEMMA StlbMissStep ==
  ASSUME IInv, StlbMiss
  PROVE  IInv'
<1> DEFINE q == RQ["STLB"]
           old == MSHR["STLB"]
           packet == Head(RQ["STLB"])
           new == check_mshr("STLB", packet.page) = -1
<1>1. /\ TableOK(page_table) /\ PacketsOK /\ BlocksOK(block) /\ Ranked(lru) /\ ControlOK
      /\ ClientsOK /\ UpperTags /\ ClientsCarried
      /\ StlbOnce /\ ReturnExpected /\ NoOrphanedMiss
  BY DEF IInv, Types
<1>2. /\ phase = <<"read", "STLB">> /\ q # << >> /\ reads > 0
      /\ lookup' = [kind |-> "miss", budget |-> Calls(packet)]
      /\ phase' = <<"callback", "STLB">>
      /\ UNCHANGED <<client, RQ, PROCESSED, lru, reads>>
  BY DEF StlbMiss, HeadReady
<1>3. IF new
      THEN /\ Occupancy("STLB") < MSHR_SIZE["STLB"]
           /\ page_table' \in Walks(page_table, packet.page)
           /\ stall' = StallAfterWalk(packet.page)
           /\ block' = BlocksAfterWalk(packet.page)
           /\ MSHR' = Returned(Allocated("STLB", packet), "STLB", packet.page,
                               page_table'[packet.page])
      ELSE UNCHANGED <<page_table, stall, block, MSHR>>
  BY DEF StlbMiss
<1>4. /\ "STLB" \in TLBs /\ Upper \subseteq TLBs /\ "STLB" \notin Upper
      /\ QueueOK("STLB", q) /\ RegistersOK("STLB", old)
      /\ MSHR = [u \in TLBs |-> MSHR[u]]
  BY <1>1, Sizes DEF PacketsOK
<1>5. /\ packet \in Reads("STLB") /\ packet = q[1]
      /\ 1 \in DOMAIN q /\ DOMAIN q = 1 .. Len(q) /\ q \in Seq(Reads("STLB"))
  BY <1>2, <1>4, QueueTail, TailFacts DEF QueueOK
<1>6. packet.page \in Pages /\ packet.page # 0
  BY <1>4, <1>5, PacketFacts
<1>7. /\ new => \A i \in Slots("STLB") : old[i].page # packet.page
      /\ ~new => \E i \in Slots("STLB") : old[i].page = packet.page
  BY <1>4, RegisterFound
<1> HIDE DEF q, old, packet, new
<1>8. /\ TableOK(page_table') /\ BlocksOK(block') /\ UpperTags' /\ stall' \in Nat
      /\ MSHR' = [u \in TLBs |-> MSHR'[u]] /\ \A u \in Upper : MSHR'[u] = MSHR[u]
      /\ Registered("STLB", packet, MSHR'["STLB"])
  <2>1. CASE new
    <3>1. /\ page_table' \in Walks(page_table, packet.page)
          /\ stall' = StallAfterWalk(packet.page)
          /\ block' = BlocksAfterWalk(packet.page)
          /\ MSHR' = Returned(Allocated("STLB", packet), "STLB", packet.page,
                              page_table'[packet.page])
          /\ Occupancy("STLB") < MSHR_SIZE["STLB"]
      BY <1>3, <2>1
    <3>2. TableOK(page_table') /\ page_table'[packet.page] \in Data
      BY <1>1, <1>6, <3>1, WalkFacts DEF Data
    <3>3. BlocksOK(block')
      BY <1>1, <1>6, <3>1, WalkBlocks
    <3>4. stall' \in Nat
      BY <3>1, GeometryAssumption DEF StallAfterWalk
    <3>5. PICK data \in Data : data = page_table'[packet.page]
      BY <3>2
    <3>6. \A i \in Slots("STLB") : MSHR["STLB"][i].page # packet.page
      BY <1>7, <2>1 DEF old
    <3>7. PICK registers :
            /\ Returned(Allocated("STLB", packet), "STLB", packet.page, data) =
                 [MSHR EXCEPT !["STLB"] = registers]
            /\ Registered("STLB", packet, registers)
      BY <1>1, <1>4, <1>5, <3>1, <3>6, RegisteredFacts
    <3>8. MSHR' = [MSHR EXCEPT !["STLB"] = registers]
      BY <3>1, <3>5, <3>7
    <3>9. /\ MSHR' = [u \in TLBs |-> MSHR'[u]] /\ \A u \in Upper : MSHR'[u] = MSHR[u]
          /\ MSHR'["STLB"] = registers
      BY <1>4, <3>8
    <3>10. UpperTags'
      BY <1>1, <1>6, <3>1, <3>9, WalkTags
    <3> QED
      BY <3>2, <3>3, <3>4, <3>7, <3>9, <3>10
  <2>2. CASE ~new
    <3>1. UNCHANGED <<page_table, stall, block, MSHR>>
      BY <1>3, <2>2
    <3>2. UpperTags' /\ stall' \in Nat
      BY <1>1, <3>1 DEF UpperTags, ControlOK
    <3>3. Registered("STLB", packet, MSHR["STLB"])
      BY <1>4, <1>7, <2>2 DEF Registered, old
    <3> QED
      BY <1>1, <1>4, <3>1, <3>2, <3>3
  <2> QED
    BY <2>1, <2>2
<1>9. /\ RegistersOK("STLB", MSHR'["STLB"])
      /\ \A i \in Slots("STLB") : old[i] # Empty => MSHR'["STLB"][i] = old[i]
      /\ \A i \in Slots("STLB") : MSHR'["STLB"][i] # Empty =>
           \/ MSHR'["STLB"][i] = old[i]
           \/ /\ MSHR'["STLB"][i].page = packet.page
              /\ Above(MSHR'["STLB"][i]) = Above(packet)
      /\ \E i \in Slots("STLB") : MSHR'["STLB"][i].page = packet.page
  BY <1>8 DEF Registered, old
<1>10. PacketsOK'
  <2>1. \A u \in TLBs : RegistersOK(u, MSHR'[u])
    BY <1>1, <1>8, <1>9 DEF PacketsOK, TLBs, Upper
  <2> QED
    BY <1>1, <1>2, <1>8, <2>1 DEF PacketsOK
<1>11. ClientsCarried'
  BY <1>1, <1>2, <1>8 DEF ClientsCarried
<1>12. ControlOK'
  <2>1. Calls(packet) \in Nat
    BY GeometryAssumption DEF Calls
  <2>2. lookup' \in Lookups /\ lookup' # NoLookup
    <3>1. lookup'.kind = "miss" /\ NoLookup.kind # "miss"
      BY <1>2 DEF NoLookup
    <3> QED
      BY <1>2, <2>1, <3>1 DEF Lookups
  <2>3. q = RQ["STLB"]
    BY DEF q
  <2> QED
    BY <1>1, <1>2, <1>4, <1>8, <2>2, <2>3 DEF ControlOK
<1>13. Ranked(lru)' /\ ClientsOK'
  BY <1>1, <1>2 DEF ClientsOK
<1>14. ASSUME NEW u \in Upper, NEW p \in Pages
       PROVE  /\ InFlight(u, p)' <=> InFlight(u, p)
              /\ InStlb(u, p)' <=> InStlb(u, p)
  <2>1. InFlight(u, p)' <=> InFlight(u, p)
    BY <1>8 DEF InFlight
  <2>2. InStlb(u, p) => InStlb(u, p)'
    BY <1>2, <1>9 DEF InStlb, old
  <2>3. p = packet.page /\ u = Above(packet) => InStlb(u, p)
    BY <1>5 DEF InStlb, q
  <2>4. InStlb(u, p)' => InStlb(u, p)
    BY <1>2, <1>9, <2>3 DEF InStlb, old
  <2> QED
    BY <2>1, <2>2, <2>4
<1>15. ReturnExpected' /\ NoOrphanedMiss'
  BY <1>1, <1>14 DEF ReturnExpected, NoOrphanedMiss
<1>16. StlbOnce'
  <2>1. lookup.kind # "miss" /\ lookup'.kind = "miss" /\ RQ' = RQ
    BY <1>1, <1>2 DEF ControlOK, NoLookup
  <2>2. ASSUME NEW i \in DOMAIN q, NEW j \in Slots("STLB"),
               MSHR'["STLB"][j].page = q[i].page,
               Above(MSHR'["STLB"][j]) = Above(q[i])
        PROVE  i = 1
    <3>1. MSHR'["STLB"][j] # Empty
      BY <1>4, <1>5, <2>2, PacketFacts
    <3>2. CASE MSHR'["STLB"][j] = old[j]
      BY <1>1, <2>1, <2>2, <3>2 DEF StlbOnce, q, old
    <3>3. CASE MSHR'["STLB"][j].page = packet.page
      BY <1>4, <1>5, <2>2, <3>3 DEF QueueOK
    <3> QED
      BY <1>9, <3>1, <3>2, <3>3
  <2> QED
    BY <1>5, <1>9, <2>1, <2>2 DEF StlbOnce, q
<1> QED
  BY <1>8, <1>10, <1>11, <1>12, <1>13, <1>15, <1>16 DEF IInv, Types

(***************************************************************************)
(* After the callback of a hit, the TLB above gets the data, and the       *)
(* request leaves the queue of the STLB.                                   *)
(***************************************************************************)
LEMMA FinishHitStep ==
  ASSUME IInv, FinishHit
  PROVE  IInv'
<1> DEFINE q == RQ["STLB"]
           packet == Head(RQ["STLB"])
<1>1. /\ TableOK(page_table) /\ PacketsOK /\ BlocksOK(block) /\ Ranked(lru) /\ ControlOK
      /\ ClientsOK /\ UpperTags /\ ClientsCarried
      /\ StlbOnce /\ ReturnExpected /\ NoOrphanedMiss
  BY DEF IInv, Types
<1>2. /\ phase[1] = "callback" /\ lookup.kind = "hit"
      /\ lru' = Promote("STLB", lookup.set, lookup.way)
      /\ MSHR' = Returned(MSHR, Above(packet), packet.page, lookup.data)
      /\ RQ' = [RQ EXCEPT !["STLB"] = Tail(q)] /\ reads' = reads - 1
      /\ lookup' = NoLookup /\ phase' = <<"read", "STLB">>
      /\ UNCHANGED <<page_table, stall, client, PROCESSED, block>>
  BY DEF FinishHit, ReadDone
<1>3. /\ "STLB" \in TLBs /\ Upper \subseteq TLBs /\ "STLB" \notin Upper
      /\ QueueOK("STLB", q) /\ q # << >>
      /\ RQ = [v \in TLBs |-> RQ[v]]
      /\ MSHR = [v \in TLBs |-> MSHR[v]] /\ \A v \in TLBs : RegistersOK(v, MSHR[v])
  BY <1>1, <1>2, Sizes DEF PacketsOK, ControlOK
<1>4. /\ packet \in Reads("STLB") /\ packet = q[1] /\ QueueOK("STLB", Tail(q))
      /\ 1 \in DOMAIN q /\ DOMAIN q = 1 .. Len(q) /\ Len(q) \in Nat \ {0}
      /\ Len(Tail(q)) = Len(q) - 1 /\ DOMAIN Tail(q) = 1 .. Len(q) - 1
      /\ \A i \in DOMAIN Tail(q) : i + 1 \in DOMAIN q /\ i + 1 # 1 /\ Tail(q)[i] = q[i + 1]
      /\ \A i \in DOMAIN q : i = 1 \/ (i - 1 \in DOMAIN Tail(q) /\ Tail(q)[i - 1] = q[i])
  BY <1>3, QueueTail, TailFacts DEF QueueOK
<1>5. lookup.set \in Sets("STLB") /\ lookup.way \in WaysOf("STLB") /\ lookup.data \in Data
  <2>1. lookup \in Lookups
    BY <1>1 DEF ControlOK
  <2>2. lookup # NoLookup
    BY <1>2 DEF NoLookup
  <2> QED
    BY <1>2, <2>1, <2>2 DEF Lookups
<1>6. PICK u \in Upper, page \in Pages, data \in Data :
        u = Above(packet) /\ page = packet.page /\ data = lookup.data
  BY <1>3, <1>4, <1>5, PacketFacts
<1> HIDE DEF packet, q
<1>7. Ranked(lru')
  BY <1>1, <1>2, <1>3, <1>5, PromoteRanked
<1>8. InFlight(u, page)
  <2>1. InStlb(u, page)
    BY <1>4, <1>6 DEF InStlb, q
  <2> QED
    BY <1>1, <2>1 DEF ReturnExpected
<1>9. PICK s \in Slots(u), entry \in Registers(u) : ReturnsTo(MSHR, u, page, data, s, entry)
  <2>1. u \in TLBs /\ RegistersOK(u, MSHR[u]) /\ ~ \A i \in Slots(u) : MSHR[u][i].page # page
    BY <1>3, <1>8 DEF InFlight
  <2> QED
    BY <1>3, <2>1, ReturnedFacts
<1>10. /\ MSHR[u][s] # Empty /\ MSHR[u][s].page = page
       /\ entry.page = page /\ entry.waiters = MSHR[u][s].waiters /\ entry.returned
       /\ MSHR' = [MSHR EXCEPT ![u] = [MSHR[u] EXCEPT ![s] = entry]]
       /\ RegistersOK(u, [MSHR[u] EXCEPT ![s] = entry])
  BY <1>2, <1>6, <1>9 DEF ReturnsTo
<1>11. /\ MSHR' = [v \in TLBs |-> MSHR'[v]] /\ MSHR'["STLB"] = MSHR["STLB"]
       /\ MSHR'[u] = [MSHR[u] EXCEPT ![s] = entry]
       /\ \A v \in TLBs \ {u} : MSHR'[v] = MSHR[v]
  BY <1>3, <1>10
<1>12. /\ RQ' = [v \in TLBs |-> RQ'[v]] /\ RQ'["STLB"] = Tail(q)
       /\ \A v \in Upper : RQ'[v] = RQ[v]
  BY <1>2, <1>3
<1>13. PacketsOK'
  <2>1. \A v \in TLBs : RegistersOK(v, MSHR'[v])
    BY <1>3, <1>10, <1>11
  <2>2. \A v \in TLBs : QueueOK(v, RQ'[v])
    BY <1>1, <1>4, <1>12 DEF PacketsOK, TLBs, Upper
  <2> QED
    BY <1>1, <1>2, <1>11, <1>12, <2>1, <2>2 DEF PacketsOK
<1>14. /\ ClientsCarried' /\ UpperTags'
       /\ \A v \in Upper, p \in Pages :
            InFlight(v, p)' <=> InFlight(v, p) /\ ~(v = u /\ p = page)
  <2>1. \A v \in Upper : RQ'[v] = RQ[v] /\ block'[v] = block[v]
    BY <1>2, <1>12
  <2>2. UNCHANGED <<client, PROCESSED>> /\ \A v \in Upper \ {u} : MSHR'[v] = MSHR[v]
    BY <1>2, <1>3, <1>11
  <2> QED
    BY <1>1, <1>10, <1>11, <2>1, <2>2, ReturnedUpper
<1>15. ASSUME NEW v \in Upper, NEW p \in Pages
       PROVE  InStlb(v, p)' <=> InStlb(v, p) /\ ~(v = u /\ p = page)
  <2>1. CASE v = u /\ p = page
    <3>1. \A i \in DOMAIN Tail(q) : Tail(q)[i].page # page
      <4>1. \A i \in DOMAIN q : q[i].page = page => i = 1
        BY <1>3, <1>4, <1>6 DEF QueueOK
      <4> QED
        BY <1>4, <4>1
    <3>2. \A i \in Slots("STLB") : ~(MSHR["STLB"][i].page = page /\ Above(MSHR["STLB"][i]) = u)
      BY <1>1, <1>2, <1>4, <1>6 DEF StlbOnce, q
    <3>3. ~InStlb(u, page)'
      BY <1>4, <1>11, <1>12, <3>1, <3>2 DEF InStlb
    <3> QED
      BY <2>1, <3>3
  <2>2. CASE ~(v = u /\ p = page)
    <3>1. (\E i \in DOMAIN q : q[i].page = p /\ Above(q[i]) = v)
          <=> (\E i \in DOMAIN Tail(q) : Tail(q)[i].page = p /\ Above(Tail(q)[i]) = v)
      BY <1>4, <1>6, <2>2
    <3> QED
      BY <1>4, <1>11, <1>12, <2>2, <3>1 DEF InStlb, q
  <2> QED
    BY <2>1, <2>2
<1>16. ReturnExpected' /\ NoOrphanedMiss'
  BY <1>1, <1>14, <1>15 DEF ReturnExpected, NoOrphanedMiss
<1>17. StlbOnce'
  <2>1. lookup.kind # "miss" /\ lookup'.kind # "miss"
    BY <1>2 DEF NoLookup
  <2>2. \A i \in DOMAIN q, j \in Slots("STLB") :
          ~(MSHR["STLB"][j].page = q[i].page /\ Above(MSHR["STLB"][j]) = Above(q[i]))
    BY <1>1, <2>1 DEF StlbOnce, q
  <2>3. \A i \in DOMAIN Tail(q), j \in Slots("STLB") :
          ~(/\ MSHR["STLB"][j].page = Tail(q)[i].page
            /\ Above(MSHR["STLB"][j]) = Above(Tail(q)[i]))
    BY <1>4, <2>2
  <2> QED
    BY <1>11, <1>12, <2>1, <2>3 DEF StlbOnce
<1>18. ControlOK'
  <2>1. reads' \in Nat
    BY <1>1, <1>2 DEF ControlOK
  <2> QED
    BY <1>1, <1>2, <1>3, <2>1 DEF ControlOK, Lookups
<1>19. /\ TableOK(page_table)' /\ BlocksOK(block)' /\ ClientsOK'
  BY <1>1, <1>2 DEF ClientsOK
<1> QED
  BY <1>7, <1>13, <1>14, <1>16, <1>17, <1>18, <1>19 DEF IInv, Types

(***************************************************************************)
(* After the callback of a miss, the request leaves the queue of the STLB: *)
(* it is in a register there.                                              *)
(***************************************************************************)
LEMMA FinishMissStep ==
  ASSUME IInv, FinishMiss
  PROVE  IInv'
<1> DEFINE q == RQ["STLB"]
<1>1. /\ TableOK(page_table) /\ PacketsOK /\ BlocksOK(block) /\ Ranked(lru) /\ ControlOK
      /\ ClientsOK /\ UpperTags /\ ClientsCarried
      /\ StlbOnce /\ ReturnExpected /\ NoOrphanedMiss
  BY DEF IInv, Types
<1>2. /\ phase[1] = "callback" /\ lookup.kind = "miss"
      /\ RQ' = [RQ EXCEPT !["STLB"] = Tail(q)] /\ reads' = reads - 1
      /\ lookup' = NoLookup /\ phase' = <<"read", "STLB">>
      /\ UNCHANGED <<page_table, stall, client, MSHR, PROCESSED, block, lru>>
  BY DEF FinishMiss, ReadDone
<1>3. /\ "STLB" \in TLBs /\ Upper \subseteq TLBs /\ "STLB" \notin Upper
      /\ QueueOK("STLB", q) /\ q # << >>
      /\ RQ = [v \in TLBs |-> RQ[v]] /\ RegistersOK("STLB", MSHR["STLB"])
  BY <1>1, <1>2, Sizes DEF PacketsOK, ControlOK
<1>4. /\ q[1] \in Reads("STLB") /\ QueueOK("STLB", Tail(q))
      /\ 1 \in DOMAIN q /\ DOMAIN q = 1 .. Len(q) /\ Len(q) \in Nat \ {0}
      /\ Len(Tail(q)) = Len(q) - 1 /\ DOMAIN Tail(q) = 1 .. Len(q) - 1
      /\ \A i \in DOMAIN Tail(q) : i + 1 \in DOMAIN q /\ i + 1 # 1 /\ Tail(q)[i] = q[i + 1]
      /\ \A i \in DOMAIN q : i = 1 \/ (i - 1 \in DOMAIN Tail(q) /\ Tail(q)[i - 1] = q[i])
  BY <1>3, QueueTail, TailFacts DEF QueueOK
<1> HIDE DEF q
<1>5. /\ RQ' = [v \in TLBs |-> RQ'[v]] /\ RQ'["STLB"] = Tail(q)
      /\ \A v \in Upper : RQ'[v] = RQ[v]
  BY <1>2, <1>3
<1>6. PacketsOK'
  <2>1. \A v \in TLBs : QueueOK(v, RQ'[v])
    BY <1>1, <1>4, <1>5 DEF PacketsOK, TLBs, Upper
  <2> QED
    BY <1>1, <1>2, <1>5, <2>1 DEF PacketsOK
<1>7. UpperTags' /\ ClientsCarried' /\ TableOK(page_table)' /\ BlocksOK(block)' /\ Ranked(lru)'
      /\ ClientsOK'
  BY <1>1, <1>2, <1>5 DEF UpperTags, ClientsCarried, ClientsOK
<1>8. PICK j \in Slots("STLB") : MSHR["STLB"][j].page = q[1].page
  BY <1>1, <1>2 DEF StlbOnce, q
<1>9. /\ MSHR["STLB"][j] # Empty /\ q[1].page # 0
      /\ Above(MSHR["STLB"][j]) \in Upper /\ Above(q[1]) \in Upper
      /\ q[1].page \in Demanded(Above(MSHR["STLB"][j])) \cap Demanded(Above(q[1]))
  <2>1. q[1].page # 0 /\ Above(q[1]) \in Upper /\ q[1].page \in Demanded(Above(q[1]))
    BY <1>3, <1>4, PacketFacts
  <2>2. MSHR["STLB"][j] # Empty
    BY <1>3, <1>8, <2>1, PacketFacts
  <2>3. MSHR["STLB"][j] \in Registers("STLB")
    BY <1>3, <2>2 DEF RegistersOK
  <2>4. /\ Above(MSHR["STLB"][j]) \in Upper
        /\ MSHR["STLB"][j].page \in Demanded(Above(MSHR["STLB"][j]))
    BY <1>3, <2>3, PacketFacts
  <2> QED
    BY <1>8, <2>1, <2>2, <2>4
<1>10. ASSUME NEW v \in Upper, NEW p \in Pages
       PROVE  /\ InFlight(v, p)' <=> InFlight(v, p)
              /\ InStlb(v, p)' => InStlb(v, p)
              /\ InStlb(v, p) /\ p \notin CodePages \cap DataPages => InStlb(v, p)'
  <2>1. InFlight(v, p)' <=> InFlight(v, p)
    BY <1>2 DEF InFlight
  <2>2. (\E i \in DOMAIN Tail(q) : Tail(q)[i].page = p /\ Above(Tail(q)[i]) = v)
        => \E i \in DOMAIN q : q[i].page = p /\ Above(q[i]) = v
    BY <1>4
  <2>3. InStlb(v, p)' => InStlb(v, p)
    BY <1>2, <1>4, <1>5, <2>2 DEF InStlb, q
  <2>4. (\E i \in DOMAIN q : q[i].page = p /\ Above(q[i]) = v)
        => \/ q[1].page = p /\ Above(q[1]) = v
           \/ \E i \in DOMAIN Tail(q) : Tail(q)[i].page = p /\ Above(Tail(q)[i]) = v
    BY <1>4
  <2>5. q[1].page = p /\ Above(q[1]) = v /\ p \notin CodePages \cap DataPages
        => Above(MSHR["STLB"][j]) = v
    BY <1>9 DEF Demanded, Upper
  <2>6. InStlb(v, p) /\ p \notin CodePages \cap DataPages => InStlb(v, p)'
    <3>1. CASE \E i \in DOMAIN q : q[i].page = p /\ Above(q[i]) = v
      BY <1>2, <1>4, <1>5, <1>8, <1>9, <2>4, <2>5, <3>1 DEF InStlb
    <3>2. CASE ~ \E i \in DOMAIN q : q[i].page = p /\ Above(q[i]) = v
      BY <1>2, <1>4, <3>2 DEF InStlb, q
    <3> QED
      BY <3>1, <3>2
  <2> QED
    BY <2>1, <2>3, <2>6
<1>11. ReturnExpected' /\ NoOrphanedMiss'
  BY <1>1, <1>10 DEF ReturnExpected, NoOrphanedMiss
<1>12. StlbOnce'
  <2>1. lookup'.kind # "miss" /\ MSHR' = MSHR
    BY <1>2 DEF NoLookup
  <2>2. \A i \in DOMAIN q, k \in Slots("STLB") :
          /\ MSHR["STLB"][k].page = q[i].page /\ Above(MSHR["STLB"][k]) = Above(q[i])
          => i = 1
    BY <1>1 DEF StlbOnce, q
  <2>3. \A i \in DOMAIN Tail(q), k \in Slots("STLB") :
          ~(/\ MSHR["STLB"][k].page = Tail(q)[i].page
            /\ Above(MSHR["STLB"][k]) = Above(Tail(q)[i]))
    BY <1>4, <2>2
  <2> QED
    BY <1>5, <2>1, <2>3 DEF StlbOnce
<1>13. ControlOK'
  <2>1. reads' \in Nat
    BY <1>1, <1>2 DEF ControlOK
  <2> QED
    BY <1>1, <1>2, <1>3, <2>1 DEF ControlOK, Lookups
<1> QED
  BY <1>6, <1>7, <1>11, <1>12, <1>13 DEF IInv, Types

(***************************************************************************)
(* update_rob hands the oldest answer of each side to its clients.         *)
(***************************************************************************)
LEMMA CompleteStep ==
  ASSUME IInv, update_rob
  PROVE  IInv'
<1>1. /\ TableOK(page_table) /\ PacketsOK /\ BlocksOK(block) /\ Ranked(lru) /\ ControlOK
      /\ ClientsOK /\ UpperTags /\ ClientsCarried
      /\ StlbOnce /\ ReturnExpected /\ NoOrphanedMiss
  BY DEF IInv, Types
<1>2. /\ phase[1] = "complete" /\ phase' = <<"tick", "ITLB">>
      /\ client' = [c \in Clients |->
           IF c \in Fetchers THEN handle_merged_translation(c, "ITLB")
           ELSE handle_merged_translation(c, "DTLB")]
      /\ PROCESSED' = [t \in Upper |->
           IF PROCESSED[t] = << >> THEN << >> ELSE Tail(PROCESSED[t])]
      /\ UNCHANGED <<page_table, stall, RQ, MSHR, block, lru, reads, lookup>>
  BY DEF update_rob, complete_instr_fetch, complete_data_fetch
<1>3. PROCESSED = [t \in Upper |-> PROCESSED[t]] /\ \A t \in Upper : PROCESSED[t] \in Seq(Answers(t))
  BY <1>1 DEF PacketsOK
<1>4. ASSUME NEW t \in Upper
      PROVE  PROCESSED'[t] \in Seq(Answers(t))
  <2>1. CASE PROCESSED[t] = << >>
    BY <1>2, <2>1
  <2>2. CASE PROCESSED[t] # << >>
    BY <1>2, <1>3, <2>2
  <2> QED
    BY <2>1, <2>2
<1>5. ASSUME NEW t \in Upper, NEW c \in Side(t)
      PROVE  client'[c] = handle_merged_translation(c, t)
  <2>1. CASE t = "ITLB"
    BY <1>2, <2>1 DEF Side, Clients
  <2>2. CASE t = "DTLB"
    <3>1. c \notin Fetchers /\ c \in Clients
      BY <2>2, ClientsFit DEF Side, Clients
    <3> QED
      BY <1>2, <2>2, <3>1
  <2> QED
    BY <2>1, <2>2 DEF Upper
<1>6. ASSUME NEW t \in Upper
      PROVE  Carried(t, client', RQ[t], MSHR[t], PROCESSED'[t])
  <2>1. Carried(t, client, RQ[t], MSHR[t], PROCESSED[t])
    BY <1>1 DEF ClientsCarried
  <2>2. CASE PROCESSED[t] = << >>
    <3>1. \A c \in Side(t) : client'[c] = client[c]
      BY <1>5, <2>2 DEF handle_merged_translation
    <3>2. PROCESSED'[t] = PROCESSED[t]
      BY <1>2, <2>2
    <3> QED
      BY <2>1, <3>1, <3>2, CarriedSame
  <2>3. CASE PROCESSED[t] # << >>
    <3>1. \A c \in Side(t) : IF c \in Head(PROCESSED[t]).waiters
                             THEN client'[c].state # "waiting"
                             ELSE client'[c] = client[c]
      <4>1. ASSUME NEW c \in Side(t), c \in Head(PROCESSED[t]).waiters
            PROVE  client'[c].state = "translated"
        <5>1. client'[c] = [state |-> "translated", page |-> client[c].page,
                            pa |-> Head(PROCESSED[t]).pa]
          BY <1>5, <2>3, <4>1 DEF handle_merged_translation
        <5> QED
          BY <5>1
      <4>2. ASSUME NEW c \in Side(t), c \notin Head(PROCESSED[t]).waiters
            PROVE  client'[c] = client[c]
        BY <1>5, <4>2 DEF handle_merged_translation
      <4> QED
        BY <4>1, <4>2
    <3>2. PROCESSED'[t] = Tail(PROCESSED[t])
      BY <1>2, <2>3
    <3>3. PROCESSED[t] \in Seq(Answers(t))
      BY <1>3
    <3> QED
      BY <2>1, <2>3, <3>1, <3>2, <3>3, CarriedCompleted
  <2> QED
    BY <2>2, <2>3
<1>7. ClientsCarried'
  BY <1>2, <1>6 DEF ClientsCarried
<1>8. PacketsOK'
  BY <1>1, <1>2, <1>4 DEF PacketsOK
<1>9. ClientsOK'
  <2>1. client' = [c \in Clients |-> client'[c]]
    BY <1>2
  <2>2. ASSUME NEW c \in Clients, NEW t \in Upper
        PROVE  handle_merged_translation(c, t).state \in {"idle", "waiting", "translated"}
    BY <1>1 DEF ClientsOK, handle_merged_translation
  <2>3. \A c \in Clients : client'[c].state \in {"idle", "waiting", "translated"}
    BY <1>2, <2>2 DEF Upper
  <2> QED
    BY <2>1, <2>3 DEF ClientsOK
<1>10. UpperTags' /\ TableOK(page_table)' /\ BlocksOK(block)' /\ Ranked(lru)'
  BY <1>1, <1>2 DEF UpperTags
<1>11. ControlOK'
  BY <1>1, <1>2 DEF ControlOK, TLBs
<1>12. StlbOnce' /\ ReturnExpected' /\ NoOrphanedMiss'
  BY <1>1, <1>2, MissesUnchanged
<1> QED
  BY <1>7, <1>8, <1>9, <1>10, <1>11, <1>12 DEF IInv, Types

(***************************************************************************)
(* A cycle brings the reads of a queue nearer and changes nothing else of  *)
(* them.                                                                   *)
(***************************************************************************)
LEMMA LaterQueue ==
  ASSUME NEW t \in TLBs, NEW queue, QueueOK(t, queue), NEW later,
         later = [i \in 1 .. Len(queue) |->
                    [queue[i] EXCEPT !.event = IF @ > 0 THEN @ - 1 ELSE 0]]
  PROVE  /\ QueueOK(t, later) /\ Len(later) = Len(queue) /\ DOMAIN later = DOMAIN queue
         /\ DOMAIN queue = 1 .. Len(queue)
         /\ \A i \in DOMAIN queue : /\ later[i].page = queue[i].page
                                    /\ later[i].waiters = queue[i].waiters
                                    /\ Above(later[i]) = Above(queue[i])
<1>1. queue \in Seq(Reads(t)) /\ DOMAIN queue = 1 .. Len(queue) /\ Len(queue) \in Nat
  BY DEF QueueOK
<1>2. DOMAIN later = 1 .. Len(queue)
  OBVIOUS
<1>3. ASSUME NEW i \in DOMAIN queue
      PROVE  /\ later[i] \in Reads(t)
             /\ later[i].page = queue[i].page /\ later[i].waiters = queue[i].waiters
             /\ Above(later[i]) = Above(queue[i])
  <2>1. queue[i] \in Reads(t)
    BY <1>1
  <2>2. LATENCY[t] \in Nat
    BY Sizes
  <2>3. queue[i] \in Packets(t) /\ Own(t, queue[i])
    BY <2>1 DEF Reads
  <2>4. PICK event \in 0 .. LATENCY[t] : later[i] = [queue[i] EXCEPT !.event = event]
    <3> DEFINE event == IF queue[i].event > 0 THEN queue[i].event - 1 ELSE 0
    <3>1. queue[i].event \in 0 .. LATENCY[t]
      BY <2>3 DEF Packets
    <3>2. event \in 0 .. LATENCY[t]
      BY <2>2, <3>1
    <3>3. later[i] = [queue[i] EXCEPT !.event = event]
      BY <1>1
    <3> QED
      BY <3>2, <3>3
  <2>5. /\ later[i] \in Packets(t) /\ later[i].page = queue[i].page
        /\ later[i].waiters = queue[i].waiters /\ later[i].instruction = queue[i].instruction
    <3>1. PICK old \in Packets(t) : old = queue[i]
      BY <2>3
    <3>2. later[i] = [old EXCEPT !.event = event]
      BY <2>4, <3>1
    <3> QED
      BY <3>1, <3>2, SMTT(40) DEF Packets
  <2>6. Above(later[i]) = Above(queue[i])
    BY <2>5 DEF Above
  <2> QED
    BY <2>3, <2>5, <2>6 DEF Reads, Own
<1>4. later \in Seq(Reads(t)) /\ Len(later) = Len(queue)
  <2>1. later \in [1 .. Len(queue) -> Reads(t)]
    BY <1>1, <1>2, <1>3
  <2> QED
    BY <1>1, <2>1
<1> QED
  BY <1>1, <1>2, <1>3, <1>4 DEF QueueOK

(***************************************************************************)
(* A cycle moves the due times of the completed misses and changes nothing *)
(* else of the registers.                                                  *)
(***************************************************************************)
LEMMA LaterRegisters ==
  ASSUME NEW t \in TLBs, RegistersOK(t, MSHR[t]), NEW later,
         later = [i \in Slots(t) |->
                    IF i \in Completed(t)
                    THEN [MSHR[t][i] EXCEPT !.event = Later(t, i)]
                    ELSE MSHR[t][i]]
  PROVE  /\ RegistersOK(t, later)
         /\ \A i \in Slots(t) : /\ later[i] = Empty <=> MSHR[t][i] = Empty
                                /\ later[i].page = MSHR[t][i].page
                                /\ Above(later[i]) = Above(MSHR[t][i])
                                /\ later[i].returned = MSHR[t][i].returned
                                /\ later[i].waiters = MSHR[t][i].waiters
                                /\ later[i].data = MSHR[t][i].data
<1>1. MSHR[t] \in [Slots(t) -> {Empty} \cup Registers(t)]
  BY DEF RegistersOK
<1>2. ASSUME NEW i \in Completed(t)
      PROVE  Later(t, i) \in Int
  <2> DEFINE f == [j \in Completed(t) |-> MSHR[t][j].event]
             past == {MSHR[t][j].event : j \in Completed(t)}
             newer == {e \in past : MSHR[t][i].event < e /\ e <= 0}
  <2>1. MSHR[t][i] \in Registers(t)
    BY <1>1 DEF Completed
  <2>2. MSHR[t][i].event \in Int
    BY <2>1, PacketFacts
  <2>3. IsFiniteSet(Completed(t))
    <3>1. IsFiniteSet(Slots(t))
      BY Sizes, Count DEF Slots
    <3>2. Completed(t) \in SUBSET Slots(t)
      BY DEF Completed
    <3> QED
      BY <3>1, <3>2, FS_Subset
  <2>4. IsFiniteSet(past)
    <3>1. past = {f[j] : j \in Completed(t)}
      OBVIOUS
    <3>2. f \in Surjection(Completed(t), past)
      BY <3>1 DEF Surjection
    <3> HIDE DEF f, past
    <3> QED
      BY <2>3, <3>2, FS_Surjection
  <2>5. IsFiniteSet(newer)
    <3>1. newer \in SUBSET past
      OBVIOUS
    <3> HIDE DEF newer, past
    <3> QED
      BY <2>4, <3>1, FS_Subset
  <2>6. Cardinality(newer) \in Nat
    <3> HIDE DEF newer
    <3> QED
      BY <2>5, FS_CardinalityType
  <2>7. Later(t, i) = IF MSHR[t][i].event > 0 THEN MSHR[t][i].event - 1
                      ELSE -1 - Cardinality(newer)
    BY DEF Later
  <2> HIDE DEF newer
  <2> QED
    BY <2>2, <2>6, <2>7
<1>3. ASSUME NEW i \in Slots(t)
      PROVE  /\ later[i] \in {Empty} \cup Registers(t)
             /\ later[i] = Empty <=> MSHR[t][i] = Empty
             /\ later[i].page = MSHR[t][i].page
             /\ Above(later[i]) = Above(MSHR[t][i])
             /\ later[i].returned = MSHR[t][i].returned
             /\ later[i].waiters = MSHR[t][i].waiters
             /\ later[i].data = MSHR[t][i].data
  <2>1. CASE i \in Completed(t)
    <3>1. MSHR[t][i] \in Registers(t) /\ MSHR[t][i] # Empty
      BY <1>1, <2>1 DEF Completed
    <3>2. PICK event \in Int : later[i] = [MSHR[t][i] EXCEPT !.event = event]
      BY <1>2, <2>1
    <3>3. /\ later[i].page = MSHR[t][i].page /\ later[i].waiters = MSHR[t][i].waiters
          /\ later[i].instruction = MSHR[t][i].instruction
          /\ later[i].returned = MSHR[t][i].returned /\ later[i].data = MSHR[t][i].data
      BY <3>1, <3>2 DEF Registers
    <3>4. Above(later[i]) = Above(MSHR[t][i])
      BY <3>3 DEF Above
    <3>5. later[i] \in Registers(t)
      <4>1. Own(t, later[i])
        BY <3>1, <3>3, <3>4 DEF Registers, Own
      <4> QED
        BY <3>1, <3>2, <4>1 DEF Registers
    <3> QED
      BY <3>1, <3>3, <3>4, <3>5, PacketFacts
  <2>2. CASE i \notin Completed(t)
    BY <1>1, <2>2
  <2> QED
    BY <2>1, <2>2
<1>4. RegistersOK(t, later)
  <2>1. later \in [Slots(t) -> {Empty} \cup Registers(t)]
    BY <1>3
  <2> QED
    BY <1>3, <2>1, ZenonT(60) DEF RegistersOK
<1> QED
  BY <1>3, <1>4

(***************************************************************************)
(* A cycle passes.                                                         *)
(***************************************************************************)
LEMMA TickStep ==
  ASSUME IInv, Tick
  PROVE  IInv'
<1>1. /\ TableOK(page_table) /\ PacketsOK /\ BlocksOK(block) /\ Ranked(lru) /\ ControlOK
      /\ ClientsOK /\ UpperTags /\ ClientsCarried
      /\ StlbOnce /\ ReturnExpected /\ NoOrphanedMiss
  BY DEF IInv, Types
<1>2. /\ phase[1] = "tick" /\ phase' \in {<<"issue", "ITLB">>, phase}
      /\ stall' = IF stall > 0 THEN stall - 1 ELSE 0
      /\ RQ' = [t \in TLBs |->
           [i \in 1 .. Len(RQ[t]) |->
              [RQ[t][i] EXCEPT !.event = IF @ > 0 THEN @ - 1 ELSE 0]]]
      /\ MSHR' = [t \in TLBs |->
           [i \in Slots(t) |->
              IF i \in Completed(t)
              THEN [MSHR[t][i] EXCEPT !.event = Later(t, i)]
              ELSE MSHR[t][i]]]
      /\ UNCHANGED <<page_table, client, PROCESSED, block, lru, reads, lookup>>
  BY DEF Tick
<1>3. ASSUME NEW t \in TLBs
      PROVE  /\ QueueOK(t, RQ'[t]) /\ Len(RQ'[t]) = Len(RQ[t]) /\ DOMAIN RQ'[t] = DOMAIN RQ[t]
             /\ DOMAIN RQ[t] = 1 .. Len(RQ[t])
             /\ \A i \in DOMAIN RQ[t] : /\ RQ'[t][i].page = RQ[t][i].page
                                        /\ RQ'[t][i].waiters = RQ[t][i].waiters
                                        /\ Above(RQ'[t][i]) = Above(RQ[t][i])
  <2>1. RQ'[t] = [i \in 1 .. Len(RQ[t]) |->
                    [RQ[t][i] EXCEPT !.event = IF @ > 0 THEN @ - 1 ELSE 0]]
    BY <1>2
  <2>2. QueueOK(t, RQ[t])
    BY <1>1 DEF PacketsOK
  <2> QED
    BY <2>1, <2>2, LaterQueue, SMTT(40)
<1>4. ASSUME NEW t \in TLBs
      PROVE  /\ RegistersOK(t, MSHR'[t])
             /\ \A i \in Slots(t) : /\ MSHR'[t][i] = Empty <=> MSHR[t][i] = Empty
                                    /\ MSHR'[t][i].page = MSHR[t][i].page
                                    /\ Above(MSHR'[t][i]) = Above(MSHR[t][i])
                                    /\ MSHR'[t][i].returned = MSHR[t][i].returned
                                    /\ MSHR'[t][i].waiters = MSHR[t][i].waiters
  <2>1. MSHR'[t] = [i \in Slots(t) |->
                      IF i \in Completed(t)
                      THEN [MSHR[t][i] EXCEPT !.event = Later(t, i)]
                      ELSE MSHR[t][i]]
    BY <1>2
  <2>2. RegistersOK(t, MSHR[t])
    BY <1>1 DEF PacketsOK
  <2> QED
    BY <2>1, <2>2, LaterRegisters
<1>5. RQ' = [t \in TLBs |-> RQ'[t]] /\ MSHR' = [t \in TLBs |-> MSHR'[t]]
  BY <1>2
<1>6. PacketsOK'
  BY <1>1, <1>2, <1>3, <1>4, <1>5 DEF PacketsOK
<1>7. ASSUME NEW t \in Upper
      PROVE  Carried(t, client, RQ'[t], MSHR'[t], PROCESSED[t])
  <2>1. t \in TLBs /\ Carried(t, client, RQ[t], MSHR[t], PROCESSED[t])
    BY <1>1, Sizes DEF ClientsCarried
  <2>2. DOMAIN MSHR'[t] = Slots(t) /\ DOMAIN MSHR[t] = Slots(t)
    BY <1>1, <1>4, <2>1 DEF PacketsOK, RegistersOK
  <2>3. /\ Live(MSHR'[t]) = Live(MSHR[t])
        /\ \A i \in Live(MSHR[t]) : /\ MSHR'[t][i].page = MSHR[t][i].page
                                    /\ MSHR'[t][i].waiters = MSHR[t][i].waiters
    BY <1>4, <2>1, <2>2 DEF Live
  <2>4. /\ DOMAIN RQ'[t] = DOMAIN RQ[t]
        /\ \A i \in DOMAIN RQ[t] : /\ RQ'[t][i].page = RQ[t][i].page
                                   /\ RQ'[t][i].waiters = RQ[t][i].waiters
    BY <1>3, <2>1
  <2>5. \A c \in Side(t) : client[c] = client[c]
    OBVIOUS
  <2> HIDE DEF Live
  <2> QED
    BY <2>1, <2>3, <2>4, <2>5, CarriedSame
<1>8. ClientsCarried'
  BY <1>2, <1>7 DEF ClientsCarried
<1>9. UpperTags'
  <2>1. ASSUME NEW t \in Upper
        PROVE  TagsOK(t, MSHR'[t], block[t])
    BY <1>1, <1>4, Sizes DEF UpperTags, TagsOK
  <2> QED
    BY <1>2, <2>1 DEF UpperTags
<1>10. ControlOK'
  <2>1. stall' \in Nat
    BY <1>1, <1>2 DEF ControlOK
  <2>2. /\ phase'[1] # "callback" /\ phase[1] # "callback"
        /\ phase' \in {"issue", "fill", "read", "callback", "complete", "tick"} \X TLBs
    BY <1>1, <1>2 DEF ControlOK, TLBs
  <2> QED
    BY <1>1, <1>2, <2>1, <2>2 DEF ControlOK
<1>11. TableOK(page_table)' /\ BlocksOK(block)' /\ Ranked(lru)' /\ ClientsOK'
  BY <1>1, <1>2 DEF ClientsOK
<1>12. StlbOnce' /\ ReturnExpected' /\ NoOrphanedMiss'
  <2>1. lookup.kind # "miss" /\ lookup'.kind = lookup.kind
    BY <1>1, <1>2 DEF ControlOK, NoLookup
  <2> QED
    BY <1>1, <1>3, <1>4, <2>1, Sizes, MissesSame
<1> QED
  BY <1>6, <1>8, <1>9, <1>10, <1>11, <1>12 DEF IInv, Types

-----------------------------------------------------------------------------
(***************************************************************************)
(* Every step of the hierarchy keeps the invariant.                        *)
(***************************************************************************)
LEMMA StepInvariant == IInv /\ [Next]_vars => IInv'
<1> SUFFICES ASSUME IInv, [Next]_vars PROVE IInv'
  OBVIOUS
<1>1. ASSUME fetch_instruction PROVE IInv'
  <2>1. PICK c \in Fetchers, page \in CodePages : Request(c, "ITLB", "LOAD", page)
    BY <1>1 DEF fetch_instruction
  <2>2. "ITLB" \in Upper /\ c \in Side("ITLB") /\ page \in Demanded("ITLB")
    BY DEF Upper, Side, Demanded
  <2> QED
    BY <2>1, <2>2, RequestStep
<1>2. ASSUME operate_lsq PROVE IInv'
  <2>1. PICK page \in DataPages, type \in {"LOAD", "RFO"}, c \in Loads \cup Stores :
          Request(c, "DTLB", type, page)
    BY <1>2 DEF operate_lsq
  <2>2. "DTLB" \in Upper /\ c \in Side("DTLB") /\ page \in Demanded("DTLB")
    BY DEF Upper, Side, Demanded
  <2> QED
    BY <2>1, <2>2, RequestStep
<1>3. ASSUME NEW t \in TLBs, handle_fill(t) PROVE IInv'
  <2>1. CASE t \in Upper
    BY <1>3, <2>1, FillUpperStep
  <2>2. CASE t = "STLB"
    BY <1>3, <2>2, FillStlbStep
  <2> QED
    BY <2>1, <2>2 DEF TLBs, Upper
<1>4. ASSUME NEW t \in Upper, ReadHit(t) \/ ReadMiss(t) \/ ReadMerged(t) PROVE IInv'
  BY <1>4, ReadHitStep, ReadMissStep, ReadMergedStep
<1>5. ASSUME StlbHit \/ StlbMiss \/ FinishHit \/ FinishMiss PROVE IInv'
  BY <1>5, StlbHitStep, StlbMissStep, FinishHitStep, FinishMissStep
<1>6. ASSUME NEW page \in Pages, PrefetchFill(page) PROVE IInv'
  BY <1>6, PrefetchFillStep
<1>7. ASSUME update_rob \/ Tick PROVE IInv'
  BY <1>7, CompleteStep, TickStep
<1>8. ASSUME EndIssue \/ (\E t \in TLBs : NoFill(t) \/ NoRead(t)) \/ UNCHANGED vars
      PROVE  IInv'
  BY <1>8, IdleStep
<1> QED
  BY <1>1, <1>2, <1>3, <1>4, <1>5, <1>6, <1>7, <1>8 DEF Next

(***************************************************************************)
(* The inductive invariant of the hierarchy holds in every reachable       *)
(* state: types, tags, clients, and the match of misses and requests.      *)
(***************************************************************************)
THEOREM TlbInvariant == Spec => []IInv
<1>1. Init => IInv
  BY InitInvariant
<1>2. IInv /\ [Next]_vars => IInv'
  BY StepInvariant
<1> QED
  BY <1>1, <1>2, PTL DEF Spec

(***************************************************************************)
(* Types: in particular the queues stay within their sizes, and the lru    *)
(* counters of every set stay a ranking, so that lru_victim finds a way.   *)
(***************************************************************************)
THEOREM TlbTypeOK == Spec => []TypeOK
<1>1. IInv => TypeOK
  <2> SUFFICES ASSUME IInv PROVE TypeOK
    OBVIOUS
  <2>1. TableOK(page_table) /\ PacketsOK /\ BlocksOK(block) /\ Ranked(lru) /\ ControlOK /\ ClientsOK
    BY DEF IInv, Types
  <2>2. ASSUME NEW t \in TLBs
        PROVE  /\ Len(RQ[t]) <= RQ_SIZE[t]
               /\ \A i \in 1 .. Len(RQ[t]) : RQ[t][i] \in Packets(t)
               /\ \A i \in Slots(t) : MSHR[t][i] = Empty
                                      \/ MSHR[t][i].page \in CodePages \cup DataPages
               /\ \A set \in Sets(t), way \in WaysOf(t) :
                    block[t][set][way] = NoBlock \/ block[t][set][way].tag \in Pages
               /\ \A set \in Sets(t) : IsRanking(NUM_WAY[t], lru[t][set])
    <3>1. QueueOK(t, RQ[t]) /\ RegistersOK(t, MSHR[t])
      BY <2>1 DEF PacketsOK
    <3>2. \A i \in 1 .. Len(RQ[t]) : RQ[t][i] \in Packets(t)
      BY <3>1 DEF QueueOK, Reads
    <3>3. \A i \in Slots(t) : MSHR[t][i] = Empty \/ MSHR[t][i].page \in CodePages \cup DataPages
      BY <3>1, PacketFacts DEF RegistersOK
    <3>4. block[t] \in [Sets(t) -> [WaysOf(t) -> Blocks]]
      BY <2>1 DEF BlocksOK
    <3>5. \A set \in Sets(t), way \in WaysOf(t) :
            block[t][set][way] = NoBlock \/ block[t][set][way].tag \in Pages
      BY <3>4 DEF Blocks
    <3> QED
      BY <2>1, <3>1, <3>2, <3>3, <3>5 DEF QueueOK, Ranked
  <2> QED
    BY <2>1, <2>2 DEF TypeOK, TableOK, ClientsOK, ControlOK
<1> QED
  BY <1>1, TlbInvariant, PTL

(***************************************************************************)
(* The valid blocks of a set of the ITLB or DTLB are of different pages,   *)
(* so that invalidate_entry, which stops at the first match, drops all     *)
(* blocks of the page.                                                     *)
(***************************************************************************)
THEOREM TlbUpperTagsUnique == Spec => []UpperTagsUnique
<1>1. IInv => UpperTagsUnique
  BY DEF IInv, UpperTags, TagsOK, UpperTagsUnique
<1> QED
  BY <1>1, TlbInvariant, PTL

(***************************************************************************)
(* What the STLB has to answer, return_data finds the register of, and no  *)
(* miss of an upper TLB waits for an answer the STLB does not owe.         *)
(***************************************************************************)
THEOREM TlbMissesAnswered == Spec => []EveryMissAnsweredOnce
<1>1. IInv => EveryMissAnsweredOnce
  BY DEF IInv, EveryMissAnsweredOnce
<1> QED
  BY <1>1, TlbInvariant, PTL

(***************************************************************************)
(* A client that waits is carried by exactly one packet.                   *)
(***************************************************************************)
LEMMA OneCarrier ==
  ASSUME IInv, NEW t \in Upper, NEW c \in Side(t), client[c].state = "waiting"
  PROVE  \E carrier : Carriers(t, c) = {carrier}
<1>1. Placed(c, client[c], RQ[t], MSHR[t], PROCESSED[t])
  BY DEF IInv, ClientsCarried, Carried
<1>2. /\ DOMAIN RQ[t] = 1 .. Len(RQ[t]) /\ DOMAIN PROCESSED[t] = 1 .. Len(PROCESSED[t])
      /\ DOMAIN MSHR[t] = Slots(t)
  BY Sizes DEF IInv, Types, PacketsOK, QueueOK, RegistersOK
<1> DEFINE Q == {j \in 1 .. Len(RQ[t]) :
                   c \in RQ[t][j].waiters /\ RQ[t][j].page = client[c].page}
           M == {j \in Slots(t) : /\ MSHR[t][j] # Empty /\ c \in MSHR[t][j].waiters
                                  /\ MSHR[t][j].page = client[c].page}
           P == {j \in 1 .. Len(PROCESSED[t]) :
                   /\ c \in PROCESSED[t][j].waiters
                   /\ PROCESSED[t][j].page = client[c].page}
<1>3. \/ (\E i : Q = {i}) /\ M = {} /\ P = {}
      \/ Q = {} /\ (\E i : M = {i}) /\ P = {}
      \/ Q = {} /\ M = {} /\ \E i : P = {i}
  <2>1. CASE \E i \in DOMAIN RQ[t] : c \in RQ[t][i].waiters
    <3>1. PICK i \in DOMAIN RQ[t] : c \in RQ[t][i].waiters
      BY <2>1
    <3>2. Q = {i} /\ M = {} /\ P = {}
      BY <1>1, <1>2, <3>1 DEF Placed, Live
    <3> QED
      BY <3>2
  <2>2. CASE \E i \in Live(MSHR[t]) : c \in MSHR[t][i].waiters
    <3>1. PICK i \in Live(MSHR[t]) : c \in MSHR[t][i].waiters
      BY <2>2
    <3>2. Q = {} /\ M = {i} /\ P = {}
      BY <1>1, <1>2, <3>1 DEF Placed, Live
    <3> QED
      BY <3>2
  <2>3. CASE \E i \in DOMAIN PROCESSED[t] : c \in PROCESSED[t][i].waiters
    <3>1. PICK i \in DOMAIN PROCESSED[t] : c \in PROCESSED[t][i].waiters
      BY <2>3
    <3>2. Q = {} /\ M = {} /\ P = {i}
      BY <1>1, <1>2, <3>1 DEF Placed, Live
    <3> QED
      BY <3>2
  <2> QED
    BY <1>1, <2>1, <2>2, <2>3 DEF Placed
<1>4. Carriers(t, c) = {<<"RQ", i>> : i \in Q} \cup {<<"MSHR", i>> : i \in M}
                         \cup {<<"PROCESSED", i>> : i \in P}
  BY DEF Carriers
<1> HIDE DEF Q, M, P
<1>5. ASSUME NEW i, Q = {i}, M = {}, P = {} PROVE Carriers(t, c) = {<<"RQ", i>>}
  BY <1>4, <1>5
<1>6. ASSUME NEW i, Q = {}, M = {i}, P = {} PROVE Carriers(t, c) = {<<"MSHR", i>>}
  BY <1>4, <1>6
<1>7. ASSUME NEW i, Q = {}, M = {}, P = {i} PROVE Carriers(t, c) = {<<"PROCESSED", i>>}
  BY <1>4, <1>7
<1> QED
  BY <1>3, <1>5, <1>6, <1>7

(***************************************************************************)
(* Merging, filling and answering never lose or double a client of a TLB.  *)
(***************************************************************************)
THEOREM TlbConsumersConserved == Spec => []ConsumerConservation
<1>1. IInv => ConsumerConservation
  <2> SUFFICES ASSUME IInv, NEW t \in Upper, NEW c \in Side(t), client[c].state = "waiting"
               PROVE  Cardinality(Carriers(t, c)) = 1
    BY DEF ConsumerConservation
  <2>1. PICK carrier : Carriers(t, c) = {carrier}
    BY OneCarrier
  <2> QED
    BY <2>1, FS_Singleton
<1> QED
  BY <1>1, TlbInvariant, PTL

-----------------------------------------------------------------------------
\* With a frame of memory for every page, nothing is swapped out.
MemoryForAll == IsFiniteSet(Pages) /\ Cardinality(Pages) <= DRAM_PAGES

\* The table gives the page this frame.
Maps(table, page, frame) == page \in DOMAIN table /\ table[page] = frame

\* Whatever holds a translation has the one of the table: blocks, misses that have
\* returned, answers, and what the STLB's handle_read keeps during the callback.
BlocksTrue(blocks, table) ==
  \A t \in TLBs : \A set \in Sets(t), way \in WaysOf(t) :
    blocks[t][set][way] # NoBlock =>
      Maps(table, blocks[t][set][way].tag, blocks[t][set][way].data)
RegistersTrue(mshr, table) ==
  \A t \in TLBs : \A i \in Slots(t) :
    mshr[t][i] # Empty /\ mshr[t][i].returned =>
      Maps(table, mshr[t][i].page, mshr[t][i].data)
AnswersTrue(processed, table) ==
  \A t \in Upper : \A i \in DOMAIN processed[t] :
    Maps(table, processed[t][i].page, processed[t][i].pa)
LookupTrue == lookup.kind = "hit" => Maps(page_table, RQ["STLB"][1].page, lookup.data)

AllTrue ==
  /\ BlocksTrue(block, page_table) /\ RegistersTrue(MSHR, page_table)
  /\ AnswersTrue(PROCESSED, page_table) /\ LookupTrue

(***************************************************************************)
(* While there is memory for all, a walk adds its page to the table and    *)
(* takes nothing away, from it or from the TLBs.                           *)
(***************************************************************************)
LEMMA WalkGrows ==
  ASSUME MemoryForAll, TableOK(page_table), NEW page \in Pages,
         NEW after \in Walks(page_table, page)
  PROVE  /\ \A p, frame : Maps(page_table, p, frame) => Maps(after, p, frame)
         /\ Maps(after, page, after[page]) /\ BlocksAfterWalk(page) = block
<1>1. page \notin DOMAIN page_table => ~Full(page_table)
  <2> SUFFICES ASSUME page \notin DOMAIN page_table PROVE ~Full(page_table)
    OBVIOUS
  <2>1. DOMAIN page_table \in SUBSET Pages /\ DOMAIN page_table # Pages
    BY DEF TableOK
  <2>2. /\ Cardinality(DOMAIN page_table) <= Cardinality(Pages)
        /\ Cardinality(DOMAIN page_table) # Cardinality(Pages)
    BY <2>1, FS_Subset DEF MemoryForAll
  <2>3. Cardinality(DOMAIN page_table) \in Nat /\ Cardinality(Pages) \in Nat
    BY FS_CardinalityType DEF MemoryForAll, TableOK
  <2> QED
    BY <2>2, <2>3, DramAssumption DEF MemoryForAll, Full
<1>2. page \in DOMAIN after
  BY WalkFacts
<1>3. BlocksAfterWalk(page) = block
  BY <1>1 DEF BlocksAfterWalk
<1>4. CASE page \in DOMAIN page_table
  <2>1. after = page_table
    BY <1>4 DEF Walks
  <2> QED
    BY <1>2, <1>3, <2>1 DEF Maps
<1>5. CASE page \notin DOMAIN page_table
  <2>1. PICK frame : after = Mapped(page_table, page, frame)
    BY <1>1, <1>5 DEF Walks
  <2>2. \A p \in DOMAIN page_table : p \in DOMAIN after /\ after[p] = page_table[p]
    BY <1>5, <2>1 DEF Mapped
  <2> QED
    BY <1>2, <1>3, <2>2 DEF Maps
<1> QED
  BY <1>4, <1>5

(***************************************************************************)
(* A fill with the frame of the table keeps the blocks true.               *)
(***************************************************************************)
LEMMA FillTrue ==
  ASSUME NEW blocks, BlocksOK(blocks), NEW table, BlocksTrue(blocks, table),
         NEW t \in TLBs, NEW page \in Pages, NEW way \in WaysOf(t), NEW data \in Data,
         Maps(table, page, data), NEW new, new = fill_cache(blocks, t, page, way, data)
  PROVE  BlocksTrue(new, table)
<1>1. /\ BlocksOK(new) /\ \A u \in TLBs \ {t} : new[u] = blocks[u]
      /\ new[t][get_set(t, page)][way] = [tag |-> page, data |-> data]
      /\ \A s \in Sets(t), w \in WaysOf(t) :
           s # get_set(t, page) \/ w # way => new[t][s][w] = blocks[t][s][w]
  BY FillFacts
<1>2. ASSUME NEW u \in TLBs, NEW set \in Sets(u), NEW w \in WaysOf(u),
             new[u][set][w] # NoBlock
      PROVE  Maps(table, new[u][set][w].tag, new[u][set][w].data)
  <2>1. CASE new[u][set][w] = blocks[u][set][w]
    BY <1>2, <2>1 DEF BlocksTrue
  <2>2. CASE u = t /\ set = get_set(t, page) /\ w = way
    BY <1>1, <2>2
  <2> QED
    BY <1>1, <2>1, <2>2
<1> QED
  BY <1>2 DEF BlocksTrue

(***************************************************************************)
(* So does return_data the registers.                                      *)
(***************************************************************************)
LEMMA ReturnedTrue ==
  ASSUME NEW mshr, mshr = [u \in TLBs |-> mshr[u]], NEW table, RegistersTrue(mshr, table),
         NEW t \in TLBs, RegistersOK(t, mshr[t]), NEW page \in Pages, NEW data \in Data,
         Maps(table, page, data)
  PROVE  RegistersTrue(Returned(mshr, t, page, data), table)
<1>1. CASE Returned(mshr, t, page, data) = mshr
  BY <1>1
<1>2. CASE \E slot \in Slots(t), entry \in Registers(t) :
             ReturnsTo(mshr, t, page, data, slot, entry)
  <2>1. PICK slot \in Slots(t), entry \in Registers(t) :
          ReturnsTo(mshr, t, page, data, slot, entry)
    BY <1>2
  <2> DEFINE after == [mshr[t] EXCEPT ![slot] = entry]
             new == [mshr EXCEPT ![t] = after]
  <2>2. /\ Returned(mshr, t, page, data) = new /\ entry.page = page /\ entry.data = data
    BY <2>1 DEF ReturnsTo
  <2>3. DOMAIN mshr[t] = Slots(t)
    BY DEF RegistersOK
  <2>4. after[slot] = entry /\ \A i \in Slots(t) \ {slot} : after[i] = mshr[t][i]
    BY <2>3
  <2> HIDE DEF after
  <2>5. new[t] = after /\ \A u \in TLBs \ {t} : new[u] = mshr[u]
    OBVIOUS
  <2> HIDE DEF new
  <2>6. RegistersTrue(new, table)
    BY <2>2, <2>4, <2>5 DEF RegistersTrue
  <2> QED
    BY <2>2, <2>6
<1> QED
  BY <1>1, <1>2, ReturnedFacts

(***************************************************************************)
(* And an answer the queues of answers.                                    *)
(***************************************************************************)
LEMMA AnsweredTrue ==
  ASSUME PacketsOK, NEW table, AnswersTrue(PROCESSED, table), NEW t \in Upper,
         NEW packet, NEW data, Maps(table, packet.page, data)
  PROVE  AnswersTrue(Answered(t, packet, data), table)
<1> DEFINE answer == [page |-> packet.page, pa |-> data, waiters |-> packet.waiters]
           new == [PROCESSED EXCEPT ![t] = Append(PROCESSED[t], answer)]
<1>1. CASE Answered(t, packet, data) = PROCESSED
  BY <1>1
<1>2. CASE Answered(t, packet, data) = new
  <2>1. PROCESSED[t] \in Seq(Answers(t)) /\ PROCESSED = [u \in Upper |-> PROCESSED[u]]
    BY DEF PacketsOK
  <2>2. answer.page = packet.page /\ answer.pa = data
    OBVIOUS
  <2> HIDE DEF answer
  <2>3. \A i \in DOMAIN Append(PROCESSED[t], answer) :
          \/ Append(PROCESSED[t], answer)[i] = answer
          \/ i \in DOMAIN PROCESSED[t] /\ Append(PROCESSED[t], answer)[i] = PROCESSED[t][i]
    <3>1. PROCESSED[t] \in Seq(Answers(t) \cup {answer})
      BY <2>1
    <3> HIDE DEF new
    <3> QED
      BY <3>1, AppendFacts
  <2>4. \A i \in DOMAIN Append(PROCESSED[t], answer) :
          Maps(table, Append(PROCESSED[t], answer)[i].page, Append(PROCESSED[t], answer)[i].pa)
    BY <2>2, <2>3 DEF AnswersTrue
  <2>5. new[t] = Append(PROCESSED[t], answer) /\ \A u \in Upper \ {t} : new[u] = PROCESSED[u]
    BY <2>1
  <2> HIDE DEF new
  <2>6. AnswersTrue(new, table)
    BY <2>4, <2>5 DEF AnswersTrue
  <2> QED
    BY <1>2, <2>6
<1> QED
  BY <1>1, <1>2 DEF Answered

(***************************************************************************)
(* What holds stays true while the table grows.                            *)
(***************************************************************************)
LEMMA GrowthTrue ==
  ASSUME AllTrue, NEW after, \A p, frame : Maps(page_table, p, frame) => Maps(after, p, frame)
  PROVE  /\ BlocksTrue(block, after) /\ RegistersTrue(MSHR, after)
         /\ AnswersTrue(PROCESSED, after)
         /\ lookup.kind = "hit" => Maps(after, RQ["STLB"][1].page, lookup.data)
BY DEF AllTrue, BlocksTrue, RegistersTrue, AnswersTrue, LookupTrue

(***************************************************************************)
(* A miss that takes a register has not returned.                          *)
(***************************************************************************)
LEMMA AllocatedTrue ==
  ASSUME PacketsOK, NEW t \in TLBs, Occupancy(t) < MSHR_SIZE[t],
         NEW packet, packet \in Reads(t), \A i \in Slots(t) : MSHR[t][i].page # packet.page,
         NEW table, RegistersTrue(MSHR, table)
  PROVE  /\ RegistersTrue(Allocated(t, packet), table)
         /\ Allocated(t, packet) = [u \in TLBs |-> Allocated(t, packet)[u]]
         /\ RegistersOK(t, Allocated(t, packet)[t])
<1>1. MSHR = [u \in TLBs |-> MSHR[u]] /\ RegistersOK(t, MSHR[t])
  BY DEF PacketsOK
<1>2. PICK slot \in Slots(t), entry \in Registers(t) :
        /\ MSHR[t][slot] = Empty
        /\ entry.page = packet.page /\ entry.waiters = packet.waiters
        /\ Above(entry) = Above(packet) /\ ~entry.returned
        /\ Allocated(t, packet) = [MSHR EXCEPT ![t] = [MSHR[t] EXCEPT ![slot] = entry]]
        /\ RegistersOK(t, [MSHR[t] EXCEPT ![slot] = entry])
  BY <1>1, AllocatedFacts
<1> DEFINE taken == [MSHR[t] EXCEPT ![slot] = entry]
           new == [MSHR EXCEPT ![t] = taken]
<1>3. DOMAIN MSHR[t] = Slots(t)
  BY <1>1 DEF RegistersOK
<1>4. taken[slot] = entry /\ \A i \in Slots(t) \ {slot} : taken[i] = MSHR[t][i]
  BY <1>3
<1>5. Allocated(t, packet) = new /\ RegistersOK(t, taken) /\ ~entry.returned
  BY <1>2
<1> HIDE DEF taken
<1>6. /\ new = [u \in TLBs |-> new[u]] /\ new[t] = taken
      /\ \A u \in TLBs \ {t} : new[u] = MSHR[u]
  BY <1>1
<1> HIDE DEF new
<1>7. RegistersTrue(new, table)
  BY <1>4, <1>5, <1>6 DEF RegistersTrue
<1> QED
  BY <1>5, <1>6, <1>7

(***************************************************************************)
(* Steps that make no block, answer or frame and leave what has returned   *)
(* keep everything true.                                                   *)
(***************************************************************************)
LEMMA QuietTrue ==
  ASSUME AllTrue, UNCHANGED <<page_table, block, PROCESSED>>,
         RegistersTrue(MSHR', page_table), lookup'.kind # "hit"
  PROVE  AllTrue'
BY DEF AllTrue, LookupTrue

(***************************************************************************)
(* Such are requests, misses, merges, the passing of time.                 *)
(***************************************************************************)
LEMMA QuietSteps ==
  ASSUME IInv, AllTrue,
         \/ EndIssue \/ Tick \/ FinishMiss
         \/ \E t \in TLBs : NoFill(t) \/ NoRead(t)
         \/ \E t \in Upper : ReadMiss(t) \/ ReadMerged(t)
         \/ \E c, t, type, page : Request(c, t, type, page)
  PROVE  AllTrue'
<1>1. PacketsOK /\ ControlOK /\ RegistersTrue(MSHR, page_table)
  BY DEF IInv, Types, AllTrue
<1>2. NoLookup.kind # "hit"
  BY DEF NoLookup
<1>3. CASE \/ EndIssue \/ (\E t \in TLBs : NoFill(t) \/ NoRead(t))
           \/ \E c, t, type, page : Request(c, t, type, page)
  <2>1. /\ UNCHANGED <<page_table, block, PROCESSED, MSHR, lookup>> /\ phase[1] # "callback"
    <3>1. \A t \in TLBs : phase = <<"fill", t>> \/ phase = <<"read", t>> => phase[1] # "callback"
      OBVIOUS
    <3> QED
      BY <1>3, <3>1 DEF EndIssue, NoFill, NoRead, Request
  <2>2. lookup'.kind # "hit"
    BY <1>1, <1>2, <2>1 DEF ControlOK
  <2> QED
    BY <1>1, <2>1, <2>2, QuietTrue
<1>4. CASE FinishMiss
  <2>1. UNCHANGED <<page_table, block, PROCESSED, MSHR>> /\ lookup' = NoLookup
    BY <1>4 DEF FinishMiss
  <2> QED
    BY <1>1, <1>2, <2>1, QuietTrue
<1>5. CASE Tick
  <2>1. UNCHANGED <<page_table, block, PROCESSED, lookup>> /\ phase[1] # "callback"
    BY <1>5 DEF Tick
  <2>2. lookup'.kind # "hit"
    BY <1>1, <1>2, <2>1 DEF ControlOK
  <2>3. ASSUME NEW t \in TLBs, NEW i \in Slots(t)
        PROVE  /\ MSHR'[t][i] = Empty <=> MSHR[t][i] = Empty
               /\ MSHR'[t][i].page = MSHR[t][i].page
               /\ MSHR'[t][i].returned = MSHR[t][i].returned
               /\ MSHR'[t][i].data = MSHR[t][i].data
    <3>1. MSHR'[t] = [j \in Slots(t) |->
                        IF j \in Completed(t)
                        THEN [MSHR[t][j] EXCEPT !.event = Later(t, j)]
                        ELSE MSHR[t][j]]
      BY <1>5 DEF Tick
    <3>2. RegistersOK(t, MSHR[t])
      BY <1>1 DEF PacketsOK
    <3> QED
      BY <3>1, <3>2, LaterRegisters
  <2>4. RegistersTrue(MSHR', page_table)
    BY <1>1, <2>3 DEF RegistersTrue
  <2> QED
    BY <2>1, <2>2, <2>4, QuietTrue
<1>6. ASSUME NEW t \in Upper, ReadMiss(t)
      PROVE  AllTrue'
  <2> DEFINE packet == Head(RQ[t])
  <2>1. /\ phase = <<"read", t>> /\ RQ[t] # << >> /\ check_mshr(t, packet.page) = -1
        /\ Occupancy(t) < MSHR_SIZE[t] /\ MSHR' = Allocated(t, packet)
        /\ UNCHANGED <<page_table, block, PROCESSED, lookup>>
    BY <1>6 DEF ReadMiss, HeadReady
  <2>2. t \in TLBs /\ QueueOK(t, RQ[t])
    BY <1>1, Sizes DEF PacketsOK
  <2>3. packet \in Reads(t)
    BY <2>1, <2>2, QueueTail
  <2>4. \A i \in Slots(t) : MSHR[t][i].page # packet.page
    BY <2>1, <2>2, RegisterFound
  <2> HIDE DEF packet
  <2>5. RegistersTrue(MSHR', page_table)
    BY <1>1, <2>1, <2>2, <2>3, <2>4, AllocatedTrue
  <2>6. lookup'.kind # "hit"
    BY <1>1, <1>2, <2>1 DEF ControlOK
  <2> QED
    BY <2>1, <2>5, <2>6, QuietTrue
<1>7. ASSUME NEW t \in Upper, ReadMerged(t)
      PROVE  AllTrue'
  <2> DEFINE packet == Head(RQ[t])
             k == check_mshr(t, packet.page)
             old == MSHR[t][k]
             entry == [old EXCEPT !.waiters = old.waiters \cup packet.waiters]
             after == [MSHR[t] EXCEPT ![k] = entry]
  <2>1. /\ phase = <<"read", t>> /\ RQ[t] # << >> /\ k # -1
        /\ MSHR' = [MSHR EXCEPT ![t] = after]
        /\ UNCHANGED <<page_table, block, PROCESSED, lookup>>
    BY <1>7 DEF ReadMerged, HeadReady
  <2>2. /\ t \in TLBs /\ QueueOK(t, RQ[t]) /\ RegistersOK(t, MSHR[t])
        /\ MSHR = [u \in TLBs |-> MSHR[u]]
    BY <1>1, Sizes DEF PacketsOK
  <2>3. packet \in Reads(t)
    BY <2>1, <2>2, QueueTail
  <2>4. k \in Slots(t) /\ old.page = packet.page /\ packet.page # 0
    BY <2>1, <2>2, <2>3, RegisterFound, PacketFacts
  <2> HIDE DEF k
  <2>5. old \in Registers(t) /\ old # Empty
    BY <2>2, <2>4, PacketFacts DEF RegistersOK
  <2>6. entry.page = old.page /\ entry.data = old.data /\ entry.returned = old.returned
    BY <2>5 DEF Registers
  <2> HIDE DEF entry
  <2>7. after[k] = entry /\ \A i \in Slots(t) \ {k} : after[i] = MSHR[t][i]
    BY <2>2, <2>4 DEF RegistersOK
  <2> HIDE DEF after
  <2>8. MSHR'[t] = after /\ \A u \in TLBs \ {t} : MSHR'[u] = MSHR[u]
    BY <2>1, <2>2
  <2>9. ASSUME NEW u \in TLBs, NEW i \in Slots(u), MSHR'[u][i] # Empty, MSHR'[u][i].returned
        PROVE  Maps(page_table, MSHR'[u][i].page, MSHR'[u][i].data)
    <3>1. CASE u = t /\ i = k
      BY <1>1, <2>4, <2>5, <2>6, <2>7, <2>8, <2>9, <3>1 DEF RegistersTrue
    <3>2. CASE ~(u = t /\ i = k)
      <4>1. MSHR'[u][i] = MSHR[u][i]
        BY <2>7, <2>8, <3>2
      <4> QED
        BY <1>1, <2>9, <4>1 DEF RegistersTrue
    <3> QED
      BY <3>1, <3>2
  <2>10. RegistersTrue(MSHR', page_table)
    BY <2>9 DEF RegistersTrue
  <2>11. lookup'.kind # "hit"
    BY <1>1, <1>2, <2>1 DEF ControlOK
  <2> QED
    BY <2>1, <2>10, <2>11, QuietTrue
<1> QED
  BY <1>3, <1>4, <1>5, <1>6, <1>7

(***************************************************************************)
(* The fill of a miss, in an upper TLB or in the STLB.                     *)
(***************************************************************************)
LEMMA FillStepTrue ==
  ASSUME IInv, AllTrue, NEW t \in TLBs, handle_fill(t)
  PROVE  AllTrue'
<1> DEFINE k == next_fill_index(t)
           packet == MSHR[t][k]
           way == Victim(block, t, packet.page)
           left == [MSHR[t] EXCEPT ![k] = Empty]
           freed == [MSHR EXCEPT ![t] = left]
<1>1. /\ PacketsOK /\ ControlOK /\ BlocksOK(block) /\ Ranked(lru)
      /\ BlocksTrue(block, page_table) /\ RegistersTrue(MSHR, page_table)
      /\ AnswersTrue(PROCESSED, page_table)
  BY DEF IInv, Types, AllTrue
<1>2. /\ MSHR = [u \in TLBs |-> MSHR[u]] /\ \A u \in TLBs : RegistersOK(u, MSHR[u])
  BY <1>1 DEF PacketsOK
<1>3. /\ phase = <<"fill", t>> /\ FillReady(t)
      /\ block' = fill_cache(block, t, packet.page, way, packet.data)
      /\ UNCHANGED <<page_table, lookup>>
      /\ IF t = "STLB"
         THEN /\ MSHR' = Returned(freed, Above(packet), packet.page, packet.data)
              /\ UNCHANGED PROCESSED
         ELSE /\ MSHR' = freed
              /\ PROCESSED' = Answered(t, packet, packet.data)
  BY DEF handle_fill
<1>4. /\ k \in Slots(t) /\ packet \in Registers(t) /\ packet # Empty /\ packet.returned
  BY <1>2, <1>3, NextFill
<1>5. /\ packet.page \in Pages /\ packet.data \in Data /\ Above(packet) \in Upper
  BY <1>4, PacketFacts
<1>6. Maps(page_table, packet.page, packet.data)
  BY <1>1, <1>4 DEF RegistersTrue
<1>7. way \in WaysOf(t)
  BY <1>1, <1>5, VictimWay
<1> HIDE DEF k, packet, way, left
<1>8. BlocksTrue(block', page_table)
  BY <1>1, <1>3, <1>5, <1>6, <1>7, FillTrue
<1>9. left[k] = Empty /\ \A i \in Slots(t) \ {k} : left[i] = MSHR[t][i]
  BY <1>2, <1>4 DEF left, RegistersOK
<1>10. /\ freed = [u \in TLBs |-> freed[u]] /\ freed[t] = left
       /\ \A u \in TLBs \ {t} : freed[u] = MSHR[u]
  BY <1>2
<1> HIDE DEF freed
<1>11. RegistersTrue(freed, page_table)
  BY <1>1, <1>9, <1>10 DEF RegistersTrue
<1>12. lookup'.kind # "hit"
  <2>1. phase[1] # "callback" /\ NoLookup.kind # "hit"
    BY <1>3 DEF NoLookup
  <2> QED
    BY <1>1, <1>3, <2>1 DEF ControlOK
<1>13. RegistersTrue(MSHR', page_table) /\ AnswersTrue(PROCESSED', page_table)
  <2>1. CASE t = "STLB"
    <3>1. PICK u \in Upper : u = Above(packet)
      BY <1>5
    <3>2. u \in TLBs /\ RegistersOK(u, freed[u])
      BY <1>2, <1>10, <2>1, <3>1, Sizes
    <3>3. RegistersTrue(Returned(freed, u, packet.page, packet.data), page_table)
      BY <1>5, <1>6, <1>10, <1>11, <3>2, ReturnedTrue
    <3> QED
      BY <1>1, <1>3, <2>1, <3>1, <3>3
  <2>2. CASE t # "STLB"
    <3>1. t \in Upper /\ MSHR' = freed /\ PROCESSED' = Answered(t, packet, packet.data)
      BY <1>3, <2>2 DEF TLBs, Upper
    <3>2. AnswersTrue(Answered(t, packet, packet.data), page_table)
      BY <1>1, <1>6, <3>1, AnsweredTrue
    <3> QED
      BY <1>11, <3>1, <3>2
  <2> QED
    BY <2>1, <2>2
<1> QED
  BY <1>3, <1>8, <1>12, <1>13 DEF AllTrue, LookupTrue

(***************************************************************************)
(* A hit in an upper TLB answers with the block's frame.                   *)
(***************************************************************************)
LEMMA ReadHitTrue ==
  ASSUME IInv, AllTrue, NEW t \in Upper, ReadHit(t)
  PROVE  AllTrue'
<1> DEFINE packet == Head(RQ[t])
           set == get_set(t, packet.page)
           way == check_hit(block, t, packet.page)
           data == block[t][set][way].data
<1>1. /\ PacketsOK /\ ControlOK /\ BlocksTrue(block, page_table)
      /\ RegistersTrue(MSHR, page_table) /\ AnswersTrue(PROCESSED, page_table)
  BY DEF IInv, Types, AllTrue
<1>2. /\ phase = <<"read", t>> /\ RQ[t] # << >> /\ way # -1
      /\ PROCESSED' = Answered(t, packet, data)
      /\ UNCHANGED <<page_table, MSHR, block, lookup>>
  BY DEF ReadHit, HeadReady
<1>3. t \in TLBs /\ QueueOK(t, RQ[t])
  BY <1>1, Sizes DEF PacketsOK
<1>4. packet \in Reads(t)
  BY <1>2, <1>3, QueueTail
<1>5. packet.page # 0 /\ set \in Sets(t)
  BY <1>3, <1>4, PacketFacts, Sizes
<1>6. way \in WaysOf(t) /\ block[t][set][way].tag = packet.page
  BY <1>2, <1>3, HitFound
<1>7. Maps(page_table, packet.page, data)
  <2>1. block[t][set][way] # NoBlock
    BY <1>5, <1>6 DEF NoBlock
  <2> QED
    BY <1>1, <1>3, <1>5, <1>6, <2>1 DEF BlocksTrue
<1> HIDE DEF packet, data
<1>8. AnswersTrue(PROCESSED', page_table)
  BY <1>1, <1>2, <1>7, AnsweredTrue
<1>9. lookup'.kind # "hit"
  <2>1. phase[1] # "callback" /\ NoLookup.kind # "hit"
    BY <1>2 DEF NoLookup
  <2> QED
    BY <1>1, <1>2, <2>1 DEF ControlOK
<1> QED
  BY <1>1, <1>2, <1>8, <1>9 DEF AllTrue, LookupTrue

(***************************************************************************)
(* The STLB reads: what it keeps for after the callback, or gets from the  *)
(* page table, is the frame of the page.                                   *)
(***************************************************************************)
LEMMA StlbTrue ==
  ASSUME MemoryForAll, IInv, AllTrue, StlbHit \/ StlbMiss
  PROVE  AllTrue'
<1> DEFINE packet == Head(RQ["STLB"])
           set == get_set("STLB", packet.page)
           way == check_hit(block, "STLB", packet.page)
           data == block["STLB"][set][way].data
<1>1. /\ TableOK(page_table) /\ PacketsOK /\ ControlOK /\ BlocksTrue(block, page_table)
      /\ RegistersTrue(MSHR, page_table) /\ AnswersTrue(PROCESSED, page_table)
  BY DEF IInv, Types, AllTrue
<1>2. RQ["STLB"] # << >> /\ UNCHANGED <<RQ, PROCESSED>>
  BY DEF StlbHit, StlbMiss, HeadReady
<1>3. "STLB" \in TLBs /\ QueueOK("STLB", RQ["STLB"])
  BY <1>1, Sizes DEF PacketsOK
<1>4. packet \in Reads("STLB") /\ packet = RQ["STLB"][1]
  BY <1>2, <1>3, QueueTail, TailFacts DEF QueueOK
<1>5. packet.page \in Pages /\ packet.page # 0 /\ set \in Sets("STLB")
  BY <1>3, <1>4, PacketFacts, Sizes
<1>6. CASE StlbHit
  <2>1. /\ way # -1
        /\ lookup' = [kind |-> "hit", set |-> set, way |-> way, data |-> data,
                      budget |-> Calls(packet)]
        /\ UNCHANGED <<page_table, MSHR, block>>
    BY <1>6 DEF StlbHit
  <2>2. way \in WaysOf("STLB") /\ block["STLB"][set][way].tag = packet.page
    BY <1>3, <2>1, HitFound
  <2>3. block["STLB"][set][way] # NoBlock
    BY <1>5, <2>2 DEF NoBlock
  <2>4. Maps(page_table, packet.page, data)
    BY <1>1, <1>3, <1>5, <2>2, <2>3 DEF BlocksTrue
  <2>5. lookup'.data = data
    BY <2>1
  <2> HIDE DEF packet, data
  <2> QED
    BY <1>1, <1>2, <1>4, <2>1, <2>4, <2>5 DEF AllTrue, LookupTrue
<1>7. CASE StlbMiss
  <2> DEFINE new == check_mshr("STLB", packet.page) = -1
  <2>1. /\ lookup' = [kind |-> "miss", budget |-> Calls(packet)]
        /\ IF new
           THEN /\ Occupancy("STLB") < MSHR_SIZE["STLB"]
                /\ page_table' \in Walks(page_table, packet.page)
                /\ block' = BlocksAfterWalk(packet.page)
                /\ MSHR' = Returned(Allocated("STLB", packet), "STLB", packet.page,
                                    page_table'[packet.page])
           ELSE UNCHANGED <<page_table, block, MSHR>>
    BY <1>7 DEF StlbMiss
  <2>2. new => \A i \in Slots("STLB") : MSHR["STLB"][i].page # packet.page
    BY <1>3, RegisterFound
  <2>3. lookup'.kind # "hit"
    BY <2>1
  <2> HIDE DEF packet, new
  <2>4. CASE new
    <3>1. PICK table \in Walks(page_table, packet.page) : table = page_table'
      BY <2>1, <2>4
    <3>2. /\ block' = block /\ Maps(table, packet.page, table[packet.page])
          /\ \A p, frame : Maps(page_table, p, frame) => Maps(table, p, frame)
      BY <1>1, <1>5, <2>1, <2>4, <3>1, WalkGrows
    <3>3. table[packet.page] \in Data
      BY <1>1, <1>5, <3>1, WalkFacts DEF Data
    <3>4. /\ BlocksTrue(block, table) /\ RegistersTrue(MSHR, table)
          /\ AnswersTrue(PROCESSED, table)
      BY <3>2, GrowthTrue
    <3> DEFINE allocated == Allocated("STLB", packet)
    <3>5. /\ RegistersTrue(allocated, table) /\ RegistersOK("STLB", allocated["STLB"])
          /\ allocated = [u \in TLBs |-> allocated[u]]
      BY <1>1, <1>3, <1>4, <2>1, <2>2, <2>4, <3>4, AllocatedTrue
    <3>6. MSHR' = Returned(allocated, "STLB", packet.page, table[packet.page])
      BY <2>1, <2>4, <3>1
    <3> HIDE DEF allocated
    <3>7. RegistersTrue(MSHR', table)
      BY <1>3, <1>5, <3>2, <3>3, <3>5, <3>6, ReturnedTrue
    <3> QED
      BY <1>2, <2>3, <3>1, <3>2, <3>4, <3>7 DEF AllTrue, LookupTrue
  <2>5. CASE ~new
    BY <1>1, <1>2, <2>1, <2>3, <2>5 DEF AllTrue, LookupTrue
  <2> QED
    BY <2>4, <2>5
<1> QED
  BY <1>6, <1>7

(***************************************************************************)
(* A prediction is filled with the frame of its page.                      *)
(***************************************************************************)
LEMMA PrefetchTrue ==
  ASSUME MemoryForAll, IInv, AllTrue, NEW page \in Pages, PrefetchFill(page)
  PROVE  AllTrue'
<1>1. /\ TableOK(page_table) /\ BlocksOK(block) /\ Ranked(lru) /\ ControlOK
  BY DEF IInv, Types
<1>2. /\ phase[1] = "callback" /\ page_table' \in Walks(page_table, page)
      /\ block' = fill_cache(BlocksAfterWalk(page), "STLB", page,
                             Victim(BlocksAfterWalk(page), "STLB", page), page_table'[page])
      /\ lookup' = [lookup EXCEPT !.budget = @ - 1]
      /\ UNCHANGED <<RQ, MSHR, PROCESSED>>
  BY DEF PrefetchFill
<1>3. PICK table \in Walks(page_table, page) : table = page_table'
  BY <1>2
<1>4. /\ BlocksAfterWalk(page) = block /\ Maps(table, page, table[page])
      /\ \A p, frame : Maps(page_table, p, frame) => Maps(table, p, frame)
  BY <1>1, WalkGrows
<1>5. /\ BlocksTrue(block, table) /\ RegistersTrue(MSHR, table)
      /\ AnswersTrue(PROCESSED, table)
      /\ lookup.kind = "hit" => Maps(table, RQ["STLB"][1].page, lookup.data)
  BY <1>4, GrowthTrue
<1>6. table[page] \in Data
  BY <1>1, WalkFacts DEF Data
<1>7. PICK t \in TLBs : t = "STLB"
  BY Sizes
<1>8. PICK way \in WaysOf(t) : way = Victim(block, "STLB", page)
  BY <1>1, <1>7, VictimWay
<1>9. block' = fill_cache(block, t, page, way, table[page])
  BY <1>2, <1>3, <1>4, <1>7, <1>8
<1>10. BlocksTrue(block', table)
  BY <1>1, <1>4, <1>5, <1>6, <1>9, FillTrue
<1>11. lookup'.kind = lookup.kind /\ (lookup.kind = "hit" => lookup'.data = lookup.data)
  <2>1. lookup \in Lookups /\ lookup # NoLookup
    BY <1>1, <1>2 DEF ControlOK
  <2> QED
    BY <1>2, <2>1 DEF Lookups
<1> QED
  BY <1>2, <1>3, <1>5, <1>10, <1>11 DEF AllTrue, LookupTrue

(***************************************************************************)
(* After the callback of a hit the TLB above gets the frame read before.   *)
(***************************************************************************)
LEMMA FinishHitTrue ==
  ASSUME IInv, AllTrue, FinishHit
  PROVE  AllTrue'
<1> DEFINE packet == Head(RQ["STLB"])
<1>1. /\ PacketsOK /\ ControlOK /\ RegistersTrue(MSHR, page_table) /\ LookupTrue
  BY DEF IInv, Types, AllTrue
<1>2. /\ phase[1] = "callback" /\ lookup.kind = "hit"
      /\ MSHR' = Returned(MSHR, Above(packet), packet.page, lookup.data)
      /\ lookup' = NoLookup /\ UNCHANGED <<page_table, PROCESSED, block>>
  BY DEF FinishHit
<1>3. /\ "STLB" \in TLBs /\ QueueOK("STLB", RQ["STLB"]) /\ RQ["STLB"] # << >>
      /\ MSHR = [v \in TLBs |-> MSHR[v]] /\ \A v \in TLBs : RegistersOK(v, MSHR[v])
  BY <1>1, <1>2, Sizes DEF PacketsOK, ControlOK
<1>4. packet \in Reads("STLB") /\ packet = RQ["STLB"][1]
  BY <1>3, QueueTail, TailFacts DEF QueueOK
<1>5. packet.page \in Pages /\ Above(packet) \in TLBs
  BY <1>3, <1>4, PacketFacts, Sizes
<1>6. lookup.data \in Data
  <2>1. lookup \in Lookups /\ lookup # NoLookup
    BY <1>1, <1>2 DEF ControlOK, NoLookup
  <2> QED
    BY <1>2, <2>1 DEF Lookups
<1>7. Maps(page_table, packet.page, lookup.data)
  BY <1>1, <1>2, <1>4 DEF LookupTrue
<1> HIDE DEF packet
<1>8. RegistersTrue(MSHR', page_table)
  BY <1>1, <1>2, <1>3, <1>5, <1>6, <1>7, ReturnedTrue
<1>9. lookup'.kind # "hit"
  BY <1>2 DEF NoLookup
<1> QED
  BY <1>2, <1>8, <1>9, QuietTrue

(***************************************************************************)
(* An answer leaves its queue.                                             *)
(***************************************************************************)
LEMMA CompleteTrue ==
  ASSUME IInv, AllTrue, update_rob
  PROVE  AllTrue'
<1>1. /\ PacketsOK /\ ControlOK /\ AnswersTrue(PROCESSED, page_table)
  BY DEF IInv, Types, AllTrue
<1>2. /\ phase[1] = "complete"
      /\ PROCESSED' = [t \in Upper |->
           IF PROCESSED[t] = << >> THEN << >> ELSE Tail(PROCESSED[t])]
      /\ UNCHANGED <<page_table, MSHR, block, lookup>>
  BY DEF update_rob
<1>3. ASSUME NEW t \in Upper, NEW i \in DOMAIN PROCESSED'[t]
      PROVE  Maps(page_table, PROCESSED'[t][i].page, PROCESSED'[t][i].pa)
  <2>1. PROCESSED[t] \in Seq(Answers(t))
    BY <1>1 DEF PacketsOK
  <2>2. CASE PROCESSED[t] = << >>
    BY <1>1, <1>2, <1>3, <2>2 DEF AnswersTrue
  <2>3. CASE PROCESSED[t] # << >>
    <3>1. PROCESSED'[t] = Tail(PROCESSED[t])
      BY <1>2, <2>3
    <3>2. i + 1 \in DOMAIN PROCESSED[t] /\ PROCESSED'[t][i] = PROCESSED[t][i + 1]
      BY <1>3, <2>1, <2>3, <3>1, TailFacts
    <3> QED
      BY <1>1, <3>2 DEF AnswersTrue
  <2> QED
    BY <2>2, <2>3
<1>4. lookup'.kind # "hit"
  <2>1. phase[1] # "callback" /\ NoLookup.kind # "hit"
    BY <1>2 DEF NoLookup
  <2> QED
    BY <1>1, <1>2, <2>1 DEF ControlOK
<1>5. AnswersTrue(PROCESSED', page_table)
  BY <1>3 DEF AnswersTrue
<1> QED
  BY <1>2, <1>4, <1>5 DEF AllTrue, LookupTrue

(***************************************************************************)
(* While there is memory for all, every step keeps everything true.        *)
(***************************************************************************)
LEMMA TrueStep ==
  ASSUME MemoryForAll
  PROVE  IInv /\ AllTrue /\ [Next]_vars => AllTrue'
<1> SUFFICES ASSUME IInv, AllTrue, [Next]_vars PROVE AllTrue'
  OBVIOUS
<1>1. ASSUME \/ fetch_instruction \/ operate_lsq \/ EndIssue \/ Tick \/ FinishMiss
             \/ \E t \in TLBs : NoFill(t) \/ NoRead(t)
             \/ \E t \in Upper : ReadMiss(t) \/ ReadMerged(t)
      PROVE  AllTrue'
  BY <1>1, QuietSteps DEF fetch_instruction, operate_lsq
<1>2. ASSUME NEW t \in TLBs, handle_fill(t) PROVE AllTrue'
  BY <1>2, FillStepTrue
<1>3. ASSUME NEW t \in Upper, ReadHit(t) PROVE AllTrue'
  BY <1>3, ReadHitTrue
<1>4. ASSUME StlbHit \/ StlbMiss PROVE AllTrue'
  BY <1>4, StlbTrue
<1>5. ASSUME NEW page \in Pages, PrefetchFill(page) PROVE AllTrue'
  BY <1>5, PrefetchTrue
<1>6. ASSUME FinishHit \/ update_rob PROVE AllTrue'
  BY <1>6, FinishHitTrue, CompleteTrue
<1>7. CASE UNCHANGED vars
  BY <1>7 DEF vars, AllTrue, LookupTrue
<1> QED
  BY <1>1, <1>2, <1>3, <1>4, <1>5, <1>6, <1>7 DEF Next

(***************************************************************************)
(* In the beginning nothing holds a translation.                           *)
(***************************************************************************)
LEMMA InitTrue == Init => AllTrue
BY Sizes DEF Init, AllTrue, BlocksTrue, RegistersTrue, AnswersTrue, LookupTrue, NoLookup

(***************************************************************************)
(* With memory for all pages, every block of every TLB holds the frame     *)
(* that the page table gives its page, whatever the prefetchers predict.   *)
(***************************************************************************)
THEOREM TlbBlocksCoherent ==
  ASSUME MemoryForAll
  PROVE  Spec => []TlbCoherent
<1>1. Init => AllTrue
  BY InitTrue
<1>2. IInv /\ AllTrue /\ [Next]_vars => AllTrue'
  BY TrueStep
<1>3. AllTrue => TlbCoherent
  BY DEF AllTrue, BlocksTrue, Maps, TlbCoherent
<1> QED
  BY <1>1, <1>2, <1>3, TlbInvariant, PTL DEF Spec

-----------------------------------------------------------------------------
(***************************************************************************)
(* A walk leaves a table that TranslationService allows.                   *)
(***************************************************************************)
LEMMA WalkGranted ==
  ASSUME TableOK(page_table)
  PROVE  \A page : Walks(page_table, page) \subseteq Service!Grants(page_table, page)
<1>1. Service!Cardinality(DOMAIN page_table) = Cardinality(DOMAIN page_table)
  BY DEF Service!Cardinality, Cardinality
<1>2. /\ Service!Full(page_table) = Full(page_table)
      /\ Service!InUse(page_table) = InUse(page_table)
  BY <1>1 DEF Service!Full, Full, Service!InUse, InUse
<1>3. \A page, victim, frame :
        /\ Service!Moved(page_table, victim, page) = Moved(page_table, victim, page)
        /\ Service!Mapped(page_table, page, frame) = Mapped(page_table, page, frame)
  BY DEF Service!Moved, Moved, Service!Mapped, Mapped
<1>4. Full(page_table) => NRU_vpage(page_table) \in DOMAIN page_table
  BY VictimMapped
<1> QED
  BY <1>2, <1>3, <1>4 DEF Service!Grants, Walks, Swapped

(***************************************************************************)
(* update_rob answers clients that wait with the frames of their pages.    *)
(***************************************************************************)
LEMMA CompleteAnswers ==
  ASSUME IInv, AllTrue, update_rob
  PROVE  \E answered \in SUBSET Clients : Service!Answer(answered)
<1> DEFINE side(c) == IF c \in Fetchers THEN "ITLB" ELSE "DTLB"
           answered == {c \in Clients : /\ PROCESSED[side(c)] # << >>
                                        /\ c \in Head(PROCESSED[side(c)]).waiters}
<1>1. /\ PacketsOK /\ ClientsCarried /\ AnswersTrue(PROCESSED, page_table)
  BY DEF IInv, Types, AllTrue
<1>2. /\ client' = [c \in Clients |-> handle_merged_translation(c, side(c))]
      /\ UNCHANGED page_table
  BY DEF update_rob, complete_instr_fetch, complete_data_fetch
<1>3. ASSUME NEW c \in Clients
      PROVE  side(c) \in Upper /\ c \in Side(side(c))
  BY DEF Upper, Side, Clients
<1>4. ASSUME NEW c \in answered
      PROVE  /\ client[c].state = "waiting" /\ client[c].page \in DOMAIN page_table
             /\ page_table[client[c].page] = Head(PROCESSED[side(c)]).pa
  <2> DEFINE t == side(c)
             answers == PROCESSED[t]
  <2>1. t \in Upper /\ c \in Side(t) /\ answers # << >> /\ c \in Head(answers).waiters
    BY <1>3
  <2> HIDE DEF t
  <2>2. answers \in Seq(Answers(t)) /\ 1 \in DOMAIN answers /\ Head(answers) = answers[1]
    BY <1>1, <2>1, TailFacts DEF PacketsOK
  <2>3. Placed(c, client[c], RQ[t], MSHR[t], answers)
    BY <1>1, <2>1 DEF ClientsCarried, Carried
  <2>4. client[c].state = "waiting" /\ answers[1].page = client[c].page
    BY <2>1, <2>2, <2>3 DEF Placed
  <2>5. Maps(page_table, answers[1].page, answers[1].pa)
    BY <1>1, <2>1, <2>2 DEF AnswersTrue
  <2> QED
    BY <2>2, <2>4, <2>5 DEF Maps, t
<1>5. client' = [c \in Clients |->
                   IF c \in answered
                   THEN [state |-> "translated", page |-> client[c].page,
                         pa |-> page_table[client[c].page]]
                   ELSE client[c]]
  <2>1. ASSUME NEW c \in Clients
        PROVE  handle_merged_translation(c, side(c)) =
                 IF c \in answered
                 THEN [state |-> "translated", page |-> client[c].page,
                       pa |-> page_table[client[c].page]]
                 ELSE client[c]
    BY <1>4 DEF handle_merged_translation
  <2> HIDE DEF side, answered
  <2> QED
    BY <1>2, <2>1
<1> HIDE DEF side
<1>6. Service!Answer(answered)
  <2>1. \A c \in answered : client[c].state = "waiting" /\ client[c].page \in DOMAIN page_table
    BY <1>4
  <2> HIDE DEF answered
  <2> QED
    BY <1>2, <1>5, <2>1 DEF Service!Answer
<1>7. answered \in SUBSET Clients
  OBVIOUS
<1> QED
  BY <1>6, <1>7

(***************************************************************************)
(* With memory for all pages the TLBs keep the promise of                  *)
(* TranslationService: a request of a client is one there, a walk maps a   *)
(* page, update_rob answers, and nothing else shows.  In particular every  *)
(* client is answered with the frame of the page it asked for.             *)
(***************************************************************************)
THEOREM TlbImplementsService ==
  ASSUME MemoryForAll
  PROVE  Spec => ImplementsService
<1>1. Init => Service!Init
  BY DEF Init, Service!Init
<1>2. Init => AllTrue
  BY InitTrue
<1>3. IInv /\ AllTrue /\ [Next]_vars => AllTrue'
  BY TrueStep
<1>4. IInv /\ AllTrue /\ [Next]_vars => [Service!Next]_<<page_table, client>>
  <2> SUFFICES ASSUME IInv, AllTrue, [Next]_vars
               PROVE  [Service!Next]_<<page_table, client>>
    OBVIOUS
  <2>1. ASSUME NEW c \in Clients, NEW t, NEW type, NEW page \in Pages,
               Request(c, t, type, page)
        PROVE  Service!Next
    <3>1. Service!Request(c, page)
      BY <2>1 DEF Request, Service!Request
    <3> QED
      BY <3>1 DEF Service!Next
  <2>2. ASSUME fetch_instruction \/ operate_lsq
        PROVE  Service!Next
    BY <2>1, <2>2, Sizes DEF fetch_instruction, operate_lsq, Clients
  <2>3. ASSUME NEW page \in Pages, page_table' \in Walks(page_table, page), UNCHANGED client
        PROVE  Service!Next
    <3>0. TableOK(page_table)
      BY DEF IInv, Types
    <3>1. Service!Map(page)
      BY <2>3, <3>0, WalkGranted DEF Service!Map
    <3> QED
      BY <3>1 DEF Service!Next
  <2>4. ASSUME StlbMiss
        PROVE  Service!Next \/ UNCHANGED <<page_table, client>>
    <3> DEFINE packet == Head(RQ["STLB"])
    <3>1. /\ RQ["STLB"] # << >> /\ UNCHANGED client
          /\ page_table' \in Walks(page_table, packet.page) \/ UNCHANGED page_table
      BY <2>4 DEF StlbMiss, HeadReady
    <3>2. "STLB" \in TLBs /\ QueueOK("STLB", RQ["STLB"])
      BY Sizes DEF IInv, Types, PacketsOK
    <3>3. packet.page \in Pages
      BY <3>1, <3>2, QueueTail, PacketFacts
    <3> QED
      BY <2>3, <3>1, <3>3
  <2>5. ASSUME NEW page \in Pages, PrefetchFill(page)
        PROVE  Service!Next
    BY <2>3, <2>5 DEF PrefetchFill
  <2>6. ASSUME update_rob
        PROVE  Service!Next
    BY <2>6, CompleteAnswers DEF Service!Next
  <2>7. ASSUME \/ EndIssue \/ Tick \/ StlbHit \/ FinishHit \/ FinishMiss \/ UNCHANGED vars
               \/ \E t \in TLBs : handle_fill(t) \/ NoFill(t) \/ NoRead(t)
               \/ \E t \in Upper : ReadHit(t) \/ ReadMiss(t) \/ ReadMerged(t)
        PROVE  UNCHANGED <<page_table, client>>
    BY <2>7 DEF EndIssue, Tick, StlbHit, FinishHit, FinishMiss, vars, handle_fill, NoFill,
                NoRead, ReadHit, ReadMiss, ReadMerged
  <2> QED
    BY <2>2, <2>4, <2>5, <2>6, <2>7 DEF Next
<1> QED
  BY <1>1, <1>2, <1>3, <1>4, TlbInvariant, PTL DEF Spec, ImplementsService, Service!Spec

=============================================================================
