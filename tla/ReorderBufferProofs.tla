------------------------ MODULE ReorderBufferProofs ------------------------
(***************************************************************************)
(* Proofs about ReorderBuffer: types, conservation of work, forwarding.    *)
(*                                                                         *)
(* check_and_add_lsq changes many variables in several steps of one        *)
(* action.  The parts of the invariant take as arguments what it changes,  *)
(* so that they can be stated of what lies between two of these steps too. *)
(***************************************************************************)
EXTENDS ReorderBuffer, CommonLemmas, FunctionTheorems, SequenceTheorems

Scheduled == head .. next_schedule - 1
AllAddresses == UNION {Elements(trace[i].stores) : i \in DOMAIN trace}
AllRegisters == UNION {trace[i].reads : i \in DOMAIN trace}

\* Partial functions from the operands of an instruction to the slots they are in.
Indices(slots) == UNION {[ops -> slots] : ops \in SUBSET Nat}

Entries ==
  [scheduled : Stages, executed : Stages,
   num_reg_dependent : Nat, registers_depend_on_me : SUBSET (Nat \X AllRegisters),
   num_mem_ops : Nat, memory_instrs_depend_on_me : SUBSET Nat,
   lq_index : Indices(LQSlots), sq_index : Indices(SQSlots)]

Loads == [LQSlots -> {NoEntry} \cup [instr : Nat, op : Nat, producer : Nat]]
Stores == [SQSlots -> {NoEntry} \cup [instr : Nat, address : AllAddresses, fetched : BOOLEAN]]

TypeInv ==
  /\ trace \in Traces
  /\ head \in Nat \ {0} /\ tail \in Nat /\ next_schedule \in Nat
  /\ head <= next_schedule /\ next_schedule <= tail
  /\ tail <= Len(trace) + 1 /\ tail - head <= ROB_SIZE
  /\ fetch_stall \in BOOLEAN
  /\ RTE0 \in Seq(Nat) /\ RTE1 \in Seq(Nat)
  /\ RTL1 \in Seq(LQSlots) /\ RTS1 \in Seq(SQSlots)
  /\ IsFiniteSet(WQ) /\ Cardinality(WQ) <= WQ_SIZE

AddingType(s) ==
  s \in [rob : [DOMAIN trace -> Entries], LQ : Loads, SQ : Stores, SQ_tail : SQSlots,
         STA : Seq(Nat), RTL0 : Seq(LQSlots), RTS0 : Seq(SQSlots),
         done : Nat, seen : SUBSET (Nat \X Nat \X Nat)]

\* How far an instruction has come.
ProgressOf(i, e) ==
  /\ i \notin InRob => e = Blank
  /\ i \in InRob \ Scheduled =>
       e = [Blank EXCEPT !.num_mem_ops = Len(trace[i].loads) + Len(trace[i].stores)]
  /\ \A q \in e.registers_depend_on_me :
       q[1] \in i + 1 .. next_schedule - 1 /\ q[2] \in trace[q[1]].reads
  /\ e.memory_instrs_depend_on_me \subseteq i + 1 .. next_schedule - 1
  /\ DOMAIN e.lq_index \subseteq DOMAIN trace[i].loads
  /\ DOMAIN e.sq_index \subseteq DOMAIN trace[i].stores
  /\ is_memory(i) /\ e.scheduled = "inflight" => e.executed = "no"
  /\ e.executed # "no" => e.num_reg_dependent = 0
  /\ e.executed = "completed" => e.num_mem_ops = 0

Progress(entries) == \A i \in DOMAIN trace : ProgressOf(i, entries[i])

\* The store whose value a load of instruction i has to take.
Source(i, a) ==
  LET older == StoresTo(a, 1 .. i - 1)
  IN  IF older = {} THEN NoStore ELSE Youngest(older)

LoadHeld(slot, e, entries, sq) ==
  LET a == trace[e.instr].loads[e.op] IN
  /\ e.instr \in Scheduled
  /\ e.op \in DOMAIN entries[e.instr].lq_index
  /\ entries[e.instr].lq_index[e.op] = slot
  /\ e.producer = NoStore => StoresTo(a, head .. e.instr - 1) = {}
  /\ e.producer # NoStore =>
       /\ e.producer \in Scheduled /\ e.producer = Source(e.instr, a)
       /\ e.instr \in entries[e.producer].memory_instrs_depend_on_me
       /\ \A q \in Used(sq) : sq[q].instr = e.producer /\ sq[q].address = a => ~sq[q].fetched

\* A load in the load queue is found by the index its instruction keeps of it, and if it
\* waits, by its producer, which is not executed.
LoadsHeld(entries, lq, sq) == \A slot \in Used(lq) : LoadHeld(slot, lq[slot], entries, sq)

\* The store queue and the indices of the instructions agree.
StoresHeld(entries, sq) ==
  /\ \A slot \in Used(sq) : /\ sq[slot].instr \in Scheduled
                            /\ slot \in Elements(entries[sq[slot].instr].sq_index)
  /\ \A i \in DOMAIN trace : \A n \in DOMAIN entries[i].sq_index :
       LET slot == entries[i].sq_index[n] IN
       slot \in Used(sq) /\ sq[slot].instr = i /\ sq[slot].address = trace[i].stores[n]

\* How many slots a slot of the store queue is behind its tail.
Age(sq_tail, slot) == IF slot < sq_tail THEN sq_tail - slot ELSE sq_tail + SQ_SIZE - slot

\* The slots in use are the newest, and in program order, as the STA is.
InOrder(sq, sq_tail, sta) ==
  /\ \A p, q \in SQSlots :
       q \in Used(sq) /\ Age(sq_tail, p) < Age(sq_tail, q) =>
         p \in Used(sq) /\ sq[q].instr <= sq[p].instr
  /\ \A n \in DOMAIN sta :
       /\ sta[n] < tail
       /\ \A m \in 1 .. n : sta[m] <= sta[n]
       /\ \A slot \in Used(sq) : sq[slot].instr <= sta[n]

\* A load that does not wait for a store is at one place on its way.
LoadsTracked(lq, rtl0) ==
  /\ IsInjective(rtl0) /\ IsInjective(RTL1)
  /\ Elements(rtl0) \cap Elements(RTL1) = {}
  /\ Elements(rtl0) \cap Requests(DTLB, "LQ") = {}
  /\ Elements(rtl0) \cap Requests(L1D, "LQ") = {}
  /\ Elements(RTL1) \cap Requests(DTLB, "LQ") = {}
  /\ Elements(RTL1) \cap Requests(L1D, "LQ") = {}
  /\ Requests(DTLB, "LQ") \cap Requests(L1D, "LQ") = {}
  /\ Elements(rtl0) \cup Elements(RTL1) \cup Requests(DTLB, "LQ") \cup Requests(L1D, "LQ") =
       {slot \in Used(lq) : lq[slot].producer = NoStore}

\* So is a store that is not executed.
StoresTracked(sq, rts0) ==
  /\ IsInjective(rts0) /\ IsInjective(RTS1)
  /\ Elements(rts0) \cap Elements(RTS1) = {}
  /\ Elements(rts0) \cap Requests(DTLB, "SQ") = {}
  /\ Elements(RTS1) \cap Requests(DTLB, "SQ") = {}
  /\ Elements(rts0) \cup Elements(RTS1) \cup Requests(DTLB, "SQ") =
       {slot \in Used(sq) : ~sq[slot].fetched}

\* A request names the instruction of its slot.
RequestsNamed(lq, sq) ==
  /\ \A r \in DTLB \cup L1D :
       /\ r \in [queue : {"LQ", "SQ"}, slot : Nat, instr : Nat]
       /\ r.instr = IF r.queue = "SQ" THEN sq[r.slot].instr ELSE lq[r.slot].instr
  /\ \A r \in L1D : r.queue = "LQ"

HeldLoads(lq, i) == {slot \in Used(lq) : lq[slot].instr = i}
HeldStores(sq, i) == {slot \in Used(sq) : sq[slot].instr = i /\ ~sq[slot].fetched}
MissingLoads(entries, i) == DOMAIN trace[i].loads \ DOMAIN entries[i].lq_index
MissingStores(entries, i) == DOMAIN trace[i].stores \ DOMAIN entries[i].sq_index

Counted(entries, lq, sq) ==
  \A i \in InRob :
    entries[i].num_mem_ops =
      Cardinality(MissingLoads(entries, i)) + Cardinality(HeldLoads(lq, i))
        + Cardinality(MissingStores(entries, i)) + Cardinality(HeldStores(sq, i))

Finished(entries) == {i \in InRob : /\ is_memory(i) /\ entries[i].num_mem_ops = 0
                                    /\ entries[i].executed # "completed"}

RightlySeen(read) ==
  \A load \in read : load[3] = Source(load[1], trace[load[1]].loads[load[2]])

\* The registers an instruction waits for, with their producers.
WaitsFor(entries, i) ==
  {w \in InRob \X trace[i].reads : /\ entries[w[1]].executed # "completed"
                                   /\ <<i, w[2]>> \in entries[w[1]].registers_depend_on_me}
RegistersCounted(entries) ==
  \A i \in Scheduled : entries[i].num_reg_dependent = Cardinality(WaitsFor(entries, i))

Executing(entries) == {i \in InRob : ~is_memory(i) /\ entries[i].executed = "inflight"}

ReadyToExecute ==
  /\ IsInjective(RTE0) /\ IsInjective(RTE1)
  /\ Elements(RTE0) \cap Elements(RTE1) = {}
  /\ \A i \in Elements(RTE0) \cup Elements(RTE1) :
       /\ i \in Scheduled /\ ~is_memory(i)
       /\ rob[i].executed = "no" /\ rob[i].num_reg_dependent = 0

\* The parts that check_and_add_lsq passes through.
LsqInv(s) ==
  /\ AddingType(s) /\ Progress(s.rob)
  /\ LoadsHeld(s.rob, s.LQ, s.SQ) /\ StoresHeld(s.rob, s.SQ)
  /\ InOrder(s.SQ, s.SQ_tail, s.STA)
  /\ LoadsTracked(s.LQ, s.RTL0) /\ StoresTracked(s.SQ, s.RTS0)
  /\ RequestsNamed(s.LQ, s.SQ)
  /\ Counted(s.rob, s.LQ, s.SQ)
  /\ s.done = Cardinality(Finished(s.rob))
  /\ RegistersCounted(s.rob)
  /\ RightlySeen(s.seen)

IInv ==
  /\ TypeInv /\ LsqInv(Adding) /\ ReadyToExecute
  /\ inflight_reg_executions = Cardinality(Executing(rob))
-----------------------------------------------------------------------------

(***************************************************************************)
(* The sizes of the reorder buffer and of both queues.                     *)
(***************************************************************************)
LEMMA Sizes ==
  /\ ROB_SIZE \in Nat \ {0} /\ LQ_SIZE \in Nat \ {0} /\ SQ_SIZE \in Nat \ {0}
  /\ WQ_SIZE \in Nat
  /\ IsFiniteSet(LQSlots) /\ Cardinality(LQSlots) = LQ_SIZE
  /\ IsFiniteSet(SQSlots) /\ Cardinality(SQSlots) = SQ_SIZE
<1>1. /\ ROB_SIZE \in Nat \ {0} /\ LQ_SIZE \in Nat \ {0} /\ SQ_SIZE \in Nat \ {0}
      /\ WQ_SIZE \in Nat
  BY SizeAssumption
<1> QED
  BY <1>1, FS_Interval DEF LQSlots, SQSlots

(***************************************************************************)
(* The three positions of the buffer, and the two register queues.         *)
(***************************************************************************)
LEMMA Positions ==
  ASSUME TypeInv
  PROVE  /\ head \in Nat /\ head > 0 /\ tail \in Nat /\ next_schedule \in Nat
         /\ head <= next_schedule /\ next_schedule <= tail
         /\ RTE0 \in Seq(Nat) /\ RTE1 \in Seq(Nat)
BY DEF TypeInv

(***************************************************************************)
(* The operands of the instructions of a trace.                            *)
(***************************************************************************)
LEMMA TraceFacts ==
  ASSUME TypeInv
  PROVE  /\ Len(trace) \in Nat /\ DOMAIN trace = 1 .. Len(trace)
         /\ InRob \subseteq DOMAIN trace /\ Scheduled \subseteq InRob
         /\ IsFiniteSet(InRob) /\ IsFiniteSet(Scheduled)
         /\ \A i \in InRob : i \in Nat \ {0}
         /\ \A i \in DOMAIN trace :
              /\ trace[i].mispredicted \in BOOLEAN
              /\ IsFiniteSet(trace[i].reads)
              /\ \A operands \in {trace[i].loads, trace[i].stores} :
                   /\ operands \in Seq(Elements(operands)) /\ IsInjective(operands)
                   /\ Len(operands) \in Nat /\ DOMAIN operands = 1 .. Len(operands)
                   /\ IsFiniteSet(DOMAIN operands)
                   /\ Cardinality(DOMAIN operands) = Len(operands)
              /\ Len(trace[i].stores) <= SQ_SIZE /\ Len(trace[i].stores) <= WQ_SIZE
<1>1. trace \in Traces
  BY DEF TypeInv
<1>2. trace \in Seq(Elements(trace))
  BY <1>1, TraceAssumption
<1>3. Len(trace) \in Nat /\ DOMAIN trace = 1 .. Len(trace)
  BY <1>2
<1>4. InRob \subseteq DOMAIN trace /\ Scheduled \subseteq InRob
  BY <1>3 DEF TypeInv, InRob, Scheduled
<1>5. IsFiniteSet(InRob) /\ IsFiniteSet(Scheduled) /\ \A i \in InRob : i \in Nat \ {0}
  <2>1. head \in Nat \ {0} /\ tail - 1 \in Int /\ next_schedule - 1 \in Int
    BY DEF TypeInv
  <2>2. IsFiniteSet(head .. tail - 1) /\ IsFiniteSet(head .. next_schedule - 1)
    BY <2>1, FS_Interval
  <2> QED
    BY <2>1, <2>2 DEF InRob, Scheduled
<1>6. ASSUME NEW i \in DOMAIN trace, NEW operands \in {trace[i].loads, trace[i].stores}
      PROVE  /\ operands \in Seq(Elements(operands)) /\ IsInjective(operands)
             /\ Len(operands) \in Nat /\ DOMAIN operands = 1 .. Len(operands)
             /\ IsFiniteSet(DOMAIN operands)
             /\ Cardinality(DOMAIN operands) = Len(operands)
  <2>1. operands \in Seq(Elements(operands)) /\ IsInjective(operands)
    BY <1>1, <1>6, TraceAssumption
  <2>2. Len(operands) \in Nat /\ DOMAIN operands = 1 .. Len(operands)
    BY <2>1
  <2>3. IsFiniteSet(1 .. Len(operands)) /\ Cardinality(1 .. Len(operands)) = Len(operands)
    BY <2>2, FS_Interval
  <2> QED
    BY <2>1, <2>2, <2>3
<1>7. ASSUME NEW i \in DOMAIN trace
      PROVE  /\ trace[i].mispredicted \in BOOLEAN /\ IsFiniteSet(trace[i].reads)
             /\ Len(trace[i].stores) <= SQ_SIZE /\ Len(trace[i].stores) <= WQ_SIZE
  BY <1>1, TraceAssumption
<1> QED
  BY <1>3, <1>4, <1>5, <1>6, <1>7

(***************************************************************************)
(* Appending a new element to a list without repetition.                   *)
(***************************************************************************)
LEMMA AppendNew ==
  ASSUME NEW S, NEW list \in Seq(S), NEW x \in S
  PROVE  /\ Append(list, x) \in Seq(S)
         /\ Elements(Append(list, x)) = Elements(list) \cup {x}
         /\ IsInjective(list) /\ x \notin Elements(list) => IsInjective(Append(list, x))
<1>1. /\ Append(list, x) \in Seq(S)
      /\ Len(list) \in Nat /\ DOMAIN list = 1 .. Len(list)
      /\ DOMAIN Append(list, x) = 1 .. Len(list) + 1
      /\ Append(list, x)[Len(list) + 1] = x
      /\ \A n \in 1 .. Len(list) : Append(list, x)[n] = list[n]
  OBVIOUS
<1>2. Elements(Append(list, x)) = Elements(list) \cup {x}
  <2>1. ASSUME NEW y \in Elements(Append(list, x))
        PROVE  y \in Elements(list) \cup {x}
    BY <1>1 DEF Elements
  <2>2. ASSUME NEW y \in Elements(list) \cup {x}
        PROVE  y \in Elements(Append(list, x))
    BY <1>1 DEF Elements
  <2> QED
    BY <2>1, <2>2
<1>3. ASSUME IsInjective(list), x \notin Elements(list)
      PROVE  IsInjective(Append(list, x))
  BY <1>1, <1>3 DEF IsInjective, Elements
<1> QED
  BY <1>1, <1>2, <1>3

(***************************************************************************)
(* Taking the head off a list without repetition.                          *)
(***************************************************************************)
LEMMA TakeHead ==
  ASSUME NEW S, NEW list \in Seq(S), list # << >>, IsInjective(list)
  PROVE  /\ Tail(list) \in Seq(S) /\ IsInjective(Tail(list))
         /\ Head(list) \in S /\ Head(list) \in Elements(list)
         /\ Elements(Tail(list)) = Elements(list) \ {Head(list)}
<1>1. /\ Len(list) \in Nat \ {0} /\ DOMAIN list = 1 .. Len(list)
      /\ Head(list) = list[1] /\ Head(list) \in S
      /\ Tail(list) \in Seq(S) /\ DOMAIN Tail(list) = 1 .. Len(list) - 1
      /\ \A n \in 1 .. Len(list) - 1 : Tail(list)[n] = list[n + 1]
  OBVIOUS
<1>2. IsInjective(Tail(list))
  BY <1>1 DEF IsInjective
<1>3. Elements(Tail(list)) = Elements(list) \ {Head(list)}
  <2>1. ASSUME NEW y \in Elements(Tail(list))
        PROVE  y \in Elements(list) /\ y # Head(list)
    BY <1>1 DEF Elements, IsInjective
  <2>2. ASSUME NEW y \in Elements(list), y # Head(list)
        PROVE  y \in Elements(Tail(list))
    <3>1. PICK n \in DOMAIN list : y = list[n]
      BY DEF Elements
    <3>2. n - 1 \in 1 .. Len(list) - 1 /\ Tail(list)[n - 1] = y
      BY <1>1, <2>2, <3>1
    <3> QED
      BY <1>1, <3>2 DEF Elements
  <2> QED
    BY <2>1, <2>2
<1>4. Head(list) \in Elements(list)
  BY <1>1 DEF Elements
<1> QED
  BY <1>1, <1>2, <1>3, <1>4

(***************************************************************************)
(* The youngest of a nonempty set of instructions is in it, and none of it *)
(* is younger.                                                             *)
(***************************************************************************)
LEMMA YoungestExists ==
  ASSUME NEW S, IsFiniteSet(S), S # {}, S \subseteq Nat
  PROVE  Youngest(S) \in S /\ \A j \in S : j <= Youngest(S)
<1> DEFINE f == [j \in S |-> -j]
<1>1. f \in [S -> Int]
  OBVIOUS
<1>2. PICK i \in S : \A j \in S : f[i] <= f[j]
  <2> HIDE DEF f
  <2> QED
    BY <1>1, LeastValue
<1>3. \A j \in S : j <= i
  BY <1>2
<1> QED
  BY <1>3 DEF Youngest

(***************************************************************************)
(* The youngest of the older stores in the reorder buffer, if there is     *)
(* one, is the one a load has to read: those retired are older still.      *)
(***************************************************************************)
LEMMA ProducerIsSource ==
  ASSUME TypeInv, NEW i \in Scheduled, NEW a
  PROVE  /\ mem_RAW_dependency(i, a) = NoStore <=> StoresTo(a, head .. i - 1) = {}
         /\ mem_RAW_dependency(i, a) # NoStore =>
              /\ mem_RAW_dependency(i, a) \in head .. i - 1
              /\ mem_RAW_dependency(i, a) = Source(i, a)
<1> DEFINE near == StoresTo(a, head .. i - 1)
           all == StoresTo(a, 1 .. i - 1)
<1>1. head \in Nat \ {0} /\ i \in Nat \ {0} /\ head <= i
  BY DEF TypeInv, Scheduled
<1>2. /\ near \subseteq head .. i - 1 /\ all \subseteq 1 .. i - 1 /\ near \subseteq all
      /\ \A j \in all : j >= head => j \in near
  BY <1>1 DEF StoresTo
<1>3. IsFiniteSet(near) /\ IsFiniteSet(all) /\ near \subseteq Nat /\ all \subseteq Nat
  <2>1. IsFiniteSet(1 .. i - 1)
    BY <1>1, FS_Interval
  <2>2. near \subseteq 1 .. i - 1 /\ all \subseteq 1 .. i - 1
    BY <1>2
  <2>3. IsFiniteSet(near) /\ IsFiniteSet(all)
    BY <2>1, <2>2, FS_Subset
  <2> QED
    BY <2>2, <2>3
<1> HIDE DEF near, all
<1>4. ASSUME near # {}
      PROVE  /\ Youngest(near) \in head .. i - 1 /\ all # {}
             /\ Youngest(near) = Youngest(all)
  <2>1. Youngest(near) \in near /\ \A j \in near : j <= Youngest(near)
    BY <1>3, <1>4, YoungestExists
  <2>2. Youngest(all) \in all /\ \A j \in all : j <= Youngest(all)
    BY <1>2, <1>3, <1>4, YoungestExists
  <2>3. /\ Youngest(near) \in Nat /\ Youngest(all) \in Nat
        /\ Youngest(near) <= Youngest(all) /\ head <= Youngest(near)
    <3>1. Youngest(near) \in head .. i - 1 /\ Youngest(all) \in Nat
      BY <1>2, <1>3, <2>1, <2>2
    <3>2. Youngest(near) \in all
      BY <1>2, <2>1
    <3> QED
      BY <1>1, <2>2, <3>1, <3>2
  <2>4. Youngest(all) \in near
    BY <1>1, <1>2, <2>2, <2>3
  <2>5. Youngest(all) <= Youngest(near)
    BY <2>1, <2>4
  <2>6. Youngest(near) = Youngest(all)
    BY <2>3, <2>5
  <2> QED
    BY <1>2, <1>4, <2>1, <2>6
<1>5. mem_RAW_dependency(i, a) = IF near = {} THEN NoStore ELSE Youngest(near)
  BY DEF mem_RAW_dependency, near
<1>6. Source(i, a) = IF all = {} THEN NoStore ELSE Youngest(all)
  BY DEF Source, all
<1>7. near # {} => Youngest(near) # NoStore
  BY <1>1, <1>4 DEF NoStore
<1> QED
  BY <1>4, <1>5, <1>6, <1>7 DEF near

(***************************************************************************)
(* A load without a store to its address before it in the reorder buffer   *)
(* has to read what is in memory.                                          *)
(***************************************************************************)
LEMMA MemoryIsSource ==
  ASSUME TypeInv, NEW i \in Scheduled, NEW a, StoresTo(a, head .. i - 1) = {}
  PROVE  InMemory(a) = Source(i, a)
<1>1. head \in Nat \ {0} /\ i \in Nat \ {0} /\ head <= i
  BY DEF TypeInv, Scheduled
<1>2. StoresTo(a, 1 .. i - 1) = StoresTo(a, 1 .. head - 1)
  BY <1>1 DEF StoresTo
<1> QED
  BY <1>2 DEF InMemory, Source

\* What adding leaves alone in the entries.
SameStages(old, new) ==
  \A j \in DOMAIN trace :
    /\ new[j].scheduled = old[j].scheduled /\ new[j].executed = old[j].executed
    /\ new[j].num_reg_dependent = old[j].num_reg_dependent
    /\ new[j].registers_depend_on_me = old[j].registers_depend_on_me

(***************************************************************************)
(* Where the stages do not change, the registers an instruction waits for  *)
(* do not either, nor what is being executed.                              *)
(***************************************************************************)
LEMMA SameRegisters ==
  ASSUME TypeInv, NEW old, NEW new, SameStages(old, new)
  PROVE  /\ RegistersCounted(old) => RegistersCounted(new)
         /\ Executing(new) = Executing(old)
<1>1. InRob \subseteq DOMAIN trace /\ Scheduled \subseteq InRob
  BY TraceFacts
<1>2. ASSUME NEW i
      PROVE  WaitsFor(new, i) = WaitsFor(old, i)
  BY <1>1 DEF WaitsFor, SameStages
<1>3. RegistersCounted(old) => RegistersCounted(new)
  BY <1>1, <1>2 DEF RegistersCounted, SameStages
<1>4. Executing(new) = Executing(old)
  BY <1>1 DEF Executing, SameStages
<1> QED
  BY <1>3, <1>4

(***************************************************************************)
(* The sets that are counted are finite.                                   *)
(***************************************************************************)
LEMMA CountsAreFinite ==
  ASSUME TypeInv, NEW entries, NEW lq \in Loads, NEW sq \in Stores, NEW i \in InRob
  PROVE  /\ IsFiniteSet(MissingLoads(entries, i)) /\ IsFiniteSet(HeldLoads(lq, i))
         /\ IsFiniteSet(MissingStores(entries, i)) /\ IsFiniteSet(HeldStores(sq, i))
         /\ Cardinality(MissingLoads(entries, i)) \in Nat
         /\ Cardinality(HeldLoads(lq, i)) \in Nat
         /\ Cardinality(MissingStores(entries, i)) \in Nat
         /\ Cardinality(HeldStores(sq, i)) \in Nat
         /\ IsFiniteSet(Finished(entries)) /\ IsFiniteSet(Executing(entries))
<1>1. /\ IsFiniteSet(DOMAIN trace[i].loads) /\ IsFiniteSet(DOMAIN trace[i].stores)
      /\ IsFiniteSet(InRob)
  BY TraceFacts
<1>2. /\ MissingLoads(entries, i) \subseteq DOMAIN trace[i].loads
      /\ MissingStores(entries, i) \subseteq DOMAIN trace[i].stores
  BY DEF MissingLoads, MissingStores
<1>3. HeldLoads(lq, i) \subseteq LQSlots /\ HeldStores(sq, i) \subseteq SQSlots
  BY DEF HeldLoads, HeldStores, Used, Loads, Stores
<1>4. Finished(entries) \subseteq InRob /\ Executing(entries) \subseteq InRob
  BY DEF Finished, Executing
<1>5. /\ IsFiniteSet(MissingLoads(entries, i)) /\ IsFiniteSet(HeldLoads(lq, i))
      /\ IsFiniteSet(MissingStores(entries, i)) /\ IsFiniteSet(HeldStores(sq, i))
      /\ IsFiniteSet(Finished(entries)) /\ IsFiniteSet(Executing(entries))
  BY <1>1, <1>2, <1>3, <1>4, Sizes, FS_Subset
<1> QED
  BY <1>5, FS_CardinalityType

(***************************************************************************)
(* A finite set that is not empty has a positive size.                     *)
(***************************************************************************)
LEMMA PositiveSize ==
  ASSUME NEW S, IsFiniteSet(S), S # {}
  PROVE  Cardinality(S) \in Nat /\ Cardinality(S) > 0
<1>1. Cardinality(S) \in Nat /\ Cardinality(S) # 0
  BY FS_EmptySet, FS_CardinalityType
<1> QED
  BY <1>1

(***************************************************************************)
(* While an operation of an instruction is not done, the instruction       *)
(* counts it.                                                              *)
(***************************************************************************)
LEMMA OperationCounted ==
  ASSUME TypeInv, NEW entries, NEW lq \in Loads, NEW sq \in Stores, NEW i \in InRob,
         Counted(entries, lq, sq),
         \/ MissingLoads(entries, i) # {} \/ HeldLoads(lq, i) # {}
         \/ MissingStores(entries, i) # {} \/ HeldStores(sq, i) # {}
  PROVE  entries[i].num_mem_ops \in Nat /\ entries[i].num_mem_ops > 0
<1>1. /\ MissingLoads(entries, i) # {} => Cardinality(MissingLoads(entries, i)) > 0
      /\ HeldLoads(lq, i) # {} => Cardinality(HeldLoads(lq, i)) > 0
      /\ MissingStores(entries, i) # {} => Cardinality(MissingStores(entries, i)) > 0
      /\ HeldStores(sq, i) # {} => Cardinality(HeldStores(sq, i)) > 0
  BY CountsAreFinite, PositiveSize
<1>2. entries[i].num_mem_ops =
        Cardinality(MissingLoads(entries, i)) + Cardinality(HeldLoads(lq, i))
          + Cardinality(MissingStores(entries, i)) + Cardinality(HeldStores(sq, i))
  BY DEF Counted
<1>3. /\ Cardinality(MissingLoads(entries, i)) \in Nat
      /\ Cardinality(HeldLoads(lq, i)) \in Nat
      /\ Cardinality(MissingStores(entries, i)) \in Nat
      /\ Cardinality(HeldStores(sq, i)) \in Nat
  BY CountsAreFinite
<1> QED
  BY <1>1, <1>2, <1>3

\* The slot add_load_queue takes.
FirstEmpty(lq) == CHOOSE x \in LQSlots \ Used(lq) : \A y \in LQSlots \ Used(lq) : x <= y

(***************************************************************************)
(* An empty load queue slot is found if there is one.                      *)
(***************************************************************************)
LEMMA EmptyLoadSlot ==
  ASSUME NEW lq \in Loads, Cardinality(Used(lq)) < LQ_SIZE
  PROVE  FirstEmpty(lq) \in LQSlots /\ FirstEmpty(lq) \notin Used(lq)
<1> DEFINE free == LQSlots \ Used(lq)
<1>1. Used(lq) \subseteq LQSlots
  BY DEF Used, Loads
<1>2. Used(lq) # LQSlots
  BY Sizes
<1>3. free \in SUBSET Nat /\ free # {}
  <2>1. LQSlots \subseteq Nat
    BY Sizes DEF LQSlots
  <2> QED
    BY <1>1, <1>2, <2>1
<1>4. \E x \in free : \A y \in free : x <= y
  <2> HIDE DEF free
  <2> QED
    BY <1>3, NatLeast
<1> QED
  BY <1>4 DEF FirstEmpty

\* Instruction i has executed a store to the address.
Forwards(sq, i, a) ==
  \E q \in Used(sq) : sq[q].address = a /\ sq[q].instr = i /\ sq[q].fetched

\* What add_load_queue changes.
LoadEffect(s, t, i, n, a, producer, slot) ==
  /\ slot \in LQSlots /\ slot \notin Used(s.LQ)
  /\ AddingType(t)
  /\ SameStages(s.rob, t.rob)
  /\ \A j \in DOMAIN trace :
       /\ j \notin {i, producer} => t.rob[j] = s.rob[j]
       /\ t.rob[j].sq_index = s.rob[j].sq_index
       /\ j # i => t.rob[j].num_mem_ops = s.rob[j].num_mem_ops
       /\ j # producer => t.rob[j].memory_instrs_depend_on_me =
                             s.rob[j].memory_instrs_depend_on_me
       /\ j # i => t.rob[j].lq_index = s.rob[j].lq_index
  /\ DOMAIN t.rob[i].lq_index = DOMAIN s.rob[i].lq_index \cup {n}
  /\ t.rob[i].lq_index[n] = slot
  /\ \A m \in DOMAIN s.rob[i].lq_index \ {n} :
       t.rob[i].lq_index[m] = s.rob[i].lq_index[m]
  /\ producer # NoStore => t.rob[producer].memory_instrs_depend_on_me =
                             s.rob[producer].memory_instrs_depend_on_me \cup {i}
  /\ t.SQ = s.SQ /\ t.SQ_tail = s.SQ_tail /\ t.STA = s.STA /\ t.RTS0 = s.RTS0
  /\ s.rob[i].num_mem_ops \in Nat /\ s.rob[i].num_mem_ops > 0
  /\ Forwards(s.SQ, producer, a) =>
       /\ t.rob[i].num_mem_ops = s.rob[i].num_mem_ops - 1
       /\ t.LQ = s.LQ /\ t.RTL0 = s.RTL0
       /\ t.done = s.done + (IF s.rob[i].num_mem_ops = 1 THEN 1 ELSE 0)
       /\ t.seen = s.seen \cup {<<i, n, producer>>}
  /\ ~Forwards(s.SQ, producer, a) =>
       /\ t.rob[i].num_mem_ops = s.rob[i].num_mem_ops
       /\ t.LQ = [s.LQ EXCEPT ![slot] = [instr |-> i, op |-> n, producer |-> producer]]
       /\ t.RTL0 = IF producer = NoStore THEN Append(s.RTL0, slot) ELSE s.RTL0
       /\ t.done = s.done /\ t.seen = s.seen

(***************************************************************************)
(* What add_load_queue changes: the entries of the instruction and of its  *)
(* producer, and, unless the load is forwarded at once, an empty slot.     *)
(***************************************************************************)
LEMMA LoadAddedFields ==
  ASSUME TypeInv, NEW s, LsqInv(s), NEW i \in Scheduled,
         NEW n \in DOMAIN trace[i].loads, LoadMissing(s, i, n),
         NEW a, a = trace[i].loads[n],
         NEW producer, producer = mem_RAW_dependency(i, a),
         NEW slot, slot = FirstEmpty(s.LQ),
         NEW t, t = add_load_queue(s, i, n)
  PROVE  LoadEffect(s, t, i, n, a, producer, slot)
<1> DEFINE index == [m \in DOMAIN s.rob[i].lq_index \cup {n} |->
                       IF m = n THEN slot ELSE s.rob[i].lq_index[m]]
           added == [s.rob EXCEPT ![i].lq_index = index]
           marked == IF producer = NoStore THEN added
                     ELSE [added EXCEPT ![producer].memory_instrs_depend_on_me = @ \cup {i}]
           load == [instr |-> i, op |-> n, producer |-> producer]
<1>1. AddingType(s)
  BY DEF LsqInv
<1>2. /\ s.rob \in [DOMAIN trace -> Entries] /\ s.LQ \in Loads /\ s.SQ \in Stores
      /\ s.RTL0 \in Seq(LQSlots) /\ s.done \in Nat /\ s.seen \in SUBSET (Nat \X Nat \X Nat)
  BY <1>1 DEF AddingType
<1>3. slot \in LQSlots /\ slot \notin Used(s.LQ)
  BY <1>2, EmptyLoadSlot DEF LoadMissing
<1>4. /\ i \in DOMAIN trace /\ i \in InRob /\ i \in Nat \ {0} /\ n \in Nat
      /\ n \in MissingLoads(s.rob, i)
  BY TraceFacts DEF LoadMissing, MissingLoads
<1>5. /\ producer \in Nat
      /\ producer # NoStore => producer \in DOMAIN trace \ {i}
  <2>1. producer # NoStore => producer \in head .. i - 1
    BY ProducerIsSource
  <2>2. head \in Nat /\ head > 0
    BY Positions
  <2>3. Len(trace) \in Nat /\ DOMAIN trace = 1 .. Len(trace)
    BY TraceFacts
  <2> QED
    BY <2>1, <2>2, <2>3, <1>4 DEF NoStore
<1>6. s.rob[i].num_mem_ops \in Nat /\ s.rob[i].num_mem_ops > 0
  BY <1>2, <1>4, OperationCounted DEF LsqInv
<1>7. t = IF Forwards(s.SQ, producer, a)
          THEN [s EXCEPT !.rob = OpsDone(marked, i, 1),
                         !.done = @ + AllDone(marked, i, 1),
                         !.seen = @ \cup {<<i, n, producer>>}]
          ELSE [s EXCEPT !.rob = marked,
                         !.LQ[slot] = load,
                         !.RTL0 = IF producer = NoStore THEN Append(@, slot) ELSE @]
  BY SMTT(40) DEF add_load_queue, Forwards, FirstEmpty
<1>8. index \in Indices(LQSlots)
  <2>0. s.rob[i].lq_index \in Indices(LQSlots)
    BY <1>2, <1>4 DEF Entries
  <2>1. PICK ops \in SUBSET Nat : s.rob[i].lq_index \in [ops -> LQSlots]
    BY <2>0 DEF Indices
  <2>2. index \in [ops \cup {n} -> LQSlots] /\ ops \cup {n} \in SUBSET Nat
    BY <2>1, <1>3, <1>4
  <2> QED
    BY <2>2 DEF Indices
<1>9. DOMAIN index = DOMAIN s.rob[i].lq_index \cup {n} /\ index[n] = slot
      /\ \A m \in DOMAIN s.rob[i].lq_index \ {n} : index[m] = s.rob[i].lq_index[m]
  OBVIOUS
<1> HIDE DEF index
<1>10. /\ added \in [DOMAIN trace -> Entries]
       /\ added[i].lq_index = index
       /\ \A j \in DOMAIN trace :
            /\ j # i => added[j] = s.rob[j]
            /\ added[j].sq_index = s.rob[j].sq_index
            /\ added[j].num_mem_ops = s.rob[j].num_mem_ops
            /\ added[j].memory_instrs_depend_on_me = s.rob[j].memory_instrs_depend_on_me
       /\ SameStages(s.rob, added)
  BY <1>2, <1>4, <1>8 DEF Entries, SameStages
<1> HIDE DEF added
<1>11. /\ marked \in [DOMAIN trace -> Entries]
       /\ marked[i].lq_index = index
       /\ \A j \in DOMAIN trace :
            /\ j # producer => marked[j] = added[j]
            /\ j # i => marked[j].lq_index = s.rob[j].lq_index
            /\ marked[j].sq_index = s.rob[j].sq_index
            /\ marked[j].num_mem_ops = s.rob[j].num_mem_ops
            /\ j = producer => marked[j].memory_instrs_depend_on_me =
                                 s.rob[j].memory_instrs_depend_on_me \cup {i}
            /\ j # producer => marked[j].memory_instrs_depend_on_me =
                                 s.rob[j].memory_instrs_depend_on_me
       /\ SameStages(s.rob, marked)
  <2>1. CASE producer = NoStore
    <3>1. NoStore \notin DOMAIN trace
      BY TraceFacts DEF NoStore
    <3> QED
      BY <1>10, <2>1, <3>1
  <2>2. CASE producer # NoStore
    <3>1. marked = [added EXCEPT ![producer].memory_instrs_depend_on_me = @ \cup {i}]
      BY <2>2
    <3>2. producer \in DOMAIN trace \ {i}
      BY <1>5, <2>2
    <3> HIDE DEF marked
    <3>3. /\ marked \in [DOMAIN trace -> Entries]
          /\ \A j \in DOMAIN trace :
               /\ j # producer => marked[j] = added[j]
               /\ marked[j].lq_index = added[j].lq_index
               /\ marked[j].sq_index = added[j].sq_index
               /\ marked[j].num_mem_ops = added[j].num_mem_ops
               /\ j = producer => marked[j].memory_instrs_depend_on_me =
                                    added[j].memory_instrs_depend_on_me \cup {i}
               /\ marked[j].scheduled = added[j].scheduled
               /\ marked[j].executed = added[j].executed
               /\ marked[j].num_reg_dependent = added[j].num_reg_dependent
               /\ marked[j].registers_depend_on_me = added[j].registers_depend_on_me
      BY <1>4, <1>10, <3>1, <3>2, SMTT(40) DEF Entries
    <3> QED
      BY <1>4, <1>10, <3>2, <3>3 DEF SameStages
  <2> QED
    BY <2>1, <2>2
<1> HIDE DEF marked
<1>12. CASE Forwards(s.SQ, producer, a)
  <2>1. /\ t.rob = OpsDone(marked, i, 1) /\ t.LQ = s.LQ /\ t.RTL0 = s.RTL0
        /\ t.SQ = s.SQ /\ t.SQ_tail = s.SQ_tail /\ t.STA = s.STA /\ t.RTS0 = s.RTS0
        /\ t.done = s.done + AllDone(marked, i, 1)
        /\ t.seen = s.seen \cup {<<i, n, producer>>}
        /\ t = [rob |-> t.rob, LQ |-> t.LQ, SQ |-> t.SQ, SQ_tail |-> t.SQ_tail,
                STA |-> t.STA, RTL0 |-> t.RTL0, RTS0 |-> t.RTS0, done |-> t.done,
                seen |-> t.seen]
    BY <1>1, <1>7, <1>12 DEF AddingType
  <2>2. AllDone(marked, i, 1) = IF s.rob[i].num_mem_ops = 1 THEN 1 ELSE 0
    BY <1>4, <1>11 DEF AllDone
  <2>3. /\ t.rob \in [DOMAIN trace -> Entries]
        /\ \A j \in DOMAIN trace :
             /\ j # i => t.rob[j] = marked[j]
             /\ t.rob[j].lq_index = marked[j].lq_index
             /\ t.rob[j].sq_index = marked[j].sq_index
             /\ t.rob[j].memory_instrs_depend_on_me = marked[j].memory_instrs_depend_on_me
             /\ j = i => t.rob[j].num_mem_ops = s.rob[j].num_mem_ops - 1
             /\ j # i => t.rob[j].num_mem_ops = s.rob[j].num_mem_ops
             /\ t.rob[j].scheduled = marked[j].scheduled
             /\ t.rob[j].executed = marked[j].executed
             /\ t.rob[j].num_reg_dependent = marked[j].num_reg_dependent
             /\ t.rob[j].registers_depend_on_me = marked[j].registers_depend_on_me
    <3>1. /\ marked[i].num_mem_ops = s.rob[i].num_mem_ops
          /\ s.rob[i].num_mem_ops - 1 \in Nat
      BY <1>4, <1>6, <1>11
    <3>2. t.rob = [marked EXCEPT ![i].num_mem_ops = @ - 1]
      BY <2>1 DEF OpsDone
    <3> QED
      BY <1>4, <1>11, <3>1, <3>2 DEF Entries
  <2>4. AddingType(t)
    <3>1. s.done + (IF s.rob[i].num_mem_ops = 1 THEN 1 ELSE 0) \in Nat
      BY <1>2
    <3>2. <<i, n, producer>> \in Nat \X Nat \X Nat
      BY <1>4, <1>5 DEF NoStore
    <3> QED
      BY <1>1, <1>2, <2>1, <2>2, <2>3, <3>1, <3>2 DEF AddingType
  <2>5. SameStages(s.rob, t.rob)
    BY <1>11, <2>3 DEF SameStages
  <2>6. /\ \A j \in DOMAIN trace :
             /\ j \notin {i, producer} => t.rob[j] = s.rob[j]
             /\ t.rob[j].sq_index = s.rob[j].sq_index
             /\ j # i => t.rob[j].num_mem_ops = s.rob[j].num_mem_ops
             /\ j # producer => t.rob[j].memory_instrs_depend_on_me =
                                  s.rob[j].memory_instrs_depend_on_me
             /\ j # i => t.rob[j].lq_index = s.rob[j].lq_index
        /\ t.rob[i].lq_index = index
        /\ t.rob[i].num_mem_ops = s.rob[i].num_mem_ops - 1
        /\ producer # NoStore => t.rob[producer].memory_instrs_depend_on_me =
                                   s.rob[producer].memory_instrs_depend_on_me \cup {i}
    BY <1>4, <1>5, <1>10, <1>11, <2>3
  <2> QED
    BY <1>3, <1>6, <1>9, <1>12, <2>1, <2>2, <2>4, <2>5, <2>6 DEF LoadEffect
<1>13. CASE ~Forwards(s.SQ, producer, a)
  <2>1. /\ t.rob = marked /\ t.LQ = [s.LQ EXCEPT ![slot] = load]
        /\ t.RTL0 = IF producer = NoStore THEN Append(s.RTL0, slot) ELSE s.RTL0
        /\ t.SQ = s.SQ /\ t.SQ_tail = s.SQ_tail /\ t.STA = s.STA /\ t.RTS0 = s.RTS0
        /\ t.done = s.done /\ t.seen = s.seen
        /\ t = [rob |-> t.rob, LQ |-> t.LQ, SQ |-> t.SQ, SQ_tail |-> t.SQ_tail,
                STA |-> t.STA, RTL0 |-> t.RTL0, RTS0 |-> t.RTS0, done |-> t.done,
                seen |-> t.seen]
    BY <1>1, <1>7, <1>13 DEF AddingType
  <2>2. t.LQ \in Loads
    BY <1>2, <1>3, <1>4, <1>5, <2>1 DEF Loads, NoStore
  <2>3. t.RTL0 \in Seq(LQSlots)
    BY <1>2, <1>3, <2>1, AppendNew
  <2>4. AddingType(t)
    BY <1>1, <1>2, <1>11, <2>1, <2>2, <2>3 DEF AddingType
  <2>5. /\ \A j \in DOMAIN trace :
             /\ j \notin {i, producer} => t.rob[j] = s.rob[j]
             /\ t.rob[j].sq_index = s.rob[j].sq_index
             /\ j # i => t.rob[j].num_mem_ops = s.rob[j].num_mem_ops
             /\ j # producer => t.rob[j].memory_instrs_depend_on_me =
                                  s.rob[j].memory_instrs_depend_on_me
             /\ j # i => t.rob[j].lq_index = s.rob[j].lq_index
        /\ t.rob[i].lq_index = index
        /\ t.rob[i].num_mem_ops = s.rob[i].num_mem_ops
        /\ producer # NoStore => t.rob[producer].memory_instrs_depend_on_me =
                                   s.rob[producer].memory_instrs_depend_on_me \cup {i}
    BY <1>4, <1>5, <1>10, <1>11, <2>1
  <2> QED
    <3>1. SameStages(s.rob, t.rob)
      BY <1>11, <2>1
    <3>2. /\ DOMAIN t.rob[i].lq_index = DOMAIN s.rob[i].lq_index \cup {n}
          /\ t.rob[i].lq_index[n] = slot
          /\ \A m \in DOMAIN s.rob[i].lq_index \ {n} :
               t.rob[i].lq_index[m] = s.rob[i].lq_index[m]
      BY <1>9, <2>5
    <3> QED
      BY <1>3, <1>6, <1>13, <2>1, <2>4, <2>5, <3>1, <3>2 DEF LoadEffect
<1> QED
  BY <1>12, <1>13

(***************************************************************************)
(* Adding a load of an instruction that is not executing preserves the     *)
(* invariant.                                                              *)
(***************************************************************************)
LEMMA LoadAdded ==
  ASSUME TypeInv, NEW s, LsqInv(s), NEW i \in Scheduled, s.rob[i].executed = "no",
         NEW n \in DOMAIN trace[i].loads, LoadMissing(s, i, n),
         NEW t, t = add_load_queue(s, i, n)
  PROVE  LsqInv(t) /\ SameStages(s.rob, t.rob)
<1> DEFINE a == trace[i].loads[n]
           producer == mem_RAW_dependency(i, a)
           slot == FirstEmpty(s.LQ)
           now == Forwards(s.SQ, producer, a)
<1>1. LoadEffect(s, t, i, n, a, producer, slot)
  BY LoadAddedFields
<1>2. /\ AddingType(s) /\ s.rob \in [DOMAIN trace -> Entries]
      /\ s.LQ \in Loads /\ s.SQ \in Stores /\ s.RTL0 \in Seq(LQSlots)
  BY DEF LsqInv, AddingType
<1>3. /\ i \in DOMAIN trace /\ i \in InRob /\ i \in Nat \ {0} /\ n \in Nat
      /\ n \notin DOMAIN s.rob[i].lq_index
      /\ head \in Nat \ {0} /\ next_schedule \in Nat
  <2>1. head \in Nat /\ head > 0 /\ next_schedule \in Nat
    BY Positions
  <2>2. i \in DOMAIN trace /\ i \in InRob /\ i \in Nat \ {0}
    BY TraceFacts DEF LoadMissing
  <2>3. n \in DOMAIN trace[i].loads /\ n \notin DOMAIN s.rob[i].lq_index
    BY DEF LoadMissing, MissingLoads
  <2>4. n \in Nat
    BY <2>2, <2>3, TraceFacts
  <2> QED
    BY <2>1, <2>2, <2>3, <2>4
<1>4. /\ producer = NoStore => StoresTo(a, head .. i - 1) = {}
      /\ producer # NoStore => /\ producer \in Scheduled /\ producer \in DOMAIN trace
                               /\ producer # i /\ i \in producer + 1 .. next_schedule - 1
                               /\ producer = Source(i, a)
  <2>1. producer # NoStore => producer \in head .. i - 1 /\ producer = Source(i, a)
    BY ProducerIsSource
  <2>2. producer = NoStore => StoresTo(a, head .. i - 1) = {}
    BY ProducerIsSource
  <2> HIDE DEF producer, a
  <2>3. ASSUME producer # NoStore
        PROVE  /\ producer \in Scheduled /\ producer # i
               /\ i \in producer + 1 .. next_schedule - 1
    BY <2>1, <2>3, <1>3 DEF Scheduled
  <2>4. ASSUME producer # NoStore
        PROVE  producer \in DOMAIN trace
    BY <2>3, <2>4, TraceFacts
  <2> QED
    BY <2>1, <2>2, <2>3, <2>4
<1> HIDE DEF a, producer, slot, now
<1>5. SameStages(s.rob, t.rob) /\ AddingType(t)
  BY <1>1 DEF LoadEffect
<1>6. Progress(t.rob)
  <2>1. ASSUME NEW j \in DOMAIN trace
        PROVE  ProgressOf(j, s.rob[j])
    BY DEF LsqInv, Progress
  <2>2. ASSUME NEW j \in DOMAIN trace \ {i, producer}
        PROVE  ProgressOf(j, t.rob[j])
    <3>1. t.rob[j] = s.rob[j]
      BY <1>1 DEF LoadEffect
    <3> QED
      BY <2>1, <3>1
  <2>3. ProgressOf(i, t.rob[i])
    <3>1. /\ DOMAIN t.rob[i].lq_index = DOMAIN s.rob[i].lq_index \cup {n}
          /\ t.rob[i].sq_index = s.rob[i].sq_index
      BY <1>1, <1>3 DEF LoadEffect
    <3>2. t.rob[i].memory_instrs_depend_on_me = s.rob[i].memory_instrs_depend_on_me
      BY <1>1, <1>3, <1>4, TraceFacts DEF LoadEffect, NoStore
    <3> QED
      BY <1>3, <1>5, <2>1, <3>1, <3>2 DEF ProgressOf, SameStages
  <2>4. ASSUME producer # NoStore
        PROVE  ProgressOf(producer, t.rob[producer])
    <3>1. /\ t.rob[producer].lq_index = s.rob[producer].lq_index
          /\ t.rob[producer].sq_index = s.rob[producer].sq_index
          /\ t.rob[producer].num_mem_ops = s.rob[producer].num_mem_ops
          /\ t.rob[producer].memory_instrs_depend_on_me =
               s.rob[producer].memory_instrs_depend_on_me \cup {i}
      BY <1>1, <1>4, <2>4 DEF LoadEffect
    <3>2. producer \in InRob
      BY <1>4, <2>4, TraceFacts
    <3> QED
      BY <1>4, <1>5, <2>1, <2>4, <3>1, <3>2 DEF ProgressOf, SameStages
  <2>5. NoStore \notin DOMAIN trace
    BY TraceFacts DEF NoStore
  <2> QED
    BY <2>2, <2>3, <2>4, <2>5 DEF Progress
<1>7. LoadsHeld(t.rob, t.LQ, t.SQ)
  <2>1. ASSUME NEW x \in Used(s.LQ)
        PROVE  LoadHeld(x, s.LQ[x], t.rob, t.SQ)
    <3>1. LoadHeld(x, s.LQ[x], s.rob, s.SQ)
      BY DEF LsqInv, LoadsHeld
    <3> DEFINE e == s.LQ[x]
    <3>2. /\ e.instr \in Scheduled /\ e.op \in DOMAIN s.rob[e.instr].lq_index
          /\ s.rob[e.instr].lq_index[e.op] = x
          /\ e.producer # NoStore =>
               /\ e.producer \in Scheduled
               /\ e.instr \in s.rob[e.producer].memory_instrs_depend_on_me
      BY <3>1 DEF LoadHeld
    <3>3. e.op \in DOMAIN t.rob[e.instr].lq_index /\ t.rob[e.instr].lq_index[e.op] = x
      <4>1. CASE e.instr = i
        <5>1. e.op # n
          BY <1>3, <3>2, <4>1
        <5> QED
          BY <1>1, <3>2, <4>1, <5>1 DEF LoadEffect
      <4>2. CASE e.instr # i
        <5>1. e.instr \in DOMAIN trace
          BY <3>2, TraceFacts
        <5>2. t.rob[e.instr].lq_index = s.rob[e.instr].lq_index
          BY <1>1, <4>2, <5>1 DEF LoadEffect
        <5> QED
          BY <3>2, <5>2
      <4> QED
        BY <4>1, <4>2
    <3>4. e.producer # NoStore => e.instr \in t.rob[e.producer].memory_instrs_depend_on_me
      BY <1>1, <3>2, TraceFacts DEF LoadEffect
    <3>5. t.SQ = s.SQ
      BY <1>1 DEF LoadEffect
    <3> QED
      BY <3>1, <3>3, <3>4, <3>5 DEF LoadHeld
  <2>2. CASE now
    BY <1>1, <2>1, <2>2 DEF LoadEffect, LoadsHeld, now
  <2>3. CASE ~now
    <3>1. t.LQ = [s.LQ EXCEPT ![slot] = [instr |-> i, op |-> n, producer |-> producer]]
      BY <1>1, <2>3 DEF LoadEffect, now
    <3>2. LoadHeld(slot, [instr |-> i, op |-> n, producer |-> producer], t.rob, t.SQ)
      <4>1. /\ n \in DOMAIN t.rob[i].lq_index /\ t.rob[i].lq_index[n] = slot
            /\ producer # NoStore => i \in t.rob[producer].memory_instrs_depend_on_me
        BY <1>1 DEF LoadEffect
      <4>2. t.SQ = s.SQ
        BY <1>1 DEF LoadEffect
      <4>3. \A q \in Used(s.SQ) : s.SQ[q].instr = producer /\ s.SQ[q].address = a
                                    => ~s.SQ[q].fetched
        BY <2>3 DEF now, Forwards
      <4> QED
        BY <1>4, <4>1, <4>2, <4>3 DEF LoadHeld, a
    <3>3. ASSUME NEW x \in Used(t.LQ)
          PROVE  LoadHeld(x, t.LQ[x], t.rob, t.SQ)
      <4>1. CASE x = slot
        BY <1>1, <1>2, <3>1, <3>2, <4>1 DEF LoadEffect, Loads
      <4>2. CASE x # slot
        <5>1. x \in Used(s.LQ) /\ t.LQ[x] = s.LQ[x]
          BY <1>1, <1>2, <3>1, <4>2 DEF LoadEffect, Loads, Used
        <5> QED
          BY <2>1, <5>1
      <4> QED
        BY <4>1, <4>2
    <3> QED
      BY <3>3 DEF LoadsHeld
  <2> QED
    BY <2>2, <2>3
<1>8. StoresHeld(t.rob, t.SQ)
  <2>1. /\ t.SQ = s.SQ /\ \A j \in DOMAIN trace : t.rob[j].sq_index = s.rob[j].sq_index
    BY <1>1 DEF LoadEffect
  <2>2. StoresHeld(s.rob, s.SQ)
    BY DEF LsqInv
  <2>3. ASSUME NEW x \in Used(t.SQ)
        PROVE  /\ t.SQ[x].instr \in Scheduled
               /\ x \in Elements(t.rob[t.SQ[x].instr].sq_index)
    <3>1. s.SQ[x].instr \in Scheduled /\ x \in Elements(s.rob[s.SQ[x].instr].sq_index)
      BY <2>1, <2>2 DEF StoresHeld
    <3>2. s.SQ[x].instr \in DOMAIN trace
      BY <3>1, TraceFacts
    <3> QED
      BY <2>1, <3>1, <3>2
  <2> QED
    BY <2>1, <2>2, <2>3, SMTT(40) DEF StoresHeld
<1>9. /\ InOrder(t.SQ, t.SQ_tail, t.STA) /\ StoresTracked(t.SQ, t.RTS0)
  BY <1>1 DEF LoadEffect, LsqInv
<1>10. /\ \A x \in Used(s.LQ) : x \in Used(t.LQ) /\ t.LQ[x] = s.LQ[x]
       /\ now => t.LQ = s.LQ
       /\ ~now => Used(t.LQ) = Used(s.LQ) \cup {slot}
       /\ ~now => /\ t.LQ[slot].producer = producer /\ t.LQ[slot].instr = i
       /\ slot \notin Used(s.LQ) /\ slot \in LQSlots
  <2>1. CASE now
    BY <1>1, <2>1 DEF LoadEffect, now
  <2>2. CASE ~now
    <3>1. /\ t.LQ = [s.LQ EXCEPT ![slot] = [instr |-> i, op |-> n, producer |-> producer]]
          /\ slot \in LQSlots /\ slot \notin Used(s.LQ)
      BY <1>1, <2>2 DEF LoadEffect, now
    <3>2. [instr |-> i, op |-> n, producer |-> producer] # NoEntry
      BY <1>3 DEF NoEntry
    <3> QED
      BY <1>2, <2>2, <3>1, <3>2 DEF Loads, Used
  <2> QED
    BY <2>1, <2>2
<1>11. LoadsTracked(t.LQ, t.RTL0)
  <2>1. CASE now \/ producer # NoStore
    <3>1. t.RTL0 = s.RTL0
      BY <1>1, <2>1 DEF LoadEffect, now
    <3>2. {x \in Used(t.LQ) : t.LQ[x].producer = NoStore} =
            {x \in Used(s.LQ) : s.LQ[x].producer = NoStore}
      BY <1>10, <2>1
    <3> QED
      BY <3>1, <3>2 DEF LsqInv, LoadsTracked
  <2>2. CASE ~now /\ producer = NoStore
    <3>1. t.RTL0 = Append(s.RTL0, slot)
      BY <1>1, <2>2 DEF LoadEffect, now
    <3>2. {x \in Used(t.LQ) : t.LQ[x].producer = NoStore} =
            {x \in Used(s.LQ) : s.LQ[x].producer = NoStore} \cup {slot}
      BY <1>10, <2>2
    <3>3. slot \notin {x \in Used(s.LQ) : s.LQ[x].producer = NoStore}
      BY <1>10
    <3>4. slot \notin Elements(s.RTL0)
      BY <3>3 DEF LsqInv, LoadsTracked
    <3>5. Elements(t.RTL0) = Elements(s.RTL0) \cup {slot} /\ IsInjective(t.RTL0)
      BY <1>2, <1>10, <3>1, <3>4, AppendNew DEF LsqInv, LoadsTracked
    <3> QED
      BY <3>2, <3>3, <3>5 DEF LsqInv, LoadsTracked
  <2> QED
    BY <2>1, <2>2
<1>12. RequestsNamed(t.LQ, t.SQ)
  <2>1. ASSUME NEW r \in DTLB \cup L1D, r.queue = "LQ"
        PROVE  t.LQ[r.slot] = s.LQ[r.slot]
    <3>1. r.slot \in Requests(DTLB, "LQ") \cup Requests(L1D, "LQ")
      BY <2>1 DEF Requests
    <3>2. r.slot \in Used(s.LQ)
      BY <3>1 DEF LsqInv, LoadsTracked
    <3> QED
      BY <1>10, <3>2
  <2>2. t.SQ = s.SQ
    BY <1>1 DEF LoadEffect
  <2> QED
    BY <2>1, <2>2 DEF LsqInv, RequestsNamed
<1>13. Counted(t.rob, t.LQ, t.SQ)
  <2>1. ASSUME NEW j \in InRob, j # i
        PROVE  /\ MissingLoads(t.rob, j) = MissingLoads(s.rob, j)
               /\ HeldLoads(t.LQ, j) = HeldLoads(s.LQ, j)
               /\ t.rob[j].num_mem_ops = s.rob[j].num_mem_ops
    <3>1. j \in DOMAIN trace
      BY TraceFacts
    <3>2. /\ t.rob[j].lq_index = s.rob[j].lq_index
          /\ t.rob[j].num_mem_ops = s.rob[j].num_mem_ops
      BY <1>1, <2>1, <3>1 DEF LoadEffect
    <3>3. HeldLoads(t.LQ, j) = HeldLoads(s.LQ, j)
      BY <1>10, <2>1 DEF HeldLoads
    <3> QED
      BY <3>2, <3>3 DEF MissingLoads
  <2>2. ASSUME NEW j \in InRob
        PROVE  /\ MissingStores(t.rob, j) = MissingStores(s.rob, j)
               /\ HeldStores(t.SQ, j) = HeldStores(s.SQ, j)
    <3>1. t.SQ = s.SQ /\ t.rob[j].sq_index = s.rob[j].sq_index
      BY <1>1, TraceFacts DEF LoadEffect
    <3> QED
      BY <3>1 DEF MissingStores
  <2>3. /\ MissingLoads(t.rob, i) = MissingLoads(s.rob, i) \ {n}
        /\ n \in MissingLoads(s.rob, i)
    BY <1>1, <1>3 DEF LoadEffect, MissingLoads
  <2>4. Cardinality(MissingLoads(t.rob, i)) = Cardinality(MissingLoads(s.rob, i)) - 1
    <3>1. IsFiniteSet(MissingLoads(s.rob, i))
      BY <1>2, <1>3, CountsAreFinite
    <3> QED
      BY <2>3, <3>1, FS_RemoveElement
  <2>5. s.rob[i].num_mem_ops =
          Cardinality(MissingLoads(s.rob, i)) + Cardinality(HeldLoads(s.LQ, i))
            + Cardinality(MissingStores(s.rob, i)) + Cardinality(HeldStores(s.SQ, i))
    BY <1>3 DEF LsqInv, Counted
  <2>6. /\ Cardinality(MissingLoads(s.rob, i)) \in Nat
        /\ Cardinality(HeldLoads(s.LQ, i)) \in Nat
        /\ Cardinality(MissingStores(s.rob, i)) \in Nat
        /\ Cardinality(HeldStores(s.SQ, i)) \in Nat
    BY <1>2, <1>3, CountsAreFinite
  <2>7. CASE now
    <3>1. HeldLoads(t.LQ, i) = HeldLoads(s.LQ, i)
      BY <1>10, <2>7
    <3>2. t.rob[i].num_mem_ops = s.rob[i].num_mem_ops - 1
      BY <1>1, <2>7 DEF LoadEffect, now
    <3>3. t.rob[i].num_mem_ops =
            Cardinality(MissingLoads(t.rob, i)) + Cardinality(HeldLoads(t.LQ, i))
              + Cardinality(MissingStores(t.rob, i)) + Cardinality(HeldStores(t.SQ, i))
      BY <1>3, <2>2, <2>4, <2>5, <2>6, <3>1, <3>2
    <3> QED
      BY <2>1, <2>2, <3>3 DEF LsqInv, Counted
  <2>8. CASE ~now
    <3>1. HeldLoads(t.LQ, i) = HeldLoads(s.LQ, i) \cup {slot} /\ slot \notin HeldLoads(s.LQ, i)
      BY <1>10, <2>8 DEF HeldLoads
    <3>2. Cardinality(HeldLoads(t.LQ, i)) = Cardinality(HeldLoads(s.LQ, i)) + 1
      BY <1>2, <1>3, <3>1, CountsAreFinite, FS_AddElement
    <3>3. t.rob[i].num_mem_ops = s.rob[i].num_mem_ops
      BY <1>1, <2>8 DEF LoadEffect, now
    <3>4. t.rob[i].num_mem_ops =
            Cardinality(MissingLoads(t.rob, i)) + Cardinality(HeldLoads(t.LQ, i))
              + Cardinality(MissingStores(t.rob, i)) + Cardinality(HeldStores(t.SQ, i))
      BY <1>3, <2>2, <2>4, <2>5, <2>6, <3>2, <3>3
    <3> QED
      BY <2>1, <2>2, <3>4 DEF LsqInv, Counted
  <2> QED
    BY <2>7, <2>8
<1>14. t.done = Cardinality(Finished(t.rob))
  <2>1. s.done = Cardinality(Finished(s.rob)) /\ s.rob[i].num_mem_ops \in Nat \ {0}
    BY <1>1 DEF LsqInv, LoadEffect
  <2>2. is_memory(i)
    <3>1. trace[i].loads # << >>
      BY <1>3, TraceFacts
    <3> QED
      BY <3>1 DEF is_memory
  <2>3. ASSUME NEW j \in InRob \ {i}
        PROVE  j \in Finished(t.rob) <=> j \in Finished(s.rob)
    <3>1. j \in DOMAIN trace
      BY TraceFacts
    <3>2. /\ t.rob[j].num_mem_ops = s.rob[j].num_mem_ops
          /\ t.rob[j].executed = s.rob[j].executed
      BY <1>1, <1>5, <3>1 DEF LoadEffect, SameStages
    <3> QED
      BY <3>2 DEF Finished
  <2>4. i \notin Finished(s.rob)
    BY <2>1 DEF Finished
  <2>5. i \in Finished(t.rob) <=> t.rob[i].num_mem_ops = 0
    BY <1>3, <1>5, <2>2 DEF Finished, SameStages
  <2>6. CASE now /\ s.rob[i].num_mem_ops = 1
    <3>1. t.rob[i].num_mem_ops = 0 /\ t.done = s.done + 1
      BY <1>1, <2>6 DEF LoadEffect, now
    <3>2. Finished(t.rob) = Finished(s.rob) \cup {i}
      BY <1>3, <2>3, <2>5, <3>1 DEF Finished
    <3> QED
      <4>1. IsFiniteSet(Finished(s.rob))
        BY <1>2, <1>3, CountsAreFinite
      <4>2. Cardinality(Finished(t.rob)) = Cardinality(Finished(s.rob)) + 1
        BY <2>4, <3>2, <4>1, FS_AddElement
      <4> QED
        BY <2>1, <3>1, <4>2
  <2>7. CASE ~(now /\ s.rob[i].num_mem_ops = 1)
    <3>1. t.rob[i].num_mem_ops # 0 /\ t.done = s.done
      BY <1>1, <2>1, <2>7 DEF LoadEffect, LsqInv, AddingType, now
    <3>2. Finished(t.rob) = Finished(s.rob)
      BY <2>3, <2>4, <2>5, <3>1 DEF Finished
    <3> QED
      BY <2>1, <3>1, <3>2
  <2> QED
    BY <2>6, <2>7
<1>15. RegistersCounted(t.rob)
  BY <1>5, SameRegisters DEF LsqInv
<1>16. RightlySeen(t.seen)
  <2>1. CASE now
    <3>1. t.seen = s.seen \cup {<<i, n, producer>>}
      BY <1>1, <2>1 DEF LoadEffect, now
    <3>2. producer = Source(i, a)
      <4>1. PICK q \in Used(s.SQ) : s.SQ[q].instr = producer
        BY <2>1 DEF now, Forwards
      <4>2. producer \in Scheduled
        BY <4>1 DEF LsqInv, StoresHeld
      <4>3. producer # NoStore
        BY <4>2, TraceFacts DEF NoStore
      <4> QED
        BY <1>4, <4>3
    <3> QED
      BY <3>1, <3>2 DEF LsqInv, RightlySeen, a
  <2>2. CASE ~now
    BY <1>1, <2>2 DEF LoadEffect, LsqInv, now
  <2> QED
    BY <2>1, <2>2
<1> QED
  BY <1>5, <1>6, <1>7, <1>8, <1>9, <1>11, <1>12, <1>13, <1>14, <1>15, <1>16 DEF LsqInv

(***************************************************************************)
(* Every slot but the one at the tail gets a slot older when a store is    *)
(* added there.                                                            *)
(***************************************************************************)
LEMMA AgeGrows ==
  ASSUME NEW sq_tail \in SQSlots, NEW new, new = IF sq_tail + 1 = SQ_SIZE THEN 0 ELSE sq_tail + 1
  PROVE  /\ new \in SQSlots
         /\ Age(sq_tail, sq_tail) = SQ_SIZE /\ Age(new, sq_tail) = 1
         /\ \A p \in SQSlots \ {sq_tail} :
              /\ Age(sq_tail, p) \in 1 .. SQ_SIZE - 1
              /\ Age(new, p) = Age(sq_tail, p) + 1
<1>1. SQ_SIZE \in Nat \ {0} /\ sq_tail \in 0 .. SQ_SIZE - 1
  BY Sizes DEF SQSlots
<1>2. new \in SQSlots
  BY <1>1 DEF SQSlots
<1>3. Age(sq_tail, sq_tail) = SQ_SIZE
  BY <1>1 DEF Age
<1>4. Age(new, sq_tail) = 1
  BY <1>1 DEF Age
<1>5. ASSUME NEW p \in SQSlots \ {sq_tail}
      PROVE  /\ Age(sq_tail, p) \in 1 .. SQ_SIZE - 1
             /\ Age(new, p) = Age(sq_tail, p) + 1
  <2>1. p \in 0 .. SQ_SIZE - 1 /\ p # sq_tail
    BY DEF SQSlots
  <2>2. Age(sq_tail, p) \in 1 .. SQ_SIZE - 1
    BY <1>1, <2>1 DEF Age
  <2>3. Age(new, p) = Age(sq_tail, p) + 1
    BY <1>1, <2>1 DEF Age
  <2> QED
    BY <2>2, <2>3
<1> QED
  BY <1>2, <1>3, <1>4, <1>5

(***************************************************************************)
(* If the store queue is not full, the slot at its tail is empty.          *)
(***************************************************************************)
LEMMA TailSlotEmpty ==
  ASSUME NEW sq \in Stores, NEW sq_tail \in SQSlots, NEW sta, InOrder(sq, sq_tail, sta),
         Cardinality(Used(sq)) < SQ_SIZE
  PROVE  sq_tail \notin Used(sq)
<1> SUFFICES ASSUME sq_tail \in Used(sq)
             PROVE  FALSE
  OBVIOUS
<1>1. ASSUME NEW p \in SQSlots
      PROVE  p \in Used(sq)
  <2>1. CASE p = sq_tail
    BY <2>1
  <2>2. CASE p # sq_tail
    <3>1. Age(sq_tail, p) < Age(sq_tail, sq_tail)
      BY <2>2, AgeGrows, Sizes
    <3> QED
      BY <3>1 DEF InOrder
  <2> QED
    BY <2>1, <2>2
<1>2. Used(sq) = SQSlots
  BY <1>1 DEF Used, Stores
<1> QED
  BY <1>2, Sizes

\* What add_store_queue changes.
StoreEffect(s, t, i, n) ==
  /\ s.SQ_tail \in SQSlots /\ s.SQ_tail \notin Used(s.SQ)
  /\ AddingType(t)
  /\ SameStages(s.rob, t.rob)
  /\ \A j \in DOMAIN trace :
       /\ j # i => t.rob[j] = s.rob[j]
       /\ t.rob[j].lq_index = s.rob[j].lq_index
       /\ t.rob[j].num_mem_ops = s.rob[j].num_mem_ops
       /\ t.rob[j].memory_instrs_depend_on_me = s.rob[j].memory_instrs_depend_on_me
  /\ DOMAIN t.rob[i].sq_index = DOMAIN s.rob[i].sq_index \cup {n}
  /\ t.rob[i].sq_index[n] = s.SQ_tail
  /\ \A m \in DOMAIN s.rob[i].sq_index \ {n} :
       t.rob[i].sq_index[m] = s.rob[i].sq_index[m]
  /\ t.SQ = [s.SQ EXCEPT ![s.SQ_tail] = [instr |-> i, address |-> trace[i].stores[n],
                                         fetched |-> FALSE]]
  /\ t.SQ_tail = IF s.SQ_tail + 1 = SQ_SIZE THEN 0 ELSE s.SQ_tail + 1
  /\ s.STA # << >> /\ Head(s.STA) = i /\ t.STA = Tail(s.STA)
  /\ t.RTS0 = Append(s.RTS0, s.SQ_tail)
  /\ t.LQ = s.LQ /\ t.RTL0 = s.RTL0 /\ t.done = s.done /\ t.seen = s.seen

(***************************************************************************)
(* add_store_queue changes the slot at the tail and the indices of the     *)
(* instruction.                                                            *)
(***************************************************************************)
LEMMA StoreAddedFields ==
  ASSUME TypeInv, NEW s, LsqInv(s), NEW i \in Scheduled,
         NEW n \in DOMAIN trace[i].stores, StoreMissing(s, i, n),
         NEW t, t = add_store_queue(s, i, n)
  PROVE  StoreEffect(s, t, i, n)
<1> DEFINE index == [m \in DOMAIN s.rob[i].sq_index \cup {n} |->
                       IF m = n THEN s.SQ_tail ELSE s.rob[i].sq_index[m]]
           store == [instr |-> i, address |-> trace[i].stores[n], fetched |-> FALSE]
<1>1. AddingType(s) /\ InOrder(s.SQ, s.SQ_tail, s.STA)
  BY DEF LsqInv
<1>2. /\ s.rob \in [DOMAIN trace -> Entries] /\ s.LQ \in Loads /\ s.SQ \in Stores
      /\ s.RTS0 \in Seq(SQSlots) /\ s.STA \in Seq(Nat) /\ s.SQ_tail \in SQSlots
  BY <1>1 DEF AddingType
<1>3. /\ Cardinality(Used(s.SQ)) < SQ_SIZE /\ s.STA # << >> /\ Head(s.STA) = i
      /\ n \notin DOMAIN s.rob[i].sq_index
  BY DEF StoreMissing
<1>4. i \in DOMAIN trace /\ i \in InRob /\ i \in Nat \ {0} /\ n \in Nat
  BY TraceFacts
<1>5. s.SQ_tail \notin Used(s.SQ)
  BY <1>1, <1>2, <1>3, TailSlotEmpty
<1>6. index \in Indices(SQSlots)
  <2>1. s.rob[i].sq_index \in Indices(SQSlots)
    BY <1>2, <1>4 DEF Entries
  <2>2. PICK ops \in SUBSET Nat : s.rob[i].sq_index \in [ops -> SQSlots]
    BY <2>1 DEF Indices
  <2>3. index \in [ops \cup {n} -> SQSlots] /\ ops \cup {n} \in SUBSET Nat
    BY <2>2, <1>2, <1>4
  <2> QED
    BY <2>3 DEF Indices
<1>7. DOMAIN index = DOMAIN s.rob[i].sq_index \cup {n} /\ index[n] = s.SQ_tail
      /\ \A m \in DOMAIN s.rob[i].sq_index \ {n} : index[m] = s.rob[i].sq_index[m]
  OBVIOUS
<1> HIDE DEF index
<1>8. /\ t.rob = [s.rob EXCEPT ![i].sq_index = index]
      /\ t.SQ = [s.SQ EXCEPT ![s.SQ_tail] = store]
      /\ t.SQ_tail = IF s.SQ_tail + 1 = SQ_SIZE THEN 0 ELSE s.SQ_tail + 1
      /\ t.STA = Tail(s.STA) /\ t.RTS0 = Append(s.RTS0, s.SQ_tail)
      /\ t.LQ = s.LQ /\ t.RTL0 = s.RTL0 /\ t.done = s.done /\ t.seen = s.seen
      /\ t = [rob |-> t.rob, LQ |-> t.LQ, SQ |-> t.SQ, SQ_tail |-> t.SQ_tail,
              STA |-> t.STA, RTL0 |-> t.RTL0, RTS0 |-> t.RTS0, done |-> t.done,
              seen |-> t.seen]
  BY <1>1 DEF AddingType, add_store_queue, index
<1>9. /\ t.rob \in [DOMAIN trace -> Entries]
      /\ t.rob[i].sq_index = index
      /\ \A j \in DOMAIN trace :
           /\ j # i => t.rob[j] = s.rob[j]
           /\ t.rob[j].lq_index = s.rob[j].lq_index
           /\ t.rob[j].num_mem_ops = s.rob[j].num_mem_ops
           /\ t.rob[j].memory_instrs_depend_on_me = s.rob[j].memory_instrs_depend_on_me
      /\ SameStages(s.rob, t.rob)
  <2>1. t.rob \in [DOMAIN trace -> Entries]
    <3>1. ASSUME NEW e \in Entries
          PROVE  [e EXCEPT !.sq_index = index] \in Entries
      BY <1>6 DEF Entries
    <3>2. t.rob = [s.rob EXCEPT ![i] = [s.rob[i] EXCEPT !.sq_index = index]]
      BY <1>2, <1>4, <1>8
    <3> QED
      BY <1>2, <1>4, <3>1, <3>2
  <2>2. t.rob[i] = [s.rob[i] EXCEPT !.sq_index = index] /\ s.rob[i] \in Entries
    BY <1>2, <1>4, <1>8
  <2>3. \A j \in DOMAIN trace : j # i => t.rob[j] = s.rob[j]
    BY <1>2, <1>8
  <2>4. /\ t.rob[i].sq_index = index
        /\ t.rob[i].lq_index = s.rob[i].lq_index
        /\ t.rob[i].num_mem_ops = s.rob[i].num_mem_ops
        /\ t.rob[i].memory_instrs_depend_on_me = s.rob[i].memory_instrs_depend_on_me
        /\ t.rob[i].scheduled = s.rob[i].scheduled /\ t.rob[i].executed = s.rob[i].executed
        /\ t.rob[i].num_reg_dependent = s.rob[i].num_reg_dependent
        /\ t.rob[i].registers_depend_on_me = s.rob[i].registers_depend_on_me
    BY <2>2 DEF Entries
  <2>5. SameStages(s.rob, t.rob)
    BY <2>3, <2>4 DEF SameStages
  <2> QED
    BY <2>1, <2>3, <2>4, <2>5
<1>10. t.SQ \in Stores
  <2>1. trace[i].stores[n] \in AllAddresses
    BY <1>4 DEF AllAddresses, Elements
  <2>2. store \in [instr : Nat, address : AllAddresses, fetched : BOOLEAN]
    BY <1>4, <2>1
  <2> HIDE DEF store
  <2> QED
    BY <1>2, <1>8, <2>2 DEF Stores
<1>11. t.RTS0 \in Seq(SQSlots) /\ t.STA \in Seq(Nat) /\ t.SQ_tail \in SQSlots
  <2>1. t.RTS0 \in Seq(SQSlots)
    BY <1>2, <1>8, AppendNew
  <2>2. t.STA \in Seq(Nat)
    BY <1>2, <1>3, <1>8
  <2>3. t.SQ_tail \in SQSlots
    BY <1>2, <1>8, AgeGrows
  <2> QED
    BY <2>1, <2>2, <2>3
<1>12. AddingType(t)
  BY <1>1, <1>2, <1>8, <1>9, <1>10, <1>11 DEF AddingType
<1> QED
  BY <1>2, <1>3, <1>5, <1>7, <1>8, <1>9, <1>12 DEF StoreEffect

(***************************************************************************)
(* Adding a store of an instruction preserves the invariant.               *)
(***************************************************************************)
LEMMA StoreAdded ==
  ASSUME TypeInv, NEW s, LsqInv(s), NEW i \in Scheduled,
         NEW n \in DOMAIN trace[i].stores, StoreMissing(s, i, n),
         NEW t, t = add_store_queue(s, i, n)
  PROVE  LsqInv(t) /\ SameStages(s.rob, t.rob)
<1> DEFINE slot == s.SQ_tail
           store == [instr |-> i, address |-> trace[i].stores[n], fetched |-> FALSE]
<1>1. StoreEffect(s, t, i, n)
  BY StoreAddedFields
<1>2. /\ AddingType(s) /\ s.rob \in [DOMAIN trace -> Entries]
      /\ s.LQ \in Loads /\ s.SQ \in Stores /\ s.RTS0 \in Seq(SQSlots)
      /\ s.STA \in Seq(Nat) /\ slot \in SQSlots
  BY DEF LsqInv, AddingType
<1>3. /\ i \in DOMAIN trace /\ i \in InRob /\ i \in Nat \ {0} /\ n \in Nat
      /\ n \notin DOMAIN s.rob[i].sq_index
  BY TraceFacts DEF StoreMissing
<1>4. SameStages(s.rob, t.rob) /\ AddingType(t)
  BY <1>1 DEF StoreEffect
<1>5. /\ Used(t.SQ) = Used(s.SQ) \cup {slot} /\ slot \notin Used(s.SQ)
      /\ \A x \in Used(s.SQ) : t.SQ[x] = s.SQ[x]
      /\ t.SQ[slot] = store
  <2>1. t.SQ = [s.SQ EXCEPT ![slot] = store] /\ slot \notin Used(s.SQ)
    BY <1>1 DEF StoreEffect
  <2>2. store # NoEntry
    BY <1>3 DEF NoEntry
  <2> HIDE DEF store, slot
  <2> QED
    BY <1>2, <2>1, <2>2 DEF Stores, Used
<1>6. /\ store.instr = i /\ store.address = trace[i].stores[n] /\ ~store.fetched
  OBVIOUS
<1>7. /\ \A j \in DOMAIN trace : t.rob[j].lq_index = s.rob[j].lq_index
      /\ \A j \in DOMAIN trace : t.rob[j].num_mem_ops = s.rob[j].num_mem_ops
      /\ \A j \in DOMAIN trace :
           t.rob[j].memory_instrs_depend_on_me = s.rob[j].memory_instrs_depend_on_me
      /\ \A j \in DOMAIN trace \ {i} : t.rob[j] = s.rob[j]
      /\ DOMAIN t.rob[i].sq_index = DOMAIN s.rob[i].sq_index \cup {n}
      /\ t.rob[i].sq_index[n] = slot
      /\ \A m \in DOMAIN s.rob[i].sq_index : t.rob[i].sq_index[m] = s.rob[i].sq_index[m]
      /\ t.LQ = s.LQ /\ t.RTL0 = s.RTL0 /\ t.done = s.done /\ t.seen = s.seen
      /\ t.RTS0 = Append(s.RTS0, slot)
  BY <1>1, <1>3 DEF StoreEffect
<1> HIDE DEF slot, store
<1>8. Progress(t.rob)
  <2>1. ASSUME NEW j \in DOMAIN trace
        PROVE  ProgressOf(j, s.rob[j])
    BY DEF LsqInv, Progress
  <2>2. ProgressOf(i, t.rob[i])
    <3>1. /\ t.rob[i].scheduled = s.rob[i].scheduled /\ t.rob[i].executed = s.rob[i].executed
          /\ t.rob[i].num_reg_dependent = s.rob[i].num_reg_dependent
          /\ t.rob[i].registers_depend_on_me = s.rob[i].registers_depend_on_me
          /\ t.rob[i].memory_instrs_depend_on_me = s.rob[i].memory_instrs_depend_on_me
          /\ t.rob[i].lq_index = s.rob[i].lq_index
          /\ t.rob[i].num_mem_ops = s.rob[i].num_mem_ops
      BY <1>3, <1>4, <1>7 DEF SameStages
    <3>2. DOMAIN t.rob[i].sq_index \subseteq DOMAIN trace[i].stores
      <4>1. DOMAIN s.rob[i].sq_index \subseteq DOMAIN trace[i].stores
        BY <1>3, <2>1 DEF ProgressOf
      <4> QED
        BY <1>3, <1>7, <4>1
    <3>3. i \in Scheduled /\ i \in InRob
      BY <1>3
    <3>4. ProgressOf(i, s.rob[i])
      BY <1>3, <2>1
    <3> QED
      BY <3>1, <3>2, <3>3, <3>4 DEF ProgressOf
  <2> QED
    BY <1>7, <2>1, <2>2 DEF Progress
<1>9. LoadsHeld(t.rob, t.LQ, t.SQ)
  <2>1. ASSUME NEW x \in Used(s.LQ)
        PROVE  LoadHeld(x, s.LQ[x], t.rob, t.SQ)
    <3> DEFINE e == s.LQ[x]
    <3>1. LoadHeld(x, e, s.rob, s.SQ)
      BY DEF LsqInv, LoadsHeld
    <3> HIDE DEF e
    <3>2. e.instr \in DOMAIN trace /\ (e.producer # NoStore => e.producer \in DOMAIN trace)
      BY <3>1, TraceFacts DEF LoadHeld
    <3>3. /\ t.rob[e.instr].lq_index = s.rob[e.instr].lq_index
          /\ e.producer # NoStore => t.rob[e.producer].memory_instrs_depend_on_me =
                                      s.rob[e.producer].memory_instrs_depend_on_me
      BY <1>7, <3>2
    <3>4. ASSUME NEW q \in Used(t.SQ), e.producer # NoStore, t.SQ[q].instr = e.producer,
                 t.SQ[q].address = trace[e.instr].loads[e.op]
          PROVE  ~t.SQ[q].fetched
      BY <1>5, <1>6, <3>1, <3>4 DEF LoadHeld
    <3>5. LoadHeld(x, e, t.rob, t.SQ)
      BY <3>1, <3>3, <3>4 DEF LoadHeld
    <3> QED
      BY <3>5 DEF e
  <2> QED
    BY <1>7, <2>1 DEF LoadsHeld
<1>10. StoresHeld(t.rob, t.SQ)
  <2>1. StoresHeld(s.rob, s.SQ)
    BY DEF LsqInv
  <2>2. ASSUME NEW x \in Used(t.SQ)
        PROVE  t.SQ[x].instr \in Scheduled /\ x \in Elements(t.rob[t.SQ[x].instr].sq_index)
    <3>1. CASE x = slot
      BY <1>5, <1>6, <1>7, <3>1 DEF Elements
    <3>2. CASE x # slot
      <4>1. /\ x \in Used(s.SQ) /\ t.SQ[x] = s.SQ[x] /\ s.SQ[x].instr \in Scheduled
            /\ x \in Elements(s.rob[s.SQ[x].instr].sq_index)
        BY <1>5, <2>1, <3>2 DEF StoresHeld
      <4>2. CASE s.SQ[x].instr = i
        BY <1>7, <4>1, <4>2 DEF Elements
      <4>3. CASE s.SQ[x].instr # i
        <5>1. t.rob[s.SQ[x].instr] = s.rob[s.SQ[x].instr]
          BY <1>7, <4>1, <4>3, TraceFacts
        <5> QED
          BY <4>1, <5>1
      <4> QED
        BY <4>2, <4>3
    <3> QED
      BY <3>1, <3>2
  <2>3. ASSUME NEW j \in DOMAIN trace, NEW m \in DOMAIN t.rob[j].sq_index, NEW x,
               x = t.rob[j].sq_index[m]
        PROVE  x \in Used(t.SQ) /\ t.SQ[x].instr = j /\ t.SQ[x].address = trace[j].stores[m]
    <3>1. CASE j = i /\ m = n
      BY <1>5, <1>6, <1>7, <2>3, <3>1
    <3>2. CASE ~(j = i /\ m = n)
      <4>1. m \in DOMAIN s.rob[j].sq_index /\ s.rob[j].sq_index[m] = x
        BY <1>7, <2>3, <3>2
      <4>2. x \in Used(s.SQ) /\ s.SQ[x].instr = j /\ s.SQ[x].address = trace[j].stores[m]
        BY <2>1, <4>1 DEF StoresHeld
      <4> QED
        BY <1>5, <4>2
    <3> QED
      BY <3>1, <3>2
  <2> QED
    BY <2>2, <2>3 DEF StoresHeld
<1>11. InOrder(t.SQ, t.SQ_tail, t.STA)
  <2>1. InOrder(s.SQ, slot, s.STA) /\ SQ_SIZE \in Nat
    BY Sizes DEF LsqInv, slot
  <2>2. /\ t.SQ_tail = IF slot + 1 = SQ_SIZE THEN 0 ELSE slot + 1
        /\ s.STA # << >> /\ Head(s.STA) = i /\ t.STA = Tail(s.STA)
    BY <1>1 DEF StoreEffect, slot
  <2>3. /\ Age(t.SQ_tail, slot) = 1
        /\ \A p \in SQSlots \ {slot} : /\ Age(slot, p) \in 1 .. SQ_SIZE - 1
                                       /\ Age(t.SQ_tail, p) = Age(slot, p) + 1
    BY <1>2, <2>2, AgeGrows
  <2>4. /\ Len(s.STA) \in Nat \ {0} /\ DOMAIN s.STA = 1 .. Len(s.STA) /\ s.STA[1] = i
        /\ DOMAIN t.STA = 1 .. Len(s.STA) - 1
        /\ \A k \in 1 .. Len(s.STA) - 1 : t.STA[k] = s.STA[k + 1]
        /\ \A k \in 1 .. Len(s.STA) : s.STA[k] \in Nat
    BY <1>2, <2>2
  <2>5. ASSUME NEW p \in SQSlots, NEW q \in SQSlots, q \in Used(t.SQ),
               Age(t.SQ_tail, p) < Age(t.SQ_tail, q)
        PROVE  p \in Used(t.SQ) /\ t.SQ[q].instr <= t.SQ[p].instr
    <3>1. q # slot
      BY <2>1, <2>3, <2>5
    <3>2. q \in Used(s.SQ)
      BY <1>5, <2>5, <3>1
    <3>3. CASE p = slot
      <4>1. s.SQ[q].instr <= s.STA[1]
        BY <2>1, <2>4, <3>2 DEF InOrder
      <4> QED
        BY <1>5, <1>6, <2>4, <3>2, <3>3, <4>1
    <3>4. CASE p # slot
      <4>1. Age(slot, p) < Age(slot, q)
        BY <2>1, <2>3, <2>5, <3>1, <3>4
      <4>2. p \in Used(s.SQ) /\ s.SQ[q].instr <= s.SQ[p].instr
        BY <2>1, <3>2, <4>1 DEF InOrder
      <4> QED
        BY <1>5, <3>2, <4>2
    <3> QED
      BY <3>3, <3>4
  <2>6. ASSUME NEW k \in DOMAIN t.STA
        PROVE  /\ t.STA[k] < tail
               /\ \A m \in 1 .. k : t.STA[m] <= t.STA[k]
               /\ \A x \in Used(t.SQ) : t.SQ[x].instr <= t.STA[k]
    <3>1. k + 1 \in DOMAIN s.STA /\ k \in Nat
      BY <2>4
    <3>2. /\ s.STA[k + 1] < tail
          /\ \A m \in 1 .. k + 1 : s.STA[m] <= s.STA[k + 1]
          /\ \A x \in Used(s.SQ) : s.SQ[x].instr <= s.STA[k + 1]
      BY <2>1, <3>1 DEF InOrder
    <3>3. t.STA[k] = s.STA[k + 1] /\ \A m \in 1 .. k : t.STA[m] = s.STA[m + 1]
      BY <2>4, <3>1, SMTT(40)
    <3>4. \A m \in 1 .. k : t.STA[m] <= t.STA[k]
      BY <3>1, <3>2, <3>3
    <3>5. i <= t.STA[k]
      BY <2>4, <3>1, <3>2, <3>3
    <3>6. \A x \in Used(t.SQ) : t.SQ[x].instr <= t.STA[k]
      BY <1>5, <1>6, <3>2, <3>3, <3>5
    <3> QED
      BY <3>2, <3>3, <3>4, <3>6
  <2> QED
    BY <2>5, <2>6 DEF InOrder
<1>12. LoadsTracked(t.LQ, t.RTL0)
  BY <1>7 DEF LsqInv
<1>13. StoresTracked(t.SQ, t.RTS0)
  <2>1. StoresTracked(s.SQ, s.RTS0)
    BY DEF LsqInv
  <2>2. {x \in Used(t.SQ) : ~t.SQ[x].fetched} = {x \in Used(s.SQ) : ~s.SQ[x].fetched} \cup {slot}
    BY <1>5, <1>6
  <2>3. slot \notin {x \in Used(s.SQ) : ~s.SQ[x].fetched}
    BY <1>5
  <2>4. slot \notin Elements(s.RTS0)
    BY <2>1, <2>3 DEF StoresTracked
  <2>5. Elements(t.RTS0) = Elements(s.RTS0) \cup {slot} /\ IsInjective(t.RTS0)
    BY <1>2, <1>7, <2>1, <2>4, AppendNew DEF StoresTracked
  <2> QED
    BY <2>1, <2>2, <2>3, <2>5 DEF StoresTracked
<1>14. RequestsNamed(t.LQ, t.SQ)
  <2>1. RequestsNamed(s.LQ, s.SQ) /\ StoresTracked(s.SQ, s.RTS0)
    BY DEF LsqInv
  <2>2. ASSUME NEW r \in DTLB \cup L1D, r.queue = "SQ"
        PROVE  t.SQ[r.slot] = s.SQ[r.slot]
    <3>1. r \in DTLB
      BY <2>1, <2>2 DEF RequestsNamed
    <3>2. r.slot \in Requests(DTLB, "SQ")
      BY <2>2, <3>1 DEF Requests
    <3>3. r.slot \in Used(s.SQ)
      BY <2>1, <3>2 DEF StoresTracked
    <3> QED
      BY <1>5, <3>3
  <2> QED
    BY <1>7, <2>1, <2>2 DEF RequestsNamed
<1>15. Counted(t.rob, t.LQ, t.SQ)
  <2>1. ASSUME NEW j \in InRob
        PROVE  /\ MissingLoads(t.rob, j) = MissingLoads(s.rob, j)
               /\ HeldLoads(t.LQ, j) = HeldLoads(s.LQ, j)
               /\ t.rob[j].num_mem_ops = s.rob[j].num_mem_ops
               /\ s.rob[j].num_mem_ops =
                    Cardinality(MissingLoads(s.rob, j)) + Cardinality(HeldLoads(s.LQ, j))
                      + Cardinality(MissingStores(s.rob, j)) + Cardinality(HeldStores(s.SQ, j))
    <3>1. t.rob[j].lq_index = s.rob[j].lq_index /\ t.rob[j].num_mem_ops = s.rob[j].num_mem_ops
      BY <1>7, TraceFacts
    <3> QED
      BY <1>7, <3>1 DEF MissingLoads, LsqInv, Counted
  <2>2. ASSUME NEW j \in InRob, j # i
        PROVE  /\ MissingStores(t.rob, j) = MissingStores(s.rob, j)
               /\ HeldStores(t.SQ, j) = HeldStores(s.SQ, j)
    <3>1. t.rob[j] = s.rob[j]
      BY <1>7, <2>2, TraceFacts
    <3>2. HeldStores(t.SQ, j) = HeldStores(s.SQ, j)
      BY <1>5, <1>6, <2>2 DEF HeldStores
    <3> QED
      BY <3>1, <3>2 DEF MissingStores
  <2>3. Cardinality(MissingStores(t.rob, i)) = Cardinality(MissingStores(s.rob, i)) - 1
    <3>1. /\ MissingStores(t.rob, i) = MissingStores(s.rob, i) \ {n}
          /\ n \in MissingStores(s.rob, i)
      BY <1>3, <1>7 DEF MissingStores
    <3>2. IsFiniteSet(MissingStores(s.rob, i))
      BY <1>2, <1>3, CountsAreFinite
    <3> QED
      BY <3>1, <3>2, FS_RemoveElement
  <2>4. Cardinality(HeldStores(t.SQ, i)) = Cardinality(HeldStores(s.SQ, i)) + 1
    <3>1. /\ HeldStores(t.SQ, i) = HeldStores(s.SQ, i) \cup {slot}
          /\ slot \notin HeldStores(s.SQ, i)
      BY <1>5, <1>6 DEF HeldStores
    <3>2. IsFiniteSet(HeldStores(s.SQ, i))
      BY <1>2, <1>3, CountsAreFinite
    <3> QED
      BY <3>1, <3>2, FS_AddElement
  <2>5. /\ Cardinality(MissingLoads(s.rob, i)) \in Nat
        /\ Cardinality(HeldLoads(s.LQ, i)) \in Nat
        /\ Cardinality(MissingStores(s.rob, i)) \in Nat
        /\ Cardinality(HeldStores(s.SQ, i)) \in Nat
    BY <1>2, <1>3, CountsAreFinite
  <2>6. t.rob[i].num_mem_ops =
          Cardinality(MissingLoads(t.rob, i)) + Cardinality(HeldLoads(t.LQ, i))
            + Cardinality(MissingStores(t.rob, i)) + Cardinality(HeldStores(t.SQ, i))
    BY <1>3, <2>1, <2>3, <2>4, <2>5
  <2> QED
    BY <2>1, <2>2, <2>6 DEF Counted
<1>16. t.done = Cardinality(Finished(t.rob))
  <2>1. ASSUME NEW j \in InRob
        PROVE  /\ t.rob[j].num_mem_ops = s.rob[j].num_mem_ops
               /\ t.rob[j].executed = s.rob[j].executed
    BY <1>4, <1>7, TraceFacts DEF SameStages
  <2>2. Finished(t.rob) = Finished(s.rob)
    BY <2>1 DEF Finished
  <2> QED
    BY <1>7, <2>2 DEF LsqInv
<1>17. RegistersCounted(t.rob) /\ RightlySeen(t.seen)
  BY <1>4, <1>7, SameRegisters DEF LsqInv
<1> QED
  BY <1>4, <1>8, <1>9, <1>10, <1>11, <1>12, <1>13, <1>14, <1>15, <1>16, <1>17 DEF LsqInv

-----------------------------------------------------------------------------
\* Which loads a store finds.

\* Whoever is marked as depending on an instruction loads something from it.
Marked(entries) ==
  \A p \in InRob : \A i \in entries[p].memory_instrs_depend_on_me :
    \E n \in DOMAIN trace[i].loads : Source(i, trace[i].loads[n]) = p

\* An added load still holds its slot while the store it reads is not executed.
Waiting(entries, lq, sq) ==
  \A i \in InRob : \A n \in DOMAIN entries[i].lq_index : \A p \in InRob :
    LET a == trace[i].loads[n] IN
    p = Source(i, a) /\ ~Forwards(sq, p, a) =>
      lq[entries[i].lq_index[n]] = [instr |-> i, op |-> n, producer |-> p]

LoadsFound(s) == Marked(s.rob) /\ Waiting(s.rob, s.LQ, s.SQ)

(***************************************************************************)
(* The store a load has to read is an older one to its address.            *)
(***************************************************************************)
LEMMA SourceIsOlder ==
  ASSUME NEW i \in Nat \ {0}, NEW a, Source(i, a) # NoStore
  PROVE  Source(i, a) \in StoresTo(a, 1 .. i - 1)
<1> DEFINE older == StoresTo(a, 1 .. i - 1)
<1>1. older # {} /\ Source(i, a) = Youngest(older)
  BY DEF Source
<1>2. older \subseteq 1 .. i - 1
  BY DEF StoresTo
<1>3. IsFiniteSet(1 .. i - 1) /\ 1 .. i - 1 \subseteq Nat
  <2>1. 1 \in Int /\ i - 1 \in Int
    OBVIOUS
  <2>2. \A k \in 1 .. i - 1 : k \in Nat
    BY <2>1
  <2> QED
    BY <2>1, <2>2, FS_Interval
<1>4. IsFiniteSet(older) /\ older \subseteq Nat
  BY <1>2, <1>3, FS_Subset
<1> HIDE DEF older
<1>5. Youngest(older) \in older
  BY <1>1, <1>4, YoungestExists
<1> QED
  BY <1>1, <1>5 DEF older

(***************************************************************************)
(* A store that a load reads and that is still in the reorder buffer is    *)
(* the one mem_RAW_dependency finds.                                       *)
(***************************************************************************)
LEMMA SourceIsProducer ==
  ASSUME TypeInv, NEW i \in Scheduled, NEW a, Source(i, a) \in InRob
  PROVE  mem_RAW_dependency(i, a) = Source(i, a)
<1> DEFINE p == Source(i, a)
<1>1. i \in Nat \ {0} /\ p \in Nat \ {0} /\ head \in Nat \ {0}
  BY TraceFacts DEF TypeInv
<1>2. p >= head
  BY <1>1 DEF InRob, TypeInv
<1>3. p \in StoresTo(a, 1 .. i - 1)
  BY <1>1, SourceIsOlder DEF NoStore
<1>4. p \in StoresTo(a, head .. i - 1)
  BY <1>1, <1>2, <1>3 DEF StoresTo
<1>5. mem_RAW_dependency(i, a) # NoStore
  BY <1>4, ProducerIsSource
<1> QED
  BY <1>5, ProducerIsSource

(***************************************************************************)
(* Adding a load marks it at the store it reads, and makes it wait there   *)
(* unless the store is executed.                                           *)
(***************************************************************************)
LEMMA LoadAddedFound ==
  ASSUME TypeInv, NEW s, LsqInv(s), LoadsFound(s), NEW i \in Scheduled,
         NEW n \in DOMAIN trace[i].loads, LoadMissing(s, i, n),
         NEW t, t = add_load_queue(s, i, n)
  PROVE  LoadsFound(t)
<1> DEFINE a == trace[i].loads[n]
           producer == mem_RAW_dependency(i, a)
           slot == FirstEmpty(s.LQ)
<1>1. LoadEffect(s, t, i, n, a, producer, slot)
  BY LoadAddedFields
<1>2. /\ s.LQ \in Loads /\ InRob \subseteq DOMAIN trace /\ i \in DOMAIN trace
      /\ \A j \in InRob : j \in Nat \ {0}
  BY TraceFacts DEF LsqInv, AddingType
<1>3. producer # NoStore => producer = Source(i, a)
  BY ProducerIsSource
<1>4. Source(i, a) \in InRob => producer = Source(i, a)
  BY SourceIsProducer
<1>5. ASSUME NEW p \in InRob, NEW d \in t.rob[p].memory_instrs_depend_on_me
      PROVE  \E m \in DOMAIN trace[d].loads : Source(d, trace[d].loads[m]) = p
  <2> HIDE DEF producer, slot
  <2>1. CASE d \in s.rob[p].memory_instrs_depend_on_me
    BY <2>1 DEF LoadsFound, Marked
  <2>2. CASE d \notin s.rob[p].memory_instrs_depend_on_me
    <3>1. p = producer
      BY <1>1, <1>2, <2>2 DEF LoadEffect
    <3>2. producer # NoStore
      BY <1>2, <3>1 DEF NoStore
    <3>3. t.rob[producer].memory_instrs_depend_on_me =
            s.rob[producer].memory_instrs_depend_on_me \cup {i}
      BY <1>1, <3>2 DEF LoadEffect
    <3>4. d = i
      BY <2>2, <3>1, <3>3
    <3> QED
      BY <1>3, <3>1, <3>2, <3>4
  <2> QED
    BY <2>1, <2>2
<1>6. ASSUME NEW j \in InRob, NEW m \in DOMAIN t.rob[j].lq_index, NEW p \in InRob,
             p = Source(j, trace[j].loads[m]), ~Forwards(t.SQ, p, trace[j].loads[m])
      PROVE  t.LQ[t.rob[j].lq_index[m]] = [instr |-> j, op |-> m, producer |-> p]
  <2>1. ~Forwards(s.SQ, p, trace[j].loads[m])
    BY <1>1, <1>6 DEF LoadEffect
  <2>2. CASE j = i /\ m = n
    <3>1. producer = p
      BY <1>4, <1>6, <2>2
    <3> HIDE DEF producer, slot
    <3>2. ~Forwards(s.SQ, producer, a)
      BY <2>1, <2>2, <3>1
    <3>3. /\ t.LQ = [s.LQ EXCEPT ![slot] = [instr |-> i, op |-> n, producer |-> producer]]
          /\ slot \in LQSlots /\ t.rob[i].lq_index[n] = slot
      BY <1>1, <3>2 DEF LoadEffect
    <3>4. DOMAIN s.LQ = LQSlots
      BY <1>2 DEF Loads
    <3> QED
      BY <2>2, <3>1, <3>3, <3>4
  <2>3. CASE ~(j = i /\ m = n)
    <3> DEFINE x == s.rob[j].lq_index[m]
               load == [instr |-> j, op |-> m, producer |-> p]
    <3> HIDE DEF producer, slot
    <3>1. m \in DOMAIN s.rob[j].lq_index /\ t.rob[j].lq_index[m] = x
      <4>1. CASE j # i
        BY <1>1, <1>2, <4>1 DEF LoadEffect
      <4>2. CASE j = i
        BY <1>1, <2>3, <4>2 DEF LoadEffect
      <4> QED
        BY <4>1, <4>2
    <3>2. s.LQ[x] = load
      BY <1>6, <2>1, <3>1 DEF LoadsFound, Waiting
    <3>3. x \in DOMAIN s.LQ
      <4>1. s.rob[j] \in Entries /\ s.LQ \in Loads
        BY <1>2 DEF LsqInv, AddingType
      <4>2. s.rob[j].lq_index \in Indices(LQSlots)
        BY <4>1 DEF Entries
      <4>3. x \in LQSlots
        BY <3>1, <4>2 DEF Indices
      <4> QED
        BY <4>1, <4>3 DEF Loads
    <3>4. x # slot
      <4>1. slot \in LQSlots /\ slot \notin Used(s.LQ) /\ DOMAIN s.LQ = LQSlots
        BY <1>1, <1>2 DEF LoadEffect, Loads
      <4>2. s.LQ[slot] = NoEntry
        BY <4>1 DEF Used
      <4>3. load # NoEntry
        BY DEF NoEntry
      <4> QED
        BY <3>2, <4>2, <4>3
    <3>5. t.LQ[x] = s.LQ[x]
      <4>1. CASE Forwards(s.SQ, producer, a)
        BY <1>1, <4>1 DEF LoadEffect
      <4>2. CASE ~Forwards(s.SQ, producer, a)
        <5>1. t.LQ = [s.LQ EXCEPT ![slot] = [instr |-> i, op |-> n, producer |-> producer]]
          BY <1>1, <4>2 DEF LoadEffect
        <5> HIDE DEF x
        <5>2. x \in DOMAIN s.LQ
          BY <3>3
        <5> QED
          BY <3>4, <5>1, <5>2
      <4> QED
        BY <4>1, <4>2
    <3> QED
      BY <3>1, <3>2, <3>5
  <2> QED
    BY <2>2, <2>3
<1> QED
  BY <1>5, <1>6 DEF LoadsFound, Marked, Waiting

(***************************************************************************)
(* A store that is added is not executed, and no load is found elsewhere.  *)
(***************************************************************************)
LEMMA StoreAddedFound ==
  ASSUME TypeInv, NEW s, LsqInv(s), LoadsFound(s), NEW i \in Scheduled,
         NEW n \in DOMAIN trace[i].stores, StoreMissing(s, i, n),
         NEW t, t = add_store_queue(s, i, n)
  PROVE  LoadsFound(t)
<1>1. StoreEffect(s, t, i, n)
  BY StoreAddedFields
<1>2. InRob \subseteq DOMAIN trace /\ s.SQ \in Stores
  BY TraceFacts DEF LsqInv, AddingType
<1>3. \A j \in InRob : /\ t.rob[j].lq_index = s.rob[j].lq_index
                       /\ t.rob[j].memory_instrs_depend_on_me =
                            s.rob[j].memory_instrs_depend_on_me
  BY <1>1, <1>2 DEF StoreEffect
<1>4. t.LQ = s.LQ
  BY <1>1 DEF StoreEffect
<1>5. ASSUME NEW p, NEW a, Forwards(s.SQ, p, a)
      PROVE  Forwards(t.SQ, p, a)
  <2>1. PICK q \in Used(s.SQ) : /\ s.SQ[q].address = a /\ s.SQ[q].instr = p
                                /\ s.SQ[q].fetched
    BY <1>5 DEF Forwards
  <2>2. q # s.SQ_tail
    BY <1>1 DEF StoreEffect
  <2>3. t.SQ[q] = s.SQ[q] /\ DOMAIN t.SQ = DOMAIN s.SQ
    BY <1>1, <2>2 DEF StoreEffect
  <2>4. q \in Used(t.SQ)
    BY <2>3 DEF Used
  <2> QED
    BY <2>1, <2>3, <2>4 DEF Forwards
<1>6. Marked(t.rob)
  BY <1>3 DEF LoadsFound, Marked
<1>7. Waiting(t.rob, t.LQ, t.SQ)
  BY <1>3, <1>4, <1>5 DEF LoadsFound, Waiting
<1> QED
  BY <1>6, <1>7 DEF LoadsFound

(***************************************************************************)
(* The sequence of additions that check_and_add_lsq is the last of.        *)
(***************************************************************************)
LEMMA AdditionsExist ==
  ASSUME NEW i, NEW operands \in Nat
  PROVE  \E added : added = [n \in 0 .. operands |->
                               IF n = 0 THEN Adding ELSE AddOperand(added[n - 1], i, n)]
<1> DEFINE Additions(k, f) ==
             f = [n \in 0 .. k |-> IF n = 0 THEN Adding ELSE AddOperand(f[n - 1], i, n)]
           Without == {k \in Nat : ~\E f : Additions(k, f)}
<1>1. \E f : Additions(0, f)
  <2> WITNESS [n \in 0 .. 0 |-> Adding]
  <2> QED
    OBVIOUS
<1>2. ASSUME NEW k \in Nat, NEW f, Additions(k, f)
      PROVE  \E g : Additions(k + 1, g)
  <2> DEFINE g == [n \in 0 .. k + 1 |-> IF n = k + 1 THEN AddOperand(f[k], i, n) ELSE f[n]]
  <2> WITNESS g
  <2>1. ASSUME NEW n \in 0 .. k + 1
        PROVE  g[n] = IF n = 0 THEN Adding ELSE AddOperand(g[n - 1], i, n)
    <3>1. CASE n = k + 1
      <4>1. g[n - 1] = f[k]
        BY <3>1
      <4> QED
        BY <3>1, <4>1
    <3>2. CASE n \in 0 .. k
      <4>1. g[n] = f[n] /\ (n # 0 => g[n - 1] = f[n - 1])
        BY <3>2
      <4>2. f[n] = IF n = 0 THEN Adding ELSE AddOperand(f[n - 1], i, n)
        BY <1>2, <3>2
      <4> QED
        BY <4>1, <4>2
    <3> QED
      BY <3>1, <3>2
  <2> QED
    BY <2>1
<1>3. ASSUME Without # {}
      PROVE  FALSE
  <2>1. PICK k \in Without : \A m \in Without : k <= m
    BY <1>3, NatLeast
  <2>2. k # 0 /\ k \in Nat
    BY <1>1
  <2>3. k - 1 \in Nat /\ k - 1 \notin Without
    BY <2>1, <2>2, SMTT(40)
  <2>4. PICK f : Additions(k - 1, f)
    BY <2>3
  <2>5. \E g : Additions(k - 1 + 1, g)
    BY <1>2, <2>3, <2>4
  <2> QED
    BY <2>2, <2>5
<1> QED
  BY <1>3

(***************************************************************************)
(* Adding whatever operands find room preserves the invariant.             *)
(***************************************************************************)
LEMMA OperandsAdded ==
  ASSUME TypeInv, LsqInv(Adding), NEW i \in Scheduled, rob[i].executed = "no"
  PROVE  /\ LsqInv(check_and_add_lsq(i))
         /\ SameStages(rob, check_and_add_lsq(i).rob)
         /\ LoadsFound(Adding) => LoadsFound(check_and_add_lsq(i))
<1> DEFINE loads == Len(trace[i].loads)
           operands == loads + Len(trace[i].stores)
           Additions(f) == f = [n \in 0 .. operands |->
                                  IF n = 0 THEN Adding ELSE AddOperand(f[n - 1], i, n)]
           added == CHOOSE f : Additions(f)
<1>1. /\ i \in DOMAIN trace /\ loads \in Nat /\ operands \in Nat
      /\ DOMAIN trace[i].loads = 1 .. loads
      /\ DOMAIN trace[i].stores = 1 .. operands - loads
  <2>1. i \in DOMAIN trace
    BY TraceFacts
  <2>2. /\ Len(trace[i].loads) \in Nat /\ Len(trace[i].stores) \in Nat
        /\ DOMAIN trace[i].loads = 1 .. Len(trace[i].loads)
        /\ DOMAIN trace[i].stores = 1 .. Len(trace[i].stores)
    <3>1. trace[i].loads \in {trace[i].loads, trace[i].stores}
      OBVIOUS
    <3>2. trace[i].stores \in {trace[i].loads, trace[i].stores}
      OBVIOUS
    <3>3. Len(trace[i].loads) \in Nat /\ DOMAIN trace[i].loads = 1 .. Len(trace[i].loads)
      BY <2>1, <3>1, TraceFacts
    <3>4. Len(trace[i].stores) \in Nat /\ DOMAIN trace[i].stores = 1 .. Len(trace[i].stores)
      BY <2>1, <3>2, TraceFacts
    <3> QED
      BY <3>3, <3>4
  <2>3. operands - loads = Len(trace[i].stores) /\ operands \in Nat
    <3>1. \A p, q \in Nat : (p + q) - p = q /\ p + q \in Nat
      OBVIOUS
    <3> QED
      BY <2>2, <3>1
  <2> QED
    BY <2>1, <2>2, <2>3
<1>2. Additions(added)
  <2>1. \E f : Additions(f)
    BY <1>1, AdditionsExist
  <2> HIDE DEF Additions
  <2> QED
    BY <2>1
<1>3. check_and_add_lsq(i) = added[operands]
  BY DEF check_and_add_lsq
<1> HIDE DEF loads, operands
<1> DEFINE Kept(s) == /\ LsqInv(s) /\ SameStages(rob, s.rob)
                      /\ LoadsFound(Adding) => LoadsFound(s)
           Lost == {n \in 0 .. operands : ~Kept(added[n])}
<1> HIDE DEF added
<1>4. /\ added[0] = Adding
      /\ \A n \in 1 .. operands : added[n] = AddOperand(added[n - 1], i, n)
  <2>1. /\ 0 \in 0 .. operands
        /\ \A n \in 1 .. operands : n \in 0 .. operands /\ n # 0
    BY <1>1
  <2>2. \A n \in 0 .. operands :
          added[n] = IF n = 0 THEN Adding ELSE AddOperand(added[n - 1], i, n)
    BY <1>2
  <2> QED
    BY <2>1, <2>2
<1>5. Kept(added[0])
  BY <1>4 DEF SameStages, Adding
<1>6. ASSUME NEW s, Kept(s), NEW n \in 1 .. operands
      PROVE  Kept(AddOperand(s, i, n))
  <2>1. s.rob[i].executed = "no"
    BY <1>1, <1>6 DEF SameStages
  <2>2. ASSUME NEW t, LsqInv(t), SameStages(s.rob, t.rob),
               LoadsFound(s) => LoadsFound(t)
        PROVE  Kept(t)
    BY <1>6, <2>2 DEF SameStages
  <2>3. CASE n <= loads
    <3>1. n \in DOMAIN trace[i].loads
      BY <1>1, <2>3
    <3>2. CASE LoadMissing(s, i, n)
      <4>1. AddOperand(s, i, n) = add_load_queue(s, i, n)
        BY <2>3, <3>2 DEF AddOperand, loads
      <4>2. /\ LsqInv(add_load_queue(s, i, n))
            /\ SameStages(s.rob, add_load_queue(s, i, n).rob)
            /\ LoadsFound(s) => LoadsFound(add_load_queue(s, i, n))
        BY <1>6, <2>1, <3>1, <3>2, LoadAdded, LoadAddedFound
      <4> QED
        BY <2>2, <4>1, <4>2
    <3>3. CASE ~LoadMissing(s, i, n)
      BY <1>6, <2>3, <3>3 DEF AddOperand, loads
    <3> QED
      BY <3>2, <3>3
  <2>4. CASE ~(n <= loads)
    <3>1. n - loads \in DOMAIN trace[i].stores
      BY <1>1, <2>4
    <3>2. CASE StoreMissing(s, i, n - loads)
      <4>1. AddOperand(s, i, n) = add_store_queue(s, i, n - loads)
        BY <2>4, <3>2 DEF AddOperand, loads
      <4>2. /\ LsqInv(add_store_queue(s, i, n - loads))
            /\ SameStages(s.rob, add_store_queue(s, i, n - loads).rob)
            /\ LoadsFound(s) => LoadsFound(add_store_queue(s, i, n - loads))
        BY <1>6, <3>1, <3>2, StoreAdded, StoreAddedFound
      <4> QED
        BY <2>2, <4>1, <4>2
    <3>3. CASE ~StoreMissing(s, i, n - loads)
      BY <1>6, <2>4, <3>3 DEF AddOperand, loads
    <3> QED
      BY <3>2, <3>3
  <2> QED
    BY <2>3, <2>4
<1>7. ASSUME Lost # {}
      PROVE  FALSE
  <2>1. Lost \in SUBSET Nat
    BY <1>1
  <2>2. PICK n \in Lost : \A m \in Lost : n <= m
    BY <1>7, <2>1, NatLeast
  <2>3. n \in 1 .. operands
    BY <1>1, <1>5
  <2>4. n - 1 \in 0 .. operands /\ n - 1 \notin Lost
    BY <1>1, <2>2, <2>3
  <2>5. Kept(added[n - 1])
    BY <2>4
  <2> HIDE DEF Kept
  <2>6. Kept(added[n])
    BY <1>4, <1>6, <2>3, <2>5
  <2> QED
    BY <2>6
<1>8. Kept(added[operands])
  BY <1>1, <1>7 DEF Lost
<1> QED
  BY <1>3, <1>8
-----------------------------------------------------------------------------
\* The parts of the invariant after a step, in terms of those before it.

(***************************************************************************)
(* While no instruction enters, is scheduled or retires, the parts change  *)
(* by their arguments only.                                                *)
(***************************************************************************)
LEMMA SameInstructions ==
  ASSUME UNCHANGED <<trace, head, tail, next_schedule>>
  PROVE  /\ AddingType(Adding)' <=> AddingType(Adding')
         /\ Progress(rob)' <=> Progress(rob')
         /\ LoadsHeld(rob, LQ, SQ)' <=> LoadsHeld(rob', LQ', SQ')
         /\ StoresHeld(rob, SQ)' <=> StoresHeld(rob', SQ')
         /\ InOrder(SQ, SQ_tail, STA)' <=> InOrder(SQ', SQ_tail', STA')
         /\ Counted(rob, LQ, SQ)' <=> Counted(rob', LQ', SQ')
         /\ Finished(rob)' = Finished(rob')
         /\ RegistersCounted(rob)' <=> RegistersCounted(rob')
         /\ Executing(rob)' = Executing(rob')
         /\ RightlySeen(seen)' <=> RightlySeen(seen')
<1>0. Scheduled' = Scheduled /\ InRob' = InRob /\ \A i : is_memory(i)' = is_memory(i)
  BY DEF Scheduled, InRob, is_memory
<1>1. AddingType(Adding)' <=> AddingType(Adding')
  BY DEF AddingType, Entries, Stores, AllAddresses, AllRegisters
<1>2. Progress(rob)' <=> Progress(rob')
  BY <1>0 DEF Progress, ProgressOf
<1>3. LoadsHeld(rob, LQ, SQ)' <=> LoadsHeld(rob', LQ', SQ')
  BY <1>0 DEF LoadsHeld, LoadHeld, Source, StoresTo
<1>4. StoresHeld(rob, SQ)' <=> StoresHeld(rob', SQ')
  BY <1>0 DEF StoresHeld
<1>5. InOrder(SQ, SQ_tail, STA)' <=> InOrder(SQ', SQ_tail', STA')
  BY DEF InOrder
<1>6. Counted(rob, LQ, SQ)' <=> Counted(rob', LQ', SQ')
  BY <1>0 DEF Counted, MissingLoads, MissingStores
<1>7. Finished(rob)' = Finished(rob') /\ Executing(rob)' = Executing(rob')
  BY <1>0 DEF Finished, Executing
<1>8. RegistersCounted(rob)' <=> RegistersCounted(rob')
  BY <1>0 DEF RegistersCounted, WaitsFor
<1>9. RightlySeen(seen)' <=> RightlySeen(seen')
  BY DEF RightlySeen, Source, StoresTo
<1> QED
  BY <1>1, <1>2, <1>3, <1>4, <1>5, <1>6, <1>7, <1>8, <1>9

(***************************************************************************)
(* While nothing is on its way to or from the TLB and the L1D, the lists   *)
(* change by their arguments only.                                         *)
(***************************************************************************)
LEMMA SameLists ==
  ASSUME UNCHANGED <<RTL1, RTS1, DTLB, L1D>>
  PROVE  /\ LoadsTracked(LQ, RTL0)' <=> LoadsTracked(LQ', RTL0')
         /\ StoresTracked(SQ, RTS0)' <=> StoresTracked(SQ', RTS0')
         /\ RequestsNamed(LQ, SQ)' <=> RequestsNamed(LQ', SQ')
<1>1. LoadsTracked(LQ, RTL0)' <=> LoadsTracked(LQ', RTL0')
  BY DEF LoadsTracked
<1>2. StoresTracked(SQ, RTS0)' <=> StoresTracked(SQ', RTS0')
  BY DEF StoresTracked
<1>3. RequestsNamed(LQ, SQ)' <=> RequestsNamed(LQ', SQ')
  BY DEF RequestsNamed
<1> QED
  BY <1>1, <1>2, <1>3

(***************************************************************************)
(* The parts of the invariant, of the state itself.                        *)
(***************************************************************************)
LEMMA Parts ==
  LsqInv(Adding) <=>
    /\ AddingType(Adding) /\ Progress(rob)
    /\ LoadsHeld(rob, LQ, SQ) /\ StoresHeld(rob, SQ)
    /\ InOrder(SQ, SQ_tail, STA)
    /\ LoadsTracked(LQ, RTL0) /\ StoresTracked(SQ, RTS0)
    /\ RequestsNamed(LQ, SQ)
    /\ Counted(rob, LQ, SQ)
    /\ inflight_mem_executions = Cardinality(Finished(rob))
    /\ RegistersCounted(rob)
    /\ RightlySeen(seen)
BY DEF LsqInv, Adding

(***************************************************************************)
(* The types that check_and_add_lsq keeps, of the state itself.            *)
(***************************************************************************)
LEMMA AddingTypes ==
  AddingType(Adding) <=>
    /\ rob \in [DOMAIN trace -> Entries] /\ LQ \in Loads /\ SQ \in Stores
    /\ SQ_tail \in SQSlots /\ STA \in Seq(Nat)
    /\ RTL0 \in Seq(LQSlots) /\ RTS0 \in Seq(SQSlots)
    /\ inflight_mem_executions \in Nat /\ seen \in SUBSET (Nat \X Nat \X Nat)
BY DEF AddingType, Adding

(***************************************************************************)
(* What the invariant says, part by part.                                  *)
(***************************************************************************)
LEMMA InvParts ==
  ASSUME IInv
  PROVE  /\ TypeInv
         /\ rob \in [DOMAIN trace -> Entries] /\ LQ \in Loads /\ SQ \in Stores
         /\ SQ_tail \in SQSlots /\ STA \in Seq(Nat)
         /\ RTL0 \in Seq(LQSlots) /\ RTS0 \in Seq(SQSlots)
         /\ inflight_mem_executions \in Nat /\ seen \in SUBSET (Nat \X Nat \X Nat)
         /\ Progress(rob)
         /\ LoadsHeld(rob, LQ, SQ) /\ StoresHeld(rob, SQ)
         /\ InOrder(SQ, SQ_tail, STA)
         /\ LoadsTracked(LQ, RTL0) /\ StoresTracked(SQ, RTS0)
         /\ RequestsNamed(LQ, SQ)
         /\ Counted(rob, LQ, SQ)
         /\ inflight_mem_executions = Cardinality(Finished(rob))
         /\ RegistersCounted(rob)
         /\ RightlySeen(seen)
         /\ ReadyToExecute
         /\ inflight_reg_executions = Cardinality(Executing(rob))
<1>1. TypeInv /\ LsqInv(Adding) /\ ReadyToExecute
      /\ inflight_reg_executions = Cardinality(Executing(rob))
  BY DEF IInv
<1> QED
  BY <1>1, Parts, AddingTypes

(***************************************************************************)
(* The invariant after a step, part by part.                               *)
(***************************************************************************)
LEMMA InvNext ==
  ASSUME TypeInv',
         (rob \in [DOMAIN trace -> Entries])', (LQ \in Loads)', (SQ \in Stores)',
         (SQ_tail \in SQSlots)', (STA \in Seq(Nat))',
         (RTL0 \in Seq(LQSlots))', (RTS0 \in Seq(SQSlots))',
         (inflight_mem_executions \in Nat)', (seen \in SUBSET (Nat \X Nat \X Nat))',
         Progress(rob)',
         LoadsHeld(rob, LQ, SQ)', StoresHeld(rob, SQ)',
         InOrder(SQ, SQ_tail, STA)',
         LoadsTracked(LQ, RTL0)', StoresTracked(SQ, RTS0)',
         RequestsNamed(LQ, SQ)',
         Counted(rob, LQ, SQ)',
         (inflight_mem_executions = Cardinality(Finished(rob)))',
         RegistersCounted(rob)',
         RightlySeen(seen)',
         ReadyToExecute',
         (inflight_reg_executions = Cardinality(Executing(rob)))'
  PROVE  IInv'
<1>1. AddingType(Adding)'
  BY DEF AddingType, Adding
<1>2. LsqInv(Adding)'
  BY <1>1 DEF LsqInv, Adding
<1> QED
  BY <1>2 DEF IInv

(***************************************************************************)
(* What a step that changes no instruction leaves of the invariant.        *)
(***************************************************************************)
LEMMA EntriesKept ==
  ASSUME IInv, TypeInv',
         UNCHANGED <<trace, head, tail, next_schedule, rob, lists, LQ, SQ, SQ_tail,
                     counters, seen>>,
         (RTL0 \in Seq(LQSlots))', (RTS0 \in Seq(SQSlots))',
         LoadsTracked(LQ, RTL0)', StoresTracked(SQ, RTS0)', RequestsNamed(LQ, SQ)'
  PROVE  IInv'
<1>0. /\ trace' = trace /\ head' = head /\ tail' = tail /\ next_schedule' = next_schedule
      /\ rob' = rob /\ LQ' = LQ /\ SQ' = SQ /\ SQ_tail' = SQ_tail
      /\ STA' = STA /\ RTE0' = RTE0 /\ RTE1' = RTE1
      /\ inflight_mem_executions' = inflight_mem_executions
      /\ inflight_reg_executions' = inflight_reg_executions /\ seen' = seen
  BY DEF lists, counters
<1>1. /\ (rob \in [DOMAIN trace -> Entries])' /\ (LQ \in Loads)' /\ (SQ \in Stores)'
      /\ (SQ_tail \in SQSlots)' /\ (STA \in Seq(Nat))'
      /\ (inflight_mem_executions \in Nat)' /\ (seen \in SUBSET (Nat \X Nat \X Nat))'
  BY <1>0, InvParts DEF Entries, Stores, AllAddresses, AllRegisters
<1>2. /\ Progress(rob)' /\ LoadsHeld(rob, LQ, SQ)' /\ StoresHeld(rob, SQ)'
      /\ InOrder(SQ, SQ_tail, STA)' /\ Counted(rob, LQ, SQ)' /\ RegistersCounted(rob)'
      /\ RightlySeen(seen)'
      /\ (inflight_mem_executions = Cardinality(Finished(rob)))'
      /\ (inflight_reg_executions = Cardinality(Executing(rob)))'
  BY <1>0, InvParts, SameInstructions
<1>3. ReadyToExecute'
  <2>1. ReadyToExecute
    BY InvParts
  <2> QED
    BY <1>0, <2>1 DEF ReadyToExecute, Scheduled, is_memory
<1> QED
  BY <1>1, <1>2, <1>3, InvNext

(***************************************************************************)
(* The slots for which there are requests, when one is made.               *)
(***************************************************************************)
LEMMA RequestMade ==
  ASSUME NEW requests, NEW queue, NEW slot, NEW other
  PROVE  /\ other = queue =>
              Requests(requests \cup {Request(queue, slot)}, other) =
                Requests(requests, other) \cup {slot}
         /\ other # queue =>
              Requests(requests \cup {Request(queue, slot)}, other) = Requests(requests, other)
<1> DEFINE made == Request(queue, slot)
<1>1. made.queue = queue /\ made.slot = slot
  BY DEF Request
<1> HIDE DEF made
<1>2. ASSUME other = queue
      PROVE  Requests(requests \cup {made}, other) = Requests(requests, other) \cup {slot}
  BY <1>1, <1>2 DEF Requests
<1>3. ASSUME other # queue
      PROVE  Requests(requests \cup {made}, other) = Requests(requests, other)
  BY <1>1, <1>3 DEF Requests
<1> QED
  BY <1>2, <1>3 DEF made

(***************************************************************************)
(* The slots for which there are requests, when one is answered: there is  *)
(* no second request for the slot.                                         *)
(***************************************************************************)
LEMMA RequestAnswered ==
  ASSUME RequestsNamed(LQ, SQ), NEW requests, requests \in {DTLB, L1D},
         NEW r \in requests, NEW other
  PROVE  Requests(requests \ {r}, other) =
           Requests(requests, other) \ (IF other = r.queue THEN {r.slot} ELSE {})
<1>1. ASSUME NEW q \in requests, q.queue = r.queue, q.slot = r.slot
      PROVE  q = r
  <2>1. /\ q \in [queue : {"LQ", "SQ"}, slot : Nat, instr : Nat]
        /\ r \in [queue : {"LQ", "SQ"}, slot : Nat, instr : Nat]
        /\ q.instr = r.instr
    BY <1>1 DEF RequestsNamed
  <2> QED
    BY <1>1, <2>1
<1>2. ASSUME NEW x \in Requests(requests \ {r}, other)
      PROVE  x \in Requests(requests, other) /\ ~(other = r.queue /\ x = r.slot)
  BY <1>1 DEF Requests
<1>3. ASSUME NEW x \in Requests(requests, other), ~(other = r.queue /\ x = r.slot)
      PROVE  x \in Requests(requests \ {r}, other)
  BY <1>3 DEF Requests
<1> QED
  BY <1>2, <1>3

(***************************************************************************)
(* What is asked for is named, and the slot names a load or a store.       *)
(***************************************************************************)
LEMMA RequestNamed ==
  ASSUME IInv
  PROVE  /\ \A slot \in Elements(RTL0) \cup Elements(RTL1) \cup Requests(DTLB, "LQ")
                          \cup Requests(L1D, "LQ") :
              /\ slot \in LQSlots /\ slot \in Nat
              /\ LQ[slot] \in [instr : Nat, op : Nat, producer : Nat]
              /\ LQ[slot].producer = NoStore
         /\ \A slot \in Elements(RTS0) \cup Elements(RTS1) \cup Requests(DTLB, "SQ") :
              /\ slot \in SQSlots /\ slot \in Nat
              /\ SQ[slot] \in [instr : Nat, address : AllAddresses, fetched : BOOLEAN]
              /\ ~SQ[slot].fetched
<1>1. LQ \in Loads /\ SQ \in Stores /\ LoadsTracked(LQ, RTL0) /\ StoresTracked(SQ, RTS0)
  BY InvParts
<1>2. LQSlots \subseteq Nat /\ SQSlots \subseteq Nat
  BY DEF LQSlots, SQSlots
<1>3. ASSUME NEW slot \in Elements(RTL0) \cup Elements(RTL1) \cup Requests(DTLB, "LQ")
                          \cup Requests(L1D, "LQ")
      PROVE  /\ slot \in LQSlots /\ slot \in Nat
             /\ LQ[slot] \in [instr : Nat, op : Nat, producer : Nat]
             /\ LQ[slot].producer = NoStore
  BY <1>1, <1>2 DEF LoadsTracked, Used, Loads
<1>4. ASSUME NEW slot \in Elements(RTS0) \cup Elements(RTS1) \cup Requests(DTLB, "SQ")
      PROVE  /\ slot \in SQSlots /\ slot \in Nat
             /\ SQ[slot] \in [instr : Nat, address : AllAddresses, fetched : BOOLEAN]
             /\ ~SQ[slot].fetched
  BY <1>1, <1>2 DEF StoresTracked, Used, Stores
<1> QED
  BY <1>3, <1>4
-----------------------------------------------------------------------------
\* The steps of operate_lsq that change no instruction.

(***************************************************************************)
(* A store on its way to the DTLB stays tracked.                           *)
(***************************************************************************)
LEMMA TranslateStoreInv ==
  ASSUME IInv, TranslateStore
  PROVE  IInv'
<1> DEFINE slot == Head(RTS0)
<1>1. /\ RTS0 \in Seq(SQSlots) /\ StoresTracked(SQ, RTS0) /\ LoadsTracked(LQ, RTL0)
      /\ RequestsNamed(LQ, SQ) /\ TypeInv /\ RTL0 \in Seq(LQSlots)
  BY InvParts
<1>2. /\ RTS0 # << >> /\ RTS0' = Tail(RTS0) /\ DTLB' = DTLB \cup {Request("SQ", slot)}
      /\ UNCHANGED <<trace, head, tail, next_schedule, rob, fetch_stall, lists, LQ, SQ,
                     SQ_tail, RTL0, RTL1, RTS1, L1D, WQ, counters, seen>>
  BY DEF TranslateStore
<1>3. /\ RTS0' \in Seq(SQSlots) /\ IsInjective(RTS0')
      /\ slot \in SQSlots /\ slot \in Elements(RTS0)
      /\ Elements(RTS0') = Elements(RTS0) \ {slot}
  <2>1. IsInjective(RTS0)
    BY <1>1 DEF StoresTracked
  <2> QED
    BY <1>1, <1>2, <2>1, TakeHead
<1> HIDE DEF slot
<1>4. /\ Requests(DTLB', "SQ") = Requests(DTLB, "SQ") \cup {slot}
      /\ Requests(DTLB', "LQ") = Requests(DTLB, "LQ")
  <2>1. Requests(DTLB', "SQ") = Requests(DTLB, "SQ") \cup {slot}
    BY <1>2, RequestMade
  <2>2. Requests(DTLB', "LQ") = Requests(DTLB, "LQ")
    BY <1>2 DEF Requests, Request
  <2> QED
    BY <2>1, <2>2
<1>5. StoresTracked(SQ, RTS0)'
  BY <1>1, <1>2, <1>3, <1>4, ZenonT(60) DEF StoresTracked
<1>6. LoadsTracked(LQ, RTL0)'
  BY <1>1, <1>2, <1>4 DEF LoadsTracked
<1>7. RequestsNamed(LQ, SQ)'
  <2>1. slot \in Nat /\ SQ[slot].instr \in Nat
    BY <1>3, RequestNamed
  <2>2. /\ Request("SQ", slot) \in [queue : {"LQ", "SQ"}, slot : Nat, instr : Nat]
        /\ Request("SQ", slot).queue = "SQ" /\ Request("SQ", slot).slot = slot
        /\ Request("SQ", slot).instr = SQ[slot].instr
    BY <2>1 DEF Request
  <2> QED
    BY <1>1, <1>2, <2>2 DEF RequestsNamed
<1>8. TypeInv'
  BY <1>1, <1>2 DEF TypeInv, lists
<1> QED
  BY <1>1, <1>2, <1>3, <1>5, <1>6, <1>7, <1>8, EntriesKept

(***************************************************************************)
(* A load on its way to the DTLB stays tracked.                            *)
(***************************************************************************)
LEMMA TranslateLoadInv ==
  ASSUME IInv, TranslateLoad
  PROVE  IInv'
<1> DEFINE slot == Head(RTL0)
<1>1. /\ RTL0 \in Seq(LQSlots) /\ StoresTracked(SQ, RTS0) /\ LoadsTracked(LQ, RTL0)
      /\ RequestsNamed(LQ, SQ) /\ TypeInv /\ RTS0 \in Seq(SQSlots)
  BY InvParts
<1>2. /\ RTL0 # << >> /\ RTL0' = Tail(RTL0) /\ DTLB' = DTLB \cup {Request("LQ", slot)}
      /\ UNCHANGED <<trace, head, tail, next_schedule, rob, fetch_stall, lists, LQ, SQ,
                     SQ_tail, RTL1, RTS0, RTS1, L1D, WQ, counters, seen>>
  BY DEF TranslateLoad
<1>3. /\ RTL0' \in Seq(LQSlots) /\ IsInjective(RTL0')
      /\ slot \in LQSlots /\ slot \in Elements(RTL0)
      /\ Elements(RTL0') = Elements(RTL0) \ {slot}
  <2>1. IsInjective(RTL0)
    BY <1>1 DEF LoadsTracked
  <2> QED
    BY <1>1, <1>2, <2>1, TakeHead
<1> HIDE DEF slot
<1>4. /\ Requests(DTLB', "LQ") = Requests(DTLB, "LQ") \cup {slot}
      /\ Requests(DTLB', "SQ") = Requests(DTLB, "SQ")
  <2>1. Requests(DTLB', "SQ") = Requests(DTLB, "SQ")
    BY <1>2 DEF Requests, Request
  <2>2. Requests(DTLB', "LQ") = Requests(DTLB, "LQ") \cup {slot}
    BY <1>2, RequestMade
  <2> QED
    BY <2>1, <2>2
<1>5. StoresTracked(SQ, RTS0)'
  BY <1>1, <1>2, <1>4 DEF StoresTracked
<1>6. LoadsTracked(LQ, RTL0)'
  <2>1. /\ Elements(RTL0) \cap Requests(DTLB, "LQ") = {}
        /\ Elements(RTL0) \cap Elements(RTL1) = {}
        /\ Elements(RTL0) \cap Requests(L1D, "LQ") = {}
        /\ Requests(DTLB, "LQ") \cap Elements(RTL1) = {}
        /\ Requests(DTLB, "LQ") \cap Requests(L1D, "LQ") = {}
        /\ Elements(RTL1) \cap Requests(L1D, "LQ") = {}
        /\ Elements(RTL0) \cup Requests(DTLB, "LQ") \cup Elements(RTL1) \cup Requests(L1D, "LQ") =
             {x \in Used(LQ) : LQ[x].producer = NoStore}
        /\ slot \in Elements(RTL0)
    BY <1>1, <1>3 DEF LoadsTracked
  <2>2. /\ Elements(RTL0') = Elements(RTL0) \ {slot}
        /\ Requests(DTLB', "LQ") = Requests(DTLB, "LQ") \cup {slot}
        /\ Elements(RTL1') = Elements(RTL1) /\ Requests(L1D', "LQ") = Requests(L1D, "LQ")
    BY <1>2, <1>3, <1>4
  <2>3. /\ Elements(RTL0') \cap Requests(DTLB', "LQ") = {}
        /\ Elements(RTL0') \cap Elements(RTL1') = {}
        /\ Elements(RTL0') \cap Requests(L1D', "LQ") = {}
        /\ Requests(DTLB', "LQ") \cap Elements(RTL1') = {}
        /\ Requests(DTLB', "LQ") \cap Requests(L1D', "LQ") = {}
        /\ Elements(RTL1') \cap Requests(L1D', "LQ") = {}
    BY <2>1, <2>2
  <2>4. Elements(RTL0') \cup Requests(DTLB', "LQ") \cup Elements(RTL1') \cup Requests(L1D', "LQ") =
             {x \in Used(LQ) : LQ[x].producer = NoStore}
    BY <2>1, <2>2
  <2> QED
    BY <1>2, <1>3, <1>4, <2>3, <2>4, <1>1 DEF LoadsTracked
<1>7. RequestsNamed(LQ, SQ)'
  <2>1. slot \in Nat /\ LQ[slot].instr \in Nat
    BY <1>3, RequestNamed
  <2>2. /\ Request("LQ", slot) \in [queue : {"LQ", "SQ"}, slot : Nat, instr : Nat]
        /\ Request("LQ", slot).queue = "LQ" /\ Request("LQ", slot).slot = slot
        /\ Request("LQ", slot).instr = LQ[slot].instr
    BY <2>1 DEF Request
  <2> QED
    BY <1>1, <1>2, <2>2 DEF RequestsNamed
<1>8. TypeInv'
  BY <1>1, <1>2 DEF TypeInv, lists
<1> QED
  BY <1>1, <1>2, <1>3, <1>5, <1>6, <1>7, <1>8, EntriesKept

(***************************************************************************)
(* A translated load or store stays tracked.                               *)
(***************************************************************************)
LEMMA TranslatedInv ==
  ASSUME IInv, NEW r \in DTLB, Translated(r)
  PROVE  IInv'
<1> DEFINE slot == r.slot
<1>1. /\ RTL0 \in Seq(LQSlots) /\ StoresTracked(SQ, RTS0) /\ LoadsTracked(LQ, RTL0)
      /\ RequestsNamed(LQ, SQ) /\ TypeInv /\ RTS0 \in Seq(SQSlots)
      /\ RTL1 \in Seq(LQSlots) /\ RTS1 \in Seq(SQSlots)
  BY InvParts DEF TypeInv
<1>2. /\ DTLB' = DTLB \ {r}
      /\ IF r.queue = "SQ" THEN RTS1' = Append(RTS1, slot) /\ UNCHANGED RTL1
         ELSE RTL1' = Append(RTL1, slot) /\ UNCHANGED RTS1
      /\ UNCHANGED <<trace, head, tail, next_schedule, rob, fetch_stall, lists, LQ, SQ,
                     SQ_tail, RTL0, RTS0, L1D, WQ, counters, seen>>
  BY DEF Translated
<1>3. r.queue \in {"LQ", "SQ"} /\ slot \in Requests(DTLB, r.queue)
  BY <1>1 DEF RequestsNamed, Requests
<1>4. /\ Requests(DTLB', "SQ") =
           Requests(DTLB, "SQ") \ (IF "SQ" = r.queue THEN {slot} ELSE {})
      /\ Requests(DTLB', "LQ") =
           Requests(DTLB, "LQ") \ (IF "LQ" = r.queue THEN {slot} ELSE {})
  BY <1>1, <1>2, RequestAnswered
<1>5. RequestsNamed(LQ, SQ)'
  BY <1>1, <1>2 DEF RequestsNamed
<1>6. CASE r.queue = "SQ"
  <2>1. /\ RTS1' = Append(RTS1, slot) /\ RTL1' = RTL1
        /\ Requests(DTLB', "SQ") = Requests(DTLB, "SQ") \ {slot}
        /\ Requests(DTLB', "LQ") = Requests(DTLB, "LQ")
        /\ slot \in Requests(DTLB, "SQ")
    BY <1>2, <1>3, <1>4, <1>6
  <2>2. slot \in SQSlots
    BY <2>1, RequestNamed
  <2>3. slot \notin Elements(RTS1) /\ IsInjective(RTS1)
    BY <1>1, <2>1 DEF StoresTracked
  <2> HIDE DEF slot
  <2>4. /\ RTS1' \in Seq(SQSlots) /\ IsInjective(RTS1')
        /\ Elements(RTS1') = Elements(RTS1) \cup {slot}
    BY <1>1, <2>1, <2>2, <2>3, AppendNew
  <2>5. StoresTracked(SQ, RTS0)'
    BY <1>1, <1>2, <2>1, <2>4, ZenonT(60) DEF StoresTracked
  <2>6. LoadsTracked(LQ, RTL0)'
    BY <1>1, <1>2, <2>1 DEF LoadsTracked
  <2>7. TypeInv'
    BY <1>1, <1>2, <2>1, <2>4 DEF TypeInv, lists
  <2> QED
    BY <1>1, <1>2, <1>5, <2>5, <2>6, <2>7, EntriesKept
<1>7. CASE r.queue = "LQ"
  <2>1. /\ RTL1' = Append(RTL1, slot) /\ RTS1' = RTS1
        /\ Requests(DTLB', "LQ") = Requests(DTLB, "LQ") \ {slot}
        /\ Requests(DTLB', "SQ") = Requests(DTLB, "SQ")
        /\ slot \in Requests(DTLB, "LQ")
    BY <1>2, <1>3, <1>4, <1>7
  <2>2. slot \in LQSlots
    BY <2>1, RequestNamed
  <2>3. slot \notin Elements(RTL1) /\ IsInjective(RTL1)
    BY <1>1, <2>1 DEF LoadsTracked
  <2> HIDE DEF slot
  <2>4. /\ RTL1' \in Seq(LQSlots) /\ IsInjective(RTL1')
        /\ Elements(RTL1') = Elements(RTL1) \cup {slot}
    BY <1>1, <2>1, <2>2, <2>3, AppendNew
  <2>5. StoresTracked(SQ, RTS0)'
    BY <1>1, <1>2, <2>1 DEF StoresTracked
  <2>6. LoadsTracked(LQ, RTL0)'
    <3>1. /\ Requests(DTLB, "LQ") \cap Elements(RTL1) = {}
          /\ Requests(DTLB, "LQ") \cap Elements(RTL0) = {}
          /\ Requests(DTLB, "LQ") \cap Requests(L1D, "LQ") = {}
          /\ Elements(RTL1) \cap Elements(RTL0) = {}
          /\ Elements(RTL1) \cap Requests(L1D, "LQ") = {}
          /\ Elements(RTL0) \cap Requests(L1D, "LQ") = {}
          /\ Requests(DTLB, "LQ") \cup Elements(RTL1) \cup Elements(RTL0) \cup Requests(L1D, "LQ") =
               {x \in Used(LQ) : LQ[x].producer = NoStore}
          /\ slot \in Requests(DTLB, "LQ")
      BY <1>1, <2>1 DEF LoadsTracked
    <3>2. /\ Requests(DTLB', "LQ") = Requests(DTLB, "LQ") \ {slot}
          /\ Elements(RTL1') = Elements(RTL1) \cup {slot}
          /\ Elements(RTL0') = Elements(RTL0) /\ Requests(L1D', "LQ") = Requests(L1D, "LQ")
      BY <1>2, <2>1, <2>4
    <3>3. /\ Requests(DTLB', "LQ") \cap Elements(RTL1') = {}
          /\ Requests(DTLB', "LQ") \cap Elements(RTL0') = {}
          /\ Requests(DTLB', "LQ") \cap Requests(L1D', "LQ") = {}
          /\ Elements(RTL1') \cap Elements(RTL0') = {}
          /\ Elements(RTL1') \cap Requests(L1D', "LQ") = {}
          /\ Elements(RTL0') \cap Requests(L1D', "LQ") = {}
      BY <3>1, <3>2
    <3>4. Requests(DTLB', "LQ") \cup Elements(RTL1') \cup Elements(RTL0') \cup Requests(L1D', "LQ") =
               {x \in Used(LQ) : LQ[x].producer = NoStore}
      BY <3>1, <3>2
    <3> QED
      BY <1>2, <2>1, <2>4, <3>3, <3>4, <1>1 DEF LoadsTracked
  <2>7. TypeInv'
    BY <1>1, <1>2, <2>1, <2>4 DEF TypeInv, lists
  <2> QED
    BY <1>1, <1>2, <1>5, <2>5, <2>6, <2>7, EntriesKept
<1> QED
  BY <1>3, <1>6, <1>7

(***************************************************************************)
(* A load on its way to the L1D stays tracked.                             *)
(***************************************************************************)
LEMMA ExecuteLoadInv ==
  ASSUME IInv, execute_load
  PROVE  IInv'
<1> DEFINE slot == Head(RTL1)
<1>1. /\ RTL0 \in Seq(LQSlots) /\ StoresTracked(SQ, RTS0) /\ LoadsTracked(LQ, RTL0)
      /\ RequestsNamed(LQ, SQ) /\ TypeInv /\ RTS0 \in Seq(SQSlots)
      /\ RTL1 \in Seq(LQSlots)
  BY InvParts DEF TypeInv
<1>2. /\ RTL1 # << >> /\ RTL1' = Tail(RTL1) /\ L1D' = L1D \cup {Request("LQ", slot)}
      /\ UNCHANGED <<trace, head, tail, next_schedule, rob, fetch_stall, lists, LQ, SQ,
                     SQ_tail, RTL0, RTS0, RTS1, DTLB, WQ, counters, seen>>
  BY DEF execute_load
<1>3. /\ RTL1' \in Seq(LQSlots) /\ IsInjective(RTL1')
      /\ slot \in LQSlots /\ slot \in Elements(RTL1)
      /\ Elements(RTL1') = Elements(RTL1) \ {slot}
  <2>1. IsInjective(RTL1)
    BY <1>1 DEF LoadsTracked
  <2> QED
    BY <1>1, <1>2, <2>1, TakeHead
<1> HIDE DEF slot
<1>4. Requests(L1D', "LQ") = Requests(L1D, "LQ") \cup {slot}
  <2>1. Requests(L1D', "LQ") = Requests(L1D, "LQ") \cup {slot}
    BY <1>2, RequestMade
  <2> QED
    BY <2>1
<1>5. StoresTracked(SQ, RTS0)'
  BY <1>1, <1>2 DEF StoresTracked
<1>6. LoadsTracked(LQ, RTL0)'
  <2>1. /\ Elements(RTL1) \cap Requests(L1D, "LQ") = {}
        /\ Elements(RTL1) \cap Elements(RTL0) = {}
        /\ Elements(RTL1) \cap Requests(DTLB, "LQ") = {}
        /\ Requests(L1D, "LQ") \cap Elements(RTL0) = {}
        /\ Requests(L1D, "LQ") \cap Requests(DTLB, "LQ") = {}
        /\ Elements(RTL0) \cap Requests(DTLB, "LQ") = {}
        /\ Elements(RTL1) \cup Requests(L1D, "LQ") \cup Elements(RTL0) \cup Requests(DTLB, "LQ") =
             {x \in Used(LQ) : LQ[x].producer = NoStore}
        /\ slot \in Elements(RTL1)
    BY <1>1, <1>3 DEF LoadsTracked
  <2>2. /\ Elements(RTL1') = Elements(RTL1) \ {slot}
        /\ Requests(L1D', "LQ") = Requests(L1D, "LQ") \cup {slot}
        /\ Elements(RTL0') = Elements(RTL0) /\ Requests(DTLB', "LQ") = Requests(DTLB, "LQ")
    BY <1>2, <1>3, <1>4
  <2>3. /\ Elements(RTL1') \cap Requests(L1D', "LQ") = {}
        /\ Elements(RTL1') \cap Elements(RTL0') = {}
        /\ Elements(RTL1') \cap Requests(DTLB', "LQ") = {}
        /\ Requests(L1D', "LQ") \cap Elements(RTL0') = {}
        /\ Requests(L1D', "LQ") \cap Requests(DTLB', "LQ") = {}
        /\ Elements(RTL0') \cap Requests(DTLB', "LQ") = {}
    BY <2>1, <2>2
  <2>4. Elements(RTL1') \cup Requests(L1D', "LQ") \cup Elements(RTL0') \cup Requests(DTLB', "LQ") =
             {x \in Used(LQ) : LQ[x].producer = NoStore}
    BY <2>1, <2>2
  <2> QED
    BY <1>2, <1>3, <1>4, <2>3, <2>4, <1>1 DEF LoadsTracked
<1>7. RequestsNamed(LQ, SQ)'
  <2>1. slot \in Nat /\ LQ[slot].instr \in Nat
    BY <1>3, RequestNamed
  <2>2. /\ Request("LQ", slot) \in [queue : {"LQ", "SQ"}, slot : Nat, instr : Nat]
        /\ Request("LQ", slot).queue = "LQ" /\ Request("LQ", slot).slot = slot
        /\ Request("LQ", slot).instr = LQ[slot].instr
    BY <2>1 DEF Request
  <2> QED
    BY <1>1, <1>2, <2>2 DEF RequestsNamed
<1>8. TypeInv'
  BY <1>1, <1>2, <1>3 DEF TypeInv, lists
<1> QED
  BY <1>1, <1>2, <1>5, <1>6, <1>7, <1>8, EntriesKept

(***************************************************************************)
(* The L1D writes a line back.                                             *)
(***************************************************************************)
LEMMA WrittenInv ==
  ASSUME IInv, NEW a \in WQ, Written(a)
  PROVE  IInv'
<1>1. /\ WQ' = WQ \ {a}
      /\ UNCHANGED <<trace, head, tail, next_schedule, rob, fetch_stall, lists, queues, DTLB,
                     L1D, counters, seen>>
  BY DEF Written
<1>2. /\ UNCHANGED <<LQ, SQ, SQ_tail, RTL0, RTL1, RTS0, RTS1>> /\ UNCHANGED <<RTE0, RTE1>>
  BY <1>1 DEF queues, lists
<1>3. /\ RTL0 \in Seq(LQSlots) /\ StoresTracked(SQ, RTS0) /\ LoadsTracked(LQ, RTL0)
      /\ RequestsNamed(LQ, SQ) /\ TypeInv /\ RTS0 \in Seq(SQSlots)
  BY InvParts
<1>4. IsFiniteSet(WQ') /\ Cardinality(WQ') <= WQ_SIZE
  <2>1. IsFiniteSet(WQ) /\ Cardinality(WQ) <= WQ_SIZE /\ WQ_SIZE \in Nat
    BY <1>3, Sizes DEF TypeInv, lists
  <2>2. IsFiniteSet(WQ') /\ Cardinality(WQ') = Cardinality(WQ) - 1
        /\ Cardinality(WQ) \in Nat
    BY <1>1, <2>1, FS_RemoveElement, FS_CardinalityType
  <2> QED
    BY <2>1, <2>2
<1>5. TypeInv'
  BY <1>1, <1>2, <1>3, <1>4 DEF TypeInv
<1>6. LoadsTracked(LQ, RTL0)' /\ StoresTracked(SQ, RTS0)' /\ RequestsNamed(LQ, SQ)'
  BY <1>1, <1>2, <1>3, SameLists
<1> QED
  BY <1>1, <1>2, <1>3, <1>5, <1>6, EntriesKept
-----------------------------------------------------------------------------
\* The steps that execute instructions, and add them to the queues.

(***************************************************************************)
(* The invariant after a step by which no instruction enters, is scheduled *)
(* or retires.                                                             *)
(***************************************************************************)
LEMMA StepInv ==
  ASSUME UNCHANGED <<trace, head, tail, next_schedule>>, TypeInv',
         rob' \in [DOMAIN trace -> Entries], LQ' \in Loads, SQ' \in Stores,
         SQ_tail' \in SQSlots, STA' \in Seq(Nat),
         RTL0' \in Seq(LQSlots), RTS0' \in Seq(SQSlots),
         inflight_mem_executions' \in Nat, seen' \in SUBSET (Nat \X Nat \X Nat),
         Progress(rob'), LoadsHeld(rob', LQ', SQ'), StoresHeld(rob', SQ'),
         InOrder(SQ', SQ_tail', STA'),
         LoadsTracked(LQ, RTL0)', StoresTracked(SQ, RTS0)', RequestsNamed(LQ, SQ)',
         Counted(rob', LQ', SQ'),
         inflight_mem_executions' = Cardinality(Finished(rob')),
         RegistersCounted(rob'), RightlySeen(seen'), ReadyToExecute',
         inflight_reg_executions' = Cardinality(Executing(rob'))
  PROVE  IInv'
<1>1. /\ (rob \in [DOMAIN trace -> Entries])' /\ (LQ \in Loads)' /\ (SQ \in Stores)'
      /\ (SQ_tail \in SQSlots)' /\ (STA \in Seq(Nat))'
      /\ (RTL0 \in Seq(LQSlots))' /\ (RTS0 \in Seq(SQSlots))'
      /\ (inflight_mem_executions \in Nat)' /\ (seen \in SUBSET (Nat \X Nat \X Nat))'
  BY DEF Entries, Stores, AllAddresses, AllRegisters
<1>2. /\ Progress(rob)' /\ LoadsHeld(rob, LQ, SQ)' /\ StoresHeld(rob, SQ)'
      /\ InOrder(SQ, SQ_tail, STA)' /\ Counted(rob, LQ, SQ)' /\ RegistersCounted(rob)'
      /\ RightlySeen(seen)'
      /\ (inflight_mem_executions = Cardinality(Finished(rob)))'
      /\ (inflight_reg_executions = Cardinality(Executing(rob)))'
  BY SameInstructions
<1> QED
  BY <1>1, <1>2, InvNext

\* No memory operation is added or done, nor is a load made to wait.
SameOps(old, new) ==
  \A j \in DOMAIN trace :
    /\ new[j].lq_index = old[j].lq_index /\ new[j].sq_index = old[j].sq_index
    /\ new[j].num_mem_ops = old[j].num_mem_ops
    /\ new[j].memory_instrs_depend_on_me = old[j].memory_instrs_depend_on_me

(***************************************************************************)
(* Where no memory operation changes, the queues still agree with the      *)
(* entries.                                                                *)
(***************************************************************************)
LEMMA SameOperations ==
  ASSUME TypeInv, NEW old, NEW new, SameOps(old, new), NEW lq, NEW sq
  PROVE  /\ LoadsHeld(old, lq, sq) => LoadsHeld(new, lq, sq)
         /\ StoresHeld(old, sq) => StoresHeld(new, sq)
         /\ Counted(old, lq, sq) => Counted(new, lq, sq)
<1>1. InRob \subseteq DOMAIN trace /\ Scheduled \subseteq InRob
  BY TraceFacts
<1>2. ASSUME NEW slot, NEW e, LoadHeld(slot, e, old, sq)
      PROVE  LoadHeld(slot, e, new, sq)
  BY <1>1, <1>2 DEF LoadHeld, SameOps
<1>3. LoadsHeld(old, lq, sq) => LoadsHeld(new, lq, sq)
  BY <1>2 DEF LoadsHeld
<1>4. StoresHeld(old, sq) => StoresHeld(new, sq)
  BY <1>1 DEF StoresHeld, SameOps
<1>5. Counted(old, lq, sq) => Counted(new, lq, sq)
  BY <1>1 DEF Counted, MissingLoads, MissingStores, SameOps
<1> QED
  BY <1>3, <1>4, <1>5

\* No dependency arises or ends.
SameDependencies(old, new) ==
  \A j \in DOMAIN trace :
    /\ new[j].num_reg_dependent = old[j].num_reg_dependent
    /\ new[j].registers_depend_on_me = old[j].registers_depend_on_me
    /\ new[j].executed = "completed" <=> old[j].executed = "completed"

(***************************************************************************)
(* Where no dependency changes, the registers instructions wait for are    *)
(* still counted, and the same memory instructions are finished.           *)
(***************************************************************************)
LEMMA DependenciesCounted ==
  ASSUME TypeInv, NEW old, NEW new, SameDependencies(old, new)
  PROVE  /\ RegistersCounted(old) => RegistersCounted(new)
         /\ SameOps(old, new) => Finished(new) = Finished(old)
<1>1. InRob \subseteq DOMAIN trace /\ Scheduled \subseteq InRob
  BY TraceFacts
<1>2. ASSUME NEW i
      PROVE  WaitsFor(new, i) = WaitsFor(old, i)
  BY <1>1 DEF WaitsFor, SameDependencies
<1>3. RegistersCounted(old) => RegistersCounted(new)
  BY <1>1, <1>2 DEF RegistersCounted, SameDependencies
<1>4. SameOps(old, new) => Finished(new) = Finished(old)
  BY <1>1 DEF Finished, SameDependencies, SameOps
<1> QED
  BY <1>3, <1>4

(***************************************************************************)
(* Executing an instruction that is ready.                                 *)
(***************************************************************************)
LEMMA DoExecutionInv ==
  ASSUME IInv, NEW i \in InRob, do_execution(i)
  PROVE  IInv'
<1>1. /\ TypeInv /\ ReadyToExecute /\ rob \in [DOMAIN trace -> Entries] /\ Progress(rob)
      /\ RTE0 \in Seq(Nat) /\ RTE1 \in Seq(Nat)
      /\ i \in DOMAIN trace
  BY InvParts, TraceFacts DEF TypeInv
<1>2. /\ rob' = [rob EXCEPT ![i].executed = "inflight"]
      /\ inflight_reg_executions' = inflight_reg_executions + 1
      /\ UNCHANGED <<trace, head, tail, next_schedule, fetch_stall, STA, LQ, SQ, SQ_tail, RTL0,
                     RTL1, RTS0, RTS1, DTLB, L1D, WQ, inflight_mem_executions, seen>>
  BY DEF do_execution, queues
<1>3. /\ RTE0' \in Seq(Nat) /\ RTE1' \in Seq(Nat) /\ IsInjective(RTE0') /\ IsInjective(RTE1')
      /\ i \in Elements(RTE0) \cup Elements(RTE1)
      /\ Elements(RTE0') \cup Elements(RTE1') = (Elements(RTE0) \cup Elements(RTE1)) \ {i}
      /\ Elements(RTE0') \cap Elements(RTE1') = {}
  <2>1. CASE RTE0 # << >> /\ i = Head(RTE0) /\ RTE0' = Tail(RTE0) /\ UNCHANGED RTE1
    <3>1. IsInjective(RTE0)
      BY <1>1 DEF ReadyToExecute
    <3>2. /\ RTE0' \in Seq(Nat) /\ IsInjective(RTE0') /\ i \in Elements(RTE0)
          /\ Elements(RTE0') = Elements(RTE0) \ {i}
      BY <1>1, <2>1, <3>1, TakeHead
    <3> QED
      BY <1>1, <2>1, <3>2 DEF ReadyToExecute
  <2>2. CASE RTE1 # << >> /\ i = Head(RTE1) /\ RTE1' = Tail(RTE1) /\ UNCHANGED RTE0
    <3>1. IsInjective(RTE1)
      BY <1>1 DEF ReadyToExecute
    <3>2. /\ RTE1' \in Seq(Nat) /\ IsInjective(RTE1') /\ i \in Elements(RTE1)
          /\ Elements(RTE1') = Elements(RTE1) \ {i}
      BY <1>1, <2>2, <3>1, TakeHead
    <3> QED
      BY <1>1, <2>2, <3>2 DEF ReadyToExecute
  <2> QED
    BY <2>1, <2>2 DEF do_execution
<1>4. /\ i \in Scheduled /\ ~is_memory(i)
      /\ rob[i].executed = "no" /\ rob[i].num_reg_dependent = 0
  BY <1>1, <1>3 DEF ReadyToExecute
<1>5. /\ rob' \in [DOMAIN trace -> Entries]
      /\ rob'[i] = [rob[i] EXCEPT !.executed = "inflight"]
      /\ \A j \in DOMAIN trace \ {i} : rob'[j] = rob[j]
  <2>1. [rob[i] EXCEPT !.executed = "inflight"] \in Entries
    BY <1>1, ZenonT(60) DEF Entries, Stages
  <2> QED
    BY <1>1, <1>2, <2>1
<1>6. rob[i] \in Entries
  BY <1>1
<1>7. /\ rob'[i].executed = "inflight"
      /\ rob'[i].num_reg_dependent = rob[i].num_reg_dependent
      /\ rob'[i].registers_depend_on_me = rob[i].registers_depend_on_me
      /\ rob'[i].lq_index = rob[i].lq_index /\ rob'[i].sq_index = rob[i].sq_index
      /\ rob'[i].num_mem_ops = rob[i].num_mem_ops
      /\ rob'[i].memory_instrs_depend_on_me = rob[i].memory_instrs_depend_on_me
      /\ rob'[i].scheduled = rob[i].scheduled
  BY <1>5, <1>6 DEF Entries
<1>8. SameOps(rob, rob') /\ SameDependencies(rob, rob')
  <2>1. SameOps(rob, rob')
    BY <1>5, <1>7 DEF SameOps
  <2>2. SameDependencies(rob, rob')
    BY <1>4, <1>5, <1>7 DEF SameDependencies
  <2> QED
    BY <2>1, <2>2
<1>9. Progress(rob')
  <2>1. \A j \in DOMAIN trace : ProgressOf(j, rob[j])
    BY <1>1 DEF Progress
  <2>2. ProgressOf(i, rob'[i])
    <3>1. ProgressOf(i, rob[i])
      BY <1>1, <2>1
    <3> QED
      BY <1>4, <1>7, <3>1 DEF ProgressOf
  <2> QED
    BY <1>5, <2>1, <2>2 DEF Progress
<1>10. inflight_reg_executions' = Cardinality(Executing(rob'))
  <2>1. Executing(rob') = Executing(rob) \cup {i} /\ i \notin Executing(rob)
    <3>1. InRob \subseteq DOMAIN trace
      BY <1>1, TraceFacts
    <3>2. i \notin Executing(rob) /\ i \in Executing(rob')
      BY <1>4, <1>7 DEF Executing
    <3>3. \A j \in InRob \ {i} : j \in Executing(rob') <=> j \in Executing(rob)
      BY <1>5, <3>1 DEF Executing
    <3>4. Executing(rob) \subseteq InRob /\ Executing(rob') \subseteq InRob
      BY DEF Executing
    <3> QED
      BY <3>2, <3>3, <3>4
  <2>2. IsFiniteSet(Executing(rob))
    BY InvParts, CountsAreFinite
  <2>3. Cardinality(Executing(rob')) = Cardinality(Executing(rob)) + 1
    BY <2>1, <2>2, FS_AddElement
  <2> QED
    BY <1>2, <2>3, InvParts
<1>11. ReadyToExecute'
  <2>1. ASSUME NEW j \in Elements(RTE0') \cup Elements(RTE1')
        PROVE  /\ j \in Scheduled /\ ~is_memory(j)
               /\ rob'[j].executed = "no" /\ rob'[j].num_reg_dependent = 0
    <3>1. j \in Elements(RTE0) \cup Elements(RTE1) /\ j # i
      BY <1>3
    <3>2. /\ j \in Scheduled /\ ~is_memory(j)
          /\ rob[j].executed = "no" /\ rob[j].num_reg_dependent = 0
      BY <1>1, <3>1 DEF ReadyToExecute
    <3>3. j \in DOMAIN trace
      BY <1>1, <3>2, TraceFacts
    <3> QED
      BY <1>5, <3>1, <3>2, <3>3
  <2> QED
    BY <1>2, <1>3, <2>1 DEF ReadyToExecute, Scheduled, is_memory
<1>12. TypeInv'
  BY <1>1, <1>2, <1>3 DEF TypeInv
<1>13. LoadsTracked(LQ, RTL0)' /\ StoresTracked(SQ, RTS0)' /\ RequestsNamed(LQ, SQ)'
  BY <1>2, SameLists, InvParts
<1>14. /\ LoadsHeld(rob', LQ', SQ') /\ StoresHeld(rob', SQ') /\ Counted(rob', LQ', SQ')
       /\ RegistersCounted(rob') /\ Finished(rob') = Finished(rob)
  BY <1>1, <1>2, <1>8, SameOperations, DependenciesCounted, InvParts
<1> QED
  BY <1>2, <1>5, <1>9, <1>10, <1>11, <1>12, <1>13, <1>14, InvParts, StepInv

(***************************************************************************)
(* Adding what finds room in the queues.  An instruction all operands of   *)
(* which are added is executing.                                           *)
(***************************************************************************)
LEMMA DoMemorySchedulingInv ==
  ASSUME IInv, NEW i \in InRob, do_memory_scheduling(i)
  PROVE  IInv'
<1> DEFINE s == check_and_add_lsq(i)
<1>1. /\ TypeInv /\ LsqInv(Adding) /\ rob \in [DOMAIN trace -> Entries] /\ Progress(rob)
      /\ i \in DOMAIN trace
  BY InvParts, TraceFacts DEF IInv
<1>2. /\ is_memory(i) /\ rob[i].scheduled = "inflight" /\ rob[i].num_reg_dependent = 0
      /\ \/ rob' = s.rob
         \/ rob' = [s.rob EXCEPT ![i].scheduled = "completed", ![i].executed = "inflight"]
      /\ LQ' = s.LQ /\ SQ' = s.SQ /\ SQ_tail' = s.SQ_tail
      /\ STA' = s.STA /\ RTL0' = s.RTL0 /\ RTS0' = s.RTS0
      /\ inflight_mem_executions' = s.done
      /\ seen' = s.seen
      /\ UNCHANGED <<trace, head, tail, next_schedule, fetch_stall, RTE0, RTE1, RTL1,
                     RTS1, DTLB, L1D, WQ, inflight_reg_executions>>
  BY DEF do_memory_scheduling, CanAdd
<1>3. i \in Scheduled /\ rob[i].executed = "no"
  <2>1. ProgressOf(i, rob[i])
    BY <1>1 DEF Progress
  <2> QED
    BY <1>2, <2>1 DEF ProgressOf, Blank
<1>4. LsqInv(s) /\ SameStages(rob, s.rob)
  BY <1>1, <1>3, OperandsAdded
<1> HIDE DEF s
<1>5. /\ s.rob \in [DOMAIN trace -> Entries] /\ LQ' \in Loads /\ SQ' \in Stores
      /\ SQ_tail' \in SQSlots /\ STA' \in Seq(Nat)
      /\ RTL0' \in Seq(LQSlots) /\ RTS0' \in Seq(SQSlots)
      /\ inflight_mem_executions' \in Nat /\ seen' \in SUBSET (Nat \X Nat \X Nat)
  BY <1>2, <1>4 DEF LsqInv, AddingType
<1>6. /\ Progress(s.rob) /\ LoadsHeld(s.rob, LQ', SQ') /\ StoresHeld(s.rob, SQ')
      /\ InOrder(SQ', SQ_tail', STA')
      /\ LoadsTracked(LQ', RTL0') /\ StoresTracked(SQ', RTS0') /\ RequestsNamed(LQ', SQ')
      /\ Counted(s.rob, LQ', SQ')
      /\ inflight_mem_executions' = Cardinality(Finished(s.rob))
      /\ RegistersCounted(s.rob) /\ RightlySeen(seen')
  BY <1>2, <1>4 DEF LsqInv
<1>7. /\ s.rob[i].executed = "no" /\ s.rob[i].num_reg_dependent = 0
      /\ s.rob[i].scheduled = "inflight"
  BY <1>1, <1>2, <1>3, <1>4 DEF SameStages
<1>8. /\ rob' \in [DOMAIN trace -> Entries]
      /\ \A j \in DOMAIN trace \ {i} : rob'[j] = s.rob[j]
      /\ SameOps(s.rob, rob') /\ SameDependencies(s.rob, rob')
      /\ rob'[i].num_reg_dependent = 0
      /\ rob'[i].executed \in {"no", "inflight"}
      /\ rob'[i].scheduled = "inflight" => rob'[i].executed = "no"
  <2>1. CASE rob' = s.rob
    BY <1>5, <1>7, <2>1 DEF SameOps, SameDependencies
  <2>2. CASE rob' = [s.rob EXCEPT ![i].scheduled = "completed", ![i].executed = "inflight"]
    <3>1. s.rob[i] \in Entries
      BY <1>1, <1>5
    <3> DEFINE e == [s.rob[i] EXCEPT !.scheduled = "completed", !.executed = "inflight"]
    <3>2. /\ e \in Entries
          /\ e.scheduled = "completed" /\ e.executed = "inflight"
          /\ e.num_reg_dependent = s.rob[i].num_reg_dependent
          /\ e.registers_depend_on_me = s.rob[i].registers_depend_on_me
          /\ e.lq_index = s.rob[i].lq_index /\ e.sq_index = s.rob[i].sq_index
          /\ e.num_mem_ops = s.rob[i].num_mem_ops
          /\ e.memory_instrs_depend_on_me = s.rob[i].memory_instrs_depend_on_me
      BY <3>1 DEF Entries, Stages
    <3>3. rob' = [s.rob EXCEPT ![i] = e]
      BY <1>1, <1>5, <2>2
    <3> HIDE DEF e
    <3>4. /\ rob' \in [DOMAIN trace -> Entries] /\ rob'[i] = e
          /\ \A j \in DOMAIN trace \ {i} : rob'[j] = s.rob[j]
      BY <1>1, <1>5, <3>2, <3>3
    <3>5. SameOps(s.rob, rob')
      BY <3>2, <3>4 DEF SameOps
    <3>6. SameDependencies(s.rob, rob')
      BY <1>7, <3>2, <3>4 DEF SameDependencies
    <3> QED
      BY <1>7, <3>2, <3>4, <3>5, <3>6
  <2> QED
    BY <1>2, <2>1, <2>2
<1>9. Progress(rob')
  <2>1. \A j \in DOMAIN trace : ProgressOf(j, s.rob[j])
    BY <1>6 DEF Progress
  <2>2. ProgressOf(i, rob'[i])
    <3>1. ProgressOf(i, s.rob[i])
      BY <1>1, <2>1
    <3>2. /\ rob'[i].registers_depend_on_me = s.rob[i].registers_depend_on_me
          /\ rob'[i].lq_index = s.rob[i].lq_index /\ rob'[i].sq_index = s.rob[i].sq_index
          /\ rob'[i].memory_instrs_depend_on_me = s.rob[i].memory_instrs_depend_on_me
      BY <1>1, <1>8 DEF SameOps, SameDependencies
    <3> QED
      BY <1>3, <1>8, <3>1, <3>2 DEF ProgressOf
  <2> QED
    BY <1>8, <2>1, <2>2 DEF Progress
<1>10. /\ LoadsHeld(rob', LQ', SQ') /\ StoresHeld(rob', SQ') /\ Counted(rob', LQ', SQ')
       /\ RegistersCounted(rob') /\ Finished(rob') = Finished(s.rob)
  BY <1>1, <1>6, <1>8, SameOperations, DependenciesCounted
<1>11. Executing(rob') = Executing(rob)
  <2>1. Executing(s.rob) = Executing(rob)
    BY <1>1, <1>4, SameRegisters
  <2>2. Executing(rob') = Executing(s.rob)
    BY <1>1, <1>2, <1>8, TraceFacts, ZenonT(60) DEF Executing
  <2> QED
    BY <2>1, <2>2
<1>12. ReadyToExecute'
  <2>1. ASSUME NEW j \in Elements(RTE0) \cup Elements(RTE1)
        PROVE  /\ j \in Scheduled /\ ~is_memory(j)
               /\ rob'[j].executed = "no" /\ rob'[j].num_reg_dependent = 0
    <3>1. /\ j \in Scheduled /\ ~is_memory(j)
          /\ rob[j].executed = "no" /\ rob[j].num_reg_dependent = 0
      BY InvParts DEF ReadyToExecute
    <3>2. j \in DOMAIN trace /\ j # i
      BY <1>1, <1>2, <3>1, TraceFacts
    <3> QED
      BY <1>4, <1>8, <3>1, <3>2 DEF SameStages
  <2> QED
    BY <1>2, <2>1, InvParts DEF ReadyToExecute, Scheduled, is_memory
<1>13. TypeInv'
  BY <1>1, <1>2 DEF TypeInv
<1>14. LoadsTracked(LQ, RTL0)' /\ StoresTracked(SQ, RTS0)' /\ RequestsNamed(LQ, SQ)'
  BY <1>2, <1>6, SameLists
<1>15. /\ inflight_mem_executions' = Cardinality(Finished(rob'))
       /\ inflight_reg_executions' = Cardinality(Executing(rob'))
  BY <1>2, <1>6, <1>10, <1>11, InvParts
<1> QED
  BY <1>2, <1>5, <1>6, <1>8, <1>9, <1>10, <1>12, <1>13, <1>14, <1>15, StepInv

(***************************************************************************)
(* The elements of two lists put together.                                 *)
(***************************************************************************)
LEMMA Concatenation ==
  ASSUME NEW S, NEW first \in Seq(S), NEW second \in Seq(S)
  PROVE  /\ first \o second \in Seq(S)
         /\ DOMAIN (first \o second) = 1 .. Len(first) + Len(second)
         /\ \A k \in 1 .. Len(first) + Len(second) :
              (first \o second)[k] =
                IF k <= Len(first) THEN first[k] ELSE second[k - Len(first)]
OBVIOUS

(***************************************************************************)
(* Putting together two lists that have no element in common.              *)
(***************************************************************************)
LEMMA Concatenated ==
  ASSUME NEW S, NEW first \in Seq(S), NEW second \in Seq(S)
  PROVE  /\ first \o second \in Seq(S)
         /\ Elements(first \o second) = Elements(first) \cup Elements(second)
         /\ (/\ IsInjective(first) /\ IsInjective(second)
             /\ Elements(first) \cap Elements(second) = {})
            => IsInjective(first \o second)
<1> DEFINE both == first \o second
           n == Len(first)
           m == Len(second)
<1>1. /\ both \in Seq(S) /\ n \in Nat /\ m \in Nat
      /\ DOMAIN first = 1 .. n /\ DOMAIN second = 1 .. m /\ DOMAIN both = 1 .. n + m
      /\ \A k \in 1 .. n + m : both[k] = IF k <= n THEN first[k] ELSE second[k - n]
  OBVIOUS
<1> HIDE DEF both, n, m
<1>2. \A k \in DOMAIN both :
        \/ k \in DOMAIN first /\ both[k] = first[k]
        \/ k - n \in DOMAIN second /\ both[k] = second[k - n]
  BY <1>1
<1>3. \A k \in DOMAIN first : k \in DOMAIN both /\ both[k] = first[k]
  BY <1>1
<1>4. \A k \in DOMAIN second : k + n \in DOMAIN both /\ both[k + n] = second[k]
  <2>1. ASSUME NEW k \in 1 .. m
        PROVE  k + n \in 1 .. n + m /\ ~(k + n <= n) /\ k + n - n = k
    BY <1>1
  <2> QED
    BY <1>1, <2>1
<1>5. Elements(both) = Elements(first) \cup Elements(second)
  BY <1>2, <1>3, <1>4 DEF Elements
<1>6. ASSUME IsInjective(first), IsInjective(second), Elements(first) \cap Elements(second) = {}
      PROVE  IsInjective(both)
  <2>1. ASSUME NEW k \in DOMAIN both, NEW l \in DOMAIN both, both[k] = both[l]
        PROVE  k = l
    <3>1. CASE k \in DOMAIN first /\ both[k] = first[k] /\ l \in DOMAIN first /\ both[l] = first[l]
      BY <1>6, <2>1, <3>1 DEF IsInjective
    <3>2. CASE /\ k - n \in DOMAIN second /\ both[k] = second[k - n]
               /\ l - n \in DOMAIN second /\ both[l] = second[l - n]
      <4>1. k - n = l - n
        BY <1>6, <2>1, <3>2 DEF IsInjective
      <4> QED
        BY <1>1, <4>1
    <3>3. CASE /\ k \in DOMAIN first /\ both[k] = first[k]
               /\ l - n \in DOMAIN second /\ both[l] = second[l - n]
      BY <1>6, <2>1, <3>3 DEF Elements
    <3>4. CASE /\ l \in DOMAIN first /\ both[l] = first[l]
               /\ k - n \in DOMAIN second /\ both[k] = second[k - n]
      BY <1>6, <2>1, <3>4 DEF Elements
    <3> QED
      BY <1>2, <3>1, <3>2, <3>3, <3>4
  <2> QED
    BY <2>1 DEF IsInjective
<1> QED
  BY <1>1, <1>5, <1>6 DEF both

(***************************************************************************)
(* An instruction that is not a memory instruction has no operation to do. *)
(***************************************************************************)
LEMMA NoOperations ==
  ASSUME TypeInv, NEW entries, NEW lq \in Loads, NEW sq \in Stores,
         Progress(entries), LoadsHeld(entries, lq, sq), StoresHeld(entries, sq),
         Counted(entries, lq, sq),
         NEW i \in InRob, ~is_memory(i)
  PROVE  entries[i].num_mem_ops = 0
<1>1. DOMAIN trace[i].loads = {} /\ DOMAIN trace[i].stores = {}
  BY DEF is_memory
<1>2. i \in DOMAIN trace
  BY TraceFacts
<1>3. DOMAIN entries[i].lq_index = {} /\ DOMAIN entries[i].sq_index = {}
  BY <1>1, <1>2 DEF Progress, ProgressOf
<1>4. MissingLoads(entries, i) = {} /\ MissingStores(entries, i) = {}
  BY <1>1 DEF MissingLoads, MissingStores
<1>5. HeldLoads(lq, i) = {}
  BY <1>3 DEF HeldLoads, LoadsHeld, LoadHeld
<1>6. HeldStores(sq, i) = {}
  BY <1>3 DEF HeldStores, StoresHeld, Elements
<1>7. Cardinality({}) = 0
  BY FS_EmptySet
<1> QED
  BY <1>4, <1>5, <1>6, <1>7 DEF Counted

\* What an instruction no longer waits for when i is executed.
Released(entries, i, d) == {w \in WaitsFor(entries, d) : w[1] = i}

(***************************************************************************)
(* The number of registers for which an instruction waits for another is   *)
(* that of the marks the other has of it.                                  *)
(***************************************************************************)
LEMMA WaitsCounted ==
  ASSUME TypeInv, rob \in [DOMAIN trace -> Entries], Progress(rob), RegistersCounted(rob),
         NEW i \in InRob, rob[i].executed # "completed", NEW d \in DOMAIN trace,
         NEW marks, marks = {q \in rob[i].registers_depend_on_me : q[1] = d}
  PROVE  /\ Cardinality(marks) \in Nat
         /\ d \in Scheduled =>
              /\ IsFiniteSet(WaitsFor(rob, d))
              /\ Cardinality(Released(rob, i, d)) = Cardinality(marks)
              /\ Cardinality(marks) <= rob[d].num_reg_dependent
         /\ d \notin Scheduled \/ d = i => marks = {} /\ Cardinality(marks) = 0
<1>1. i \in DOMAIN trace /\ ProgressOf(i, rob[i]) /\ IsFiniteSet(InRob)
      /\ IsFiniteSet(trace[d].reads) /\ head \in Nat \ {0} /\ next_schedule \in Nat
      /\ Scheduled \subseteq InRob /\ i \in Nat /\ head <= i
  <2>1. /\ IsFiniteSet(InRob) /\ Scheduled \subseteq InRob /\ InRob \subseteq DOMAIN trace
        /\ IsFiniteSet(trace[d].reads)
    BY TraceFacts
  <2>2. head \in Nat /\ head > 0 /\ next_schedule \in Nat /\ tail \in Nat
    BY Positions
  <2>3. i \in Nat /\ head <= i
    BY <2>2 DEF InRob
  <2>4. i \in DOMAIN trace /\ ProgressOf(i, rob[i])
    BY <2>1 DEF Progress
  <2> QED
    BY <2>1, <2>2, <2>3, <2>4
<1>2. rob[i].registers_depend_on_me \in SUBSET (Nat \X AllRegisters)
  BY <1>1 DEF Entries
<1>3. \A q \in marks : q = <<d, q[2]>> /\ q[2] \in trace[d].reads /\ d \in Scheduled /\ d # i
  <2>1. ASSUME NEW q \in marks
        PROVE  q = <<d, q[2]>> /\ q[2] \in trace[d].reads /\ d \in Scheduled /\ d # i
    <3>1. q \in Nat \X AllRegisters /\ q[1] = d
      BY <1>2, <2>1
    <3>2. d \in i + 1 .. next_schedule - 1 /\ q[2] \in trace[d].reads
      BY <1>1, <3>1 DEF ProgressOf
    <3>3. d \in Scheduled /\ d # i
      BY <1>1, <3>2 DEF Scheduled
    <3> QED
      BY <3>1, <3>2, <3>3
  <2> QED
    BY <2>1
<1>4. ASSUME d \notin Scheduled \/ d = i
      PROVE  marks = {} /\ Cardinality(marks) = 0
  BY <1>3, <1>4, FS_EmptySet
<1>5. ASSUME d \in Scheduled
      PROVE  /\ IsFiniteSet(WaitsFor(rob, d)) /\ IsFiniteSet(marks)
             /\ Cardinality(Released(rob, i, d)) = Cardinality(marks)
             /\ Cardinality(marks) <= rob[d].num_reg_dependent
  <2>1. IsFiniteSet(WaitsFor(rob, d))
    <3>1. IsFiniteSet(InRob \X trace[d].reads)
      BY <1>1, FS_Product
    <3>2. WaitsFor(rob, d) \in SUBSET (InRob \X trace[d].reads)
      BY DEF WaitsFor
    <3> QED
      BY <3>1, <3>2, FS_Subset
  <2>2. Released(rob, i, d) \in SUBSET WaitsFor(rob, d)
    BY DEF Released
  <2>3. /\ IsFiniteSet(Released(rob, i, d))
        /\ Cardinality(Released(rob, i, d)) <= Cardinality(WaitsFor(rob, d))
    BY <2>1, <2>2, FS_Subset
  <2> DEFINE f == [w \in Released(rob, i, d) |-> <<d, w[2]>>]
  <2>4. \A w \in Released(rob, i, d) : w = <<i, w[2]>> /\ <<d, w[2]>> \in marks
    BY DEF Released, WaitsFor
  <2>5. \A q \in marks : <<i, q[2]>> \in Released(rob, i, d)
    <3>1. ASSUME NEW q \in marks
          PROVE  <<i, q[2]>> \in Released(rob, i, d)
      <4>1. q = <<d, q[2]>> /\ q[2] \in trace[d].reads /\ q \in rob[i].registers_depend_on_me
        BY <1>3
      <4> DEFINE r == q[2]
      <4>2. q = <<d, r>> /\ r \in trace[d].reads /\ <<d, r>> \in rob[i].registers_depend_on_me
        BY <4>1
      <4> HIDE DEF r
      <4>3. <<i, r>> \in InRob \X trace[d].reads
        BY <4>2
      <4>4. <<i, r>> \in WaitsFor(rob, d)
        BY <4>2, <4>3 DEF WaitsFor
      <4>5. <<i, r>> \in Released(rob, i, d)
        BY <4>4 DEF Released
      <4> QED
        BY <4>5 DEF r
    <3> QED
      BY <3>1
  <2>6. marks = {f[w] : w \in Released(rob, i, d)}
    <3>1. ASSUME NEW q \in marks
          PROVE  \E w \in Released(rob, i, d) : f[w] = q
      <4>1. <<i, q[2]>> \in Released(rob, i, d) /\ q = <<d, q[2]>>
        BY <1>3, <2>5
      <4>2. f[<<i, q[2]>>] = q
        BY <4>1
      <4> QED
        BY <4>1, <4>2
    <3>2. ASSUME NEW w \in Released(rob, i, d)
          PROVE  f[w] \in marks
      BY <2>4
    <3> QED
      BY <3>1, <3>2
  <2>7. f = [w \in Released(rob, i, d) |-> f[w]]
    OBVIOUS
  <2>8. ASSUME NEW v \in Released(rob, i, d), NEW w \in Released(rob, i, d), f[v] = f[w]
        PROVE  v = w
    <3>1. v[2] = w[2]
      BY <2>8
    <3> QED
      BY <2>4, <3>1
  <2> HIDE DEF f
  <2>9. IsFiniteSet(marks) /\ Cardinality(marks) = Cardinality(Released(rob, i, d))
    BY <2>3, <2>6, <2>7, <2>8, ImageSize
  <2>10. rob[d].num_reg_dependent = Cardinality(WaitsFor(rob, d))
    BY <1>5 DEF RegistersCounted
  <2> QED
    BY <2>1, <2>3, <2>9, <2>10
<1>6. Cardinality(marks) \in Nat
  BY <1>4, <1>5, FS_CardinalityType
<1> QED
  BY <1>4, <1>5, <1>6

(***************************************************************************)
(* Completing an instruction.                                              *)
(***************************************************************************)
LEMMA CompleteExecutionInv ==
  ASSUME IInv, NEW i \in InRob, complete_execution(i)
  PROVE  IInv'
<1> DEFINE waits(d) == Cardinality({q \in rob[i].registers_depend_on_me : q[1] = d})
           ready == {d \in DOMAIN rob : /\ waits(d) > 0 /\ ~is_memory(d)
                                        /\ rob[d].num_reg_dependent = waits(d)}
<1>1. /\ TypeInv /\ ReadyToExecute /\ rob \in [DOMAIN trace -> Entries] /\ Progress(rob)
      /\ RegistersCounted(rob) /\ RTE0 \in Seq(Nat) /\ RTE1 \in Seq(Nat)
      /\ i \in DOMAIN trace /\ InRob \subseteq DOMAIN trace /\ Scheduled \subseteq InRob
      /\ IsFiniteSet(Scheduled) /\ DOMAIN trace \subseteq Nat /\ DOMAIN rob = DOMAIN trace
  <2>1. /\ TypeInv /\ ReadyToExecute /\ rob \in [DOMAIN trace -> Entries] /\ Progress(rob)
        /\ RegistersCounted(rob)
    BY InvParts
  <2>2. RTE0 \in Seq(Nat) /\ RTE1 \in Seq(Nat)
    BY <2>1, Positions
  <2>3. /\ InRob \subseteq DOMAIN trace /\ Scheduled \subseteq InRob
        /\ IsFiniteSet(Scheduled) /\ Len(trace) \in Nat /\ DOMAIN trace = 1 .. Len(trace)
    BY <2>1, TraceFacts
  <2>4. DOMAIN trace \subseteq Nat
    BY <2>3
  <2> QED
    BY <2>1, <2>2, <2>3, <2>4
<1>2. /\ rob[i].executed = "inflight"
      /\ is_memory(i) => rob[i].num_mem_ops = 0
      /\ rob' = [d \in DOMAIN trace |->
           IF d = i THEN [rob[i] EXCEPT !.executed = "completed"]
           ELSE [rob[d] EXCEPT !.num_reg_dependent = @ - waits(d)]]
      /\ \E order \in [1 .. Cardinality(ready) -> ready] :
           /\ \A m, n \in DOMAIN order : m < n => rob_index(order[m]) < rob_index(order[n])
           /\ RTE0' = RTE0 \o order
      /\ IF is_memory(i)
         THEN /\ inflight_mem_executions' = inflight_mem_executions - 1
              /\ UNCHANGED inflight_reg_executions
         ELSE /\ inflight_reg_executions' = inflight_reg_executions - 1
              /\ UNCHANGED inflight_mem_executions
      /\ fetch_stall' \in BOOLEAN
      /\ UNCHANGED <<trace, head, tail, next_schedule, STA, RTE1, LQ, SQ, SQ_tail, RTL0, RTL1,
                     RTS0, RTS1, DTLB, L1D, WQ, seen>>
  BY <1>1 DEF complete_execution, queues
<1>3. ASSUME NEW d \in DOMAIN trace
      PROVE  /\ waits(d) \in Nat
             /\ d \in Scheduled => /\ waits(d) <= rob[d].num_reg_dependent
                                   /\ Cardinality(Released(rob, i, d)) = waits(d)
                                   /\ IsFiniteSet(WaitsFor(rob, d))
             /\ d \notin Scheduled \/ d = i => waits(d) = 0
  <2>1. PICK marks : marks = {q \in rob[i].registers_depend_on_me : q[1] = d}
    OBVIOUS
  <2>2. waits(d) = Cardinality(marks)
    BY <2>1
  <2>3. rob[i].executed # "completed"
    BY <1>2
  <2> HIDE DEF waits
  <2>4. /\ Cardinality(marks) \in Nat
        /\ d \in Scheduled =>
             /\ IsFiniteSet(WaitsFor(rob, d))
             /\ Cardinality(Released(rob, i, d)) = Cardinality(marks)
             /\ Cardinality(marks) <= rob[d].num_reg_dependent
        /\ d \notin Scheduled \/ d = i => marks = {} /\ Cardinality(marks) = 0
    BY <1>1, <2>1, <2>3, WaitsCounted, ZenonT(60)
  <2> QED
    BY <2>2, <2>4
<1>4. ASSUME NEW d \in DOMAIN trace
      PROVE  rob[d] \in Entries /\ ProgressOf(d, rob[d]) /\ rob[d].num_reg_dependent \in Nat
  BY <1>1 DEF Progress, Entries
<1> HIDE DEF waits
<1>5. /\ rob[i].num_reg_dependent = 0 /\ i \in Scheduled
      /\ ~(is_memory(i) /\ rob[i].scheduled = "inflight")
  BY <1>1, <1>2, <1>4 DEF ProgressOf, Blank
<1>6. rob[i].num_mem_ops = 0
  BY <1>2, InvParts, NoOperations
<1>7. ASSUME NEW d \in DOMAIN trace
      PROVE  rob[d].num_reg_dependent - waits(d) \in Nat
  <2>1. d \notin Scheduled => waits(d) = 0
    BY <1>3
  <2>2. d \in Scheduled => waits(d) <= rob[d].num_reg_dependent
    BY <1>3
  <2>3. waits(d) \in Nat /\ rob[d].num_reg_dependent \in Nat
    BY <1>3, <1>4
  <2> QED
    BY <2>1, <2>2, <2>3
<1>8. ASSUME NEW d \in DOMAIN trace
      PROVE  /\ rob'[d] \in Entries
             /\ rob'[d].scheduled = rob[d].scheduled
             /\ rob'[d].registers_depend_on_me = rob[d].registers_depend_on_me
             /\ rob'[d].lq_index = rob[d].lq_index /\ rob'[d].sq_index = rob[d].sq_index
             /\ rob'[d].num_mem_ops = rob[d].num_mem_ops
             /\ rob'[d].memory_instrs_depend_on_me = rob[d].memory_instrs_depend_on_me
             /\ d = i => rob'[d].executed = "completed"
             /\ d # i => rob'[d].executed = rob[d].executed
             /\ rob'[d].num_reg_dependent = rob[d].num_reg_dependent - waits(d)
             /\ waits(d) = 0 /\ d # i => rob'[d] = rob[d]
  <2>1. rob[d] \in Entries /\ rob[d].num_reg_dependent \in Nat
    BY <1>4
  <2>2. CASE d = i
    <3>1. rob'[d] = [rob[d] EXCEPT !.executed = "completed"]
      BY <1>2, <2>2
    <3>2. waits(d) = 0
      BY <1>3, <2>2
    <3> QED
      BY <2>1, <2>2, <3>1, <3>2 DEF Entries, Stages
  <2>3. CASE d # i
    <3>1. rob'[d] = [rob[d] EXCEPT !.num_reg_dependent = @ - waits(d)]
      BY <1>2, <2>3
    <3>2. rob[d].num_reg_dependent - waits(d) \in Nat
      BY <1>7
    <3> QED
      BY <2>1, <2>3, <3>1, <3>2 DEF Entries
  <2> QED
    BY <2>2, <2>3
<1>9. rob' \in [DOMAIN trace -> Entries]
  BY <1>2, <1>8
<1>10. SameOps(rob, rob')
  BY <1>8 DEF SameOps
<1>11. Progress(rob')
  <2>1. ASSUME NEW d \in DOMAIN trace
        PROVE  ProgressOf(d, rob'[d])
    <3>1. ProgressOf(d, rob[d])
      BY <1>4
    <3>2. CASE d = i
      <4>1. rob'[d].num_reg_dependent = 0
        BY <1>3, <1>5, <1>8, <3>2
      <4>2. d \in InRob /\ d \in Scheduled
        BY <1>5, <3>2
      <4> QED
        BY <1>5, <1>6, <1>8, <3>1, <3>2, <4>1, <4>2 DEF ProgressOf
    <3>3. CASE d # i /\ d \in Scheduled
      <4>1. rob[d].executed # "no" => rob'[d].num_reg_dependent = 0
        <5>1. waits(d) <= rob[d].num_reg_dependent /\ waits(d) \in Nat
          BY <1>3, <3>3
        <5>2. rob[d].executed # "no" => rob[d].num_reg_dependent = 0
          BY <3>1 DEF ProgressOf
        <5> QED
          BY <1>8, <5>1, <5>2
      <4> QED
        BY <1>1, <1>8, <3>1, <3>3, <4>1 DEF ProgressOf
    <3>4. CASE d # i /\ d \notin Scheduled
      <4>1. rob'[d] = rob[d]
        BY <1>3, <1>8, <3>4
      <4> QED
        BY <3>1, <4>1
    <3> QED
      BY <3>2, <3>3, <3>4
  <2> QED
    BY <2>1 DEF Progress
<1>12. RegistersCounted(rob')
  <2>1. ASSUME NEW d \in Scheduled
        PROVE  rob'[d].num_reg_dependent = Cardinality(WaitsFor(rob', d))
    <3>1. WaitsFor(rob', d) = WaitsFor(rob, d) \ Released(rob, i, d)
      <4>1. ASSUME NEW w \in InRob \X trace[d].reads
            PROVE  w \in WaitsFor(rob', d) <=> w \in WaitsFor(rob, d) /\ w[1] # i
        <5>1. w[1] \in DOMAIN trace
          BY <1>1
        <5> QED
          BY <1>8, <5>1 DEF WaitsFor
      <4> QED
        BY <4>1 DEF WaitsFor, Released
    <3>2. /\ IsFiniteSet(WaitsFor(rob, d)) /\ Released(rob, i, d) \subseteq WaitsFor(rob, d)
          /\ Cardinality(Released(rob, i, d)) = waits(d)
      BY <1>1, <1>3 DEF Released
    <3>3. WaitsFor(rob, d) \cap Released(rob, i, d) = Released(rob, i, d)
      BY <3>2
    <3>4. Cardinality(WaitsFor(rob', d)) = Cardinality(WaitsFor(rob, d)) - waits(d)
      <4>1. Cardinality(WaitsFor(rob, d) \ Released(rob, i, d)) =
              Cardinality(WaitsFor(rob, d)) - Cardinality(WaitsFor(rob, d) \cap Released(rob, i, d))
        BY <3>2, FS_Difference
      <4> QED
        BY <3>1, <3>2, <3>3, <4>1
    <3>5. rob[d].num_reg_dependent = Cardinality(WaitsFor(rob, d))
      BY <1>1 DEF RegistersCounted
    <3> QED
      BY <1>1, <1>8, <3>4, <3>5
  <2> QED
    BY <2>1 DEF RegistersCounted
<1>13. /\ inflight_mem_executions' \in Nat
       /\ inflight_mem_executions' = Cardinality(Finished(rob'))
       /\ inflight_reg_executions' = Cardinality(Executing(rob'))
  <2>1. /\ IsFiniteSet(Finished(rob)) /\ IsFiniteSet(Executing(rob))
        /\ inflight_mem_executions = Cardinality(Finished(rob))
        /\ inflight_reg_executions = Cardinality(Executing(rob))
    BY InvParts, CountsAreFinite
  <2>2. Finished(rob') = Finished(rob) \ {i}
    BY <1>1, <1>8 DEF Finished
  <2>3. Executing(rob') = Executing(rob) \ {i}
    BY <1>1, <1>8 DEF Executing
  <2>4. /\ i \in Finished(rob) <=> is_memory(i)
        /\ i \in Executing(rob) <=> ~is_memory(i)
    BY <1>2, <1>6 DEF Finished, Executing
  <2>5. /\ IsFiniteSet(Finished(rob')) /\ IsFiniteSet(Executing(rob'))
        /\ Cardinality(Finished(rob')) = IF is_memory(i) THEN Cardinality(Finished(rob)) - 1
                                         ELSE Cardinality(Finished(rob))
        /\ Cardinality(Executing(rob')) = IF ~is_memory(i) THEN Cardinality(Executing(rob)) - 1
                                          ELSE Cardinality(Executing(rob))
    BY <2>1, <2>2, <2>3, <2>4, FS_RemoveElement
  <2>6. Cardinality(Finished(rob')) \in Nat
    BY <2>5, FS_CardinalityType
  <2>7. CASE is_memory(i)
    BY <1>2, <2>1, <2>5, <2>6, <2>7
  <2>8. CASE ~is_memory(i)
    BY <1>2, <2>1, <2>5, <2>6, <2>8
  <2> QED
    BY <2>7, <2>8
<1>14. /\ RTE0' \in Seq(Nat) /\ ReadyToExecute'
  <2>1. ASSUME NEW d \in ready
        PROVE  /\ d \in Scheduled /\ ~is_memory(d) /\ d \in Nat
               /\ d \notin Elements(RTE0) \cup Elements(RTE1)
               /\ rob'[d].executed = "no" /\ rob'[d].num_reg_dependent = 0
    <3>1. /\ d \in DOMAIN trace /\ waits(d) > 0 /\ ~is_memory(d)
          /\ rob[d].num_reg_dependent = waits(d)
      BY <1>1
    <3>2. waits(d) \in Nat /\ d \in Scheduled /\ d # i
      BY <1>3, <3>1
    <3>3. rob[d].num_reg_dependent # 0
      BY <3>1, <3>2
    <3>4. rob[d].executed = "no" /\ d \notin Elements(RTE0) \cup Elements(RTE1)
      BY <1>1, <1>4, <3>1, <3>3 DEF ProgressOf, ReadyToExecute
    <3> QED
      BY <1>1, <1>8, <3>1, <3>2, <3>4
  <2> HIDE DEF ready
  <2>2. IsFiniteSet(ready) /\ ready \subseteq Nat
    <3>1. ready \in SUBSET Scheduled
      BY <2>1
    <3> QED
      BY <1>1, <2>1, <3>1, FS_Subset
  <2>3. PICK order \in [1 .. Cardinality(ready) -> ready] :
          /\ \A m, n \in DOMAIN order : m < n => rob_index(order[m]) < rob_index(order[n])
          /\ RTE0' = RTE0 \o order
    BY <1>2
  <2>4. order \in Seq(Nat) /\ IsInjective(order) /\ Elements(order) \subseteq ready
    <3>1. Cardinality(ready) \in Nat
      BY <2>2, FS_CardinalityType
    <3>2. order \in Seq(Nat)
      <4>1. order \in [1 .. Cardinality(ready) -> Nat]
        BY <2>2
      <4> QED
        BY <3>1, <4>1
    <3>3. Elements(order) \subseteq ready
      BY DEF Elements
    <3>4. \A d \in ready : rob_index(d) \in Int
      BY <2>2, Sizes DEF rob_index
    <3>5. ASSUME NEW m \in DOMAIN order, NEW n \in DOMAIN order, order[m] = order[n]
          PROVE  m = n
      <4>1. ~(m < n) /\ ~(n < m)
        BY <2>3, <3>4, <3>5
      <4>2. m \in Nat /\ n \in Nat
        BY <3>1
      <4> QED
        BY <4>1, <4>2
    <3> QED
      BY <3>2, <3>3, <3>5 DEF IsInjective
  <2>5. /\ IsInjective(RTE0) /\ IsInjective(RTE1) /\ Elements(RTE0) \cap Elements(RTE1) = {}
        /\ \A d \in Elements(RTE0) \cup Elements(RTE1) :
             /\ d \in Scheduled /\ ~is_memory(d)
             /\ rob[d].executed = "no" /\ rob[d].num_reg_dependent = 0
    BY <1>1 DEF ReadyToExecute
  <2>6. Elements(RTE0) \cap Elements(order) = {}
    BY <2>1, <2>4
  <2>7. /\ RTE0' \in Seq(Nat) /\ IsInjective(RTE0')
        /\ Elements(RTE0') = Elements(RTE0) \cup Elements(order)
    BY <1>1, <2>3, <2>4, <2>5, <2>6, Concatenated
  <2>8. ASSUME NEW d \in Elements(RTE0) \cup Elements(RTE1)
        PROVE  /\ d \in Scheduled /\ ~is_memory(d)
               /\ rob'[d].executed = "no" /\ rob'[d].num_reg_dependent = 0
    <3>1. /\ d \in Scheduled /\ ~is_memory(d)
          /\ rob[d].executed = "no" /\ rob[d].num_reg_dependent = 0
      BY <2>5
    <3>2. d \in DOMAIN trace /\ d # i
      BY <1>1, <1>2, <3>1
    <3>3. waits(d) \in Nat /\ waits(d) <= 0
      BY <1>3, <3>1, <3>2
    <3> QED
      BY <1>8, <3>1, <3>2, <3>3
  <2>9. Elements(RTE0') \cap Elements(RTE1) = {}
    BY <2>1, <2>4, <2>5, <2>7
  <2>10. ASSUME NEW d \in Elements(RTE0') \cup Elements(RTE1)
         PROVE  /\ d \in Scheduled /\ ~is_memory(d)
                /\ rob'[d].executed = "no" /\ rob'[d].num_reg_dependent = 0
    BY <2>1, <2>4, <2>7, <2>8
  <2>11. RTE1' = RTE1 /\ Scheduled' = Scheduled /\ \A d : is_memory(d)' = is_memory(d)
    BY <1>2 DEF Scheduled, is_memory
  <2> QED
    BY <2>5, <2>7, <2>9, <2>10, <2>11 DEF ReadyToExecute
<1>15. TypeInv'
  BY <1>1, <1>2, <1>14 DEF TypeInv
<1>16. LoadsTracked(LQ, RTL0)' /\ StoresTracked(SQ, RTS0)' /\ RequestsNamed(LQ, SQ)'
  BY <1>2, SameLists, InvParts
<1>17. LoadsHeld(rob', LQ', SQ') /\ StoresHeld(rob', SQ') /\ Counted(rob', LQ', SQ')
  BY <1>1, <1>2, <1>10, SameOperations, InvParts
<1> QED
  BY <1>2, <1>9, <1>11, <1>12, <1>13, <1>14, <1>15, <1>16, <1>17, InvParts, StepInv
-----------------------------------------------------------------------------
\* The steps by which an instruction enters, is scheduled and retires.

(***************************************************************************)
(* The types depend on the trace only.                                     *)
(***************************************************************************)
LEMMA SameTypes ==
  ASSUME UNCHANGED trace
  PROVE  Entries' = Entries /\ Loads' = Loads /\ Stores' = Stores
BY DEF Entries, Loads, Stores, AllAddresses, AllRegisters

(***************************************************************************)
(* What is known of an instruction that is not scheduled yet.              *)
(***************************************************************************)
LEMMA Unscheduled ==
  ASSUME IInv, NEW i \in DOMAIN trace \ Scheduled
  PROVE  /\ rob[i].scheduled = "no" /\ rob[i].executed = "no"
         /\ rob[i].num_reg_dependent = 0 /\ rob[i].registers_depend_on_me = {}
         /\ rob[i].memory_instrs_depend_on_me = {}
         /\ DOMAIN rob[i].lq_index = {} /\ DOMAIN rob[i].sq_index = {}
         /\ HeldLoads(LQ, i) = {} /\ HeldStores(SQ, i) = {}
<1>1. Progress(rob) /\ LoadsHeld(rob, LQ, SQ) /\ StoresHeld(rob, SQ)
  BY InvParts
<1>2. ProgressOf(i, rob[i])
  BY <1>1 DEF Progress
<1>3. DOMAIN << >> = {}
  OBVIOUS
<1>4. HeldLoads(LQ, i) = {} /\ HeldStores(SQ, i) = {}
  BY <1>1 DEF HeldLoads, HeldStores, LoadsHeld, LoadHeld, StoresHeld
<1>5. \/ rob[i] = Blank
      \/ rob[i] = [Blank EXCEPT !.num_mem_ops = Len(trace[i].loads) + Len(trace[i].stores)]
  BY <1>2 DEF ProgressOf
<1> QED
  BY <1>3, <1>4, <1>5 DEF Blank

(***************************************************************************)
(* An instruction enters the reorder buffer.                               *)
(***************************************************************************)
LEMMA AddToRobInv ==
  ASSUME IInv, add_to_rob
  PROVE  IInv'
<1> DEFINE loads == Len(trace[tail].loads)
           stores == Len(trace[tail].stores)
           noted == [n \in DOMAIN trace[tail].stores |-> tail]
<1>1. /\ TypeInv /\ ReadyToExecute /\ rob \in [DOMAIN trace -> Entries] /\ Progress(rob)
      /\ STA \in Seq(Nat) /\ InOrder(SQ, SQ_tail, STA) /\ SQ \in Stores
      /\ InRob \subseteq DOMAIN trace /\ Scheduled \subseteq InRob
      /\ Len(trace) \in Nat /\ DOMAIN trace = 1 .. Len(trace)
      /\ Counted(rob, LQ, SQ) /\ LoadsHeld(rob, LQ, SQ) /\ StoresHeld(rob, SQ)
  BY InvParts, TraceFacts
<1>2. /\ tail \in DOMAIN trace /\ tail - head < ROB_SIZE
      /\ fetch_stall' = trace[tail].mispredicted
      /\ rob' = [rob EXCEPT ![tail].num_mem_ops = loads + stores]
      /\ STA' = STA \o noted
      /\ tail' = tail + 1
      /\ UNCHANGED <<trace, head, next_schedule, RTE0, RTE1, LQ, SQ, SQ_tail, RTL0, RTL1,
                     RTS0, RTS1, DTLB, L1D, WQ, inflight_reg_executions,
                     inflight_mem_executions, seen>>
  BY DEF add_to_rob, queues, counters
<1>3. /\ head \in Nat \ {0} /\ tail \in Nat \ {0} /\ next_schedule \in Nat
      /\ head <= next_schedule /\ next_schedule <= tail /\ tail <= Len(trace)
  BY <1>1, <1>2 DEF TypeInv
<1>4. /\ InRob' = InRob \cup {tail} /\ Scheduled' = Scheduled
      /\ tail \notin InRob /\ tail \notin Scheduled
  BY <1>2, <1>3 DEF InRob, Scheduled
<1>5. /\ loads \in Nat /\ stores \in Nat
      /\ DOMAIN trace[tail].loads = 1 .. loads /\ DOMAIN trace[tail].stores = 1 .. stores
      /\ Cardinality(DOMAIN trace[tail].loads) = loads
      /\ Cardinality(DOMAIN trace[tail].stores) = stores
  <2>1. trace[tail].loads \in {trace[tail].loads, trace[tail].stores}
    OBVIOUS
  <2>2. trace[tail].stores \in {trace[tail].loads, trace[tail].stores}
    OBVIOUS
  <2>3. /\ loads \in Nat /\ DOMAIN trace[tail].loads = 1 .. loads
        /\ Cardinality(DOMAIN trace[tail].loads) = loads
    BY <1>1, <1>2, <2>1, TraceFacts
  <2>4. /\ stores \in Nat /\ DOMAIN trace[tail].stores = 1 .. stores
        /\ Cardinality(DOMAIN trace[tail].stores) = stores
    BY <1>1, <1>2, <2>2, TraceFacts
  <2> QED
    BY <2>3, <2>4
<1>6. rob[tail] = Blank
  BY <1>1, <1>2, <1>4 DEF Progress, ProgressOf
<1> HIDE DEF loads, stores
<1>7. /\ rob' \in [DOMAIN trace -> Entries]
      /\ rob'[tail] = [Blank EXCEPT !.num_mem_ops = loads + stores]
      /\ \A j \in DOMAIN trace \ {tail} : rob'[j] = rob[j]
  <2>1. rob[tail] \in Entries /\ loads + stores \in Nat
    BY <1>1, <1>2, <1>5
  <2>2. [rob[tail] EXCEPT !.num_mem_ops = loads + stores] \in Entries
    BY <2>1 DEF Entries
  <2>3. rob' = [rob EXCEPT ![tail] = [rob[tail] EXCEPT !.num_mem_ops = loads + stores]]
    BY <1>1, <1>2
  <2> QED
    BY <1>1, <1>2, <1>6, <2>2, <2>3
<1>8. /\ rob'[tail].scheduled = "no" /\ rob'[tail].executed = "no"
      /\ rob'[tail].num_reg_dependent = 0 /\ rob'[tail].registers_depend_on_me = {}
      /\ rob'[tail].memory_instrs_depend_on_me = {}
      /\ rob'[tail].lq_index = << >> /\ rob'[tail].sq_index = << >>
      /\ rob'[tail].num_mem_ops = loads + stores
      /\ rob[tail].lq_index = << >> /\ rob[tail].sq_index = << >>
      /\ rob[tail].memory_instrs_depend_on_me = {}
      /\ rob[tail].registers_depend_on_me = {}
  BY <1>6, <1>7 DEF Blank
<1>9. Progress(rob)'
  <2>1. ASSUME NEW j \in DOMAIN trace
        PROVE  ProgressOf(j, rob[j])'
    <3>1. ProgressOf(j, rob[j])
      BY <1>1 DEF Progress
    <3>2. CASE j = tail
      <4>1. DOMAIN << >> = {}
        OBVIOUS
      <4> QED
        BY <1>2, <1>4, <1>7, <1>8, <3>2, <4>1 DEF ProgressOf, loads, stores, is_memory
    <3>3. CASE j # tail
      BY <1>2, <1>4, <1>7, <3>1, <3>3 DEF ProgressOf, is_memory
    <3> QED
      BY <3>2, <3>3
  <2> QED
    BY <1>2, <2>1 DEF Progress
<1>10. LoadsHeld(rob, LQ, SQ)'
  <2>1. ASSUME NEW slot \in Used(LQ)
        PROVE  LoadHeld(slot, LQ[slot], rob, SQ)'
    <3>1. LoadHeld(slot, LQ[slot], rob, SQ)
      BY <1>1 DEF LoadsHeld
    <3>2. LQ[slot].instr \in DOMAIN trace \ {tail}
      BY <1>1, <1>4, <3>1 DEF LoadHeld
    <3>3. LQ[slot].producer # NoStore => LQ[slot].producer \in DOMAIN trace \ {tail}
      BY <1>1, <1>4, <3>1 DEF LoadHeld
    <3> QED
      BY <1>2, <1>4, <1>7, <3>1, <3>2, <3>3 DEF LoadHeld, Source, StoresTo
  <2> QED
    BY <1>2, <2>1 DEF LoadsHeld
<1>11. StoresHeld(rob, SQ)'
  <2>1. ASSUME NEW slot \in Used(SQ)
        PROVE  SQ[slot].instr \in Scheduled' /\ slot \in Elements(rob'[SQ[slot].instr].sq_index)
    <3>1. SQ[slot].instr \in Scheduled /\ slot \in Elements(rob[SQ[slot].instr].sq_index)
      BY <1>1 DEF StoresHeld
    <3> QED
      BY <1>1, <1>4, <1>7, <3>1
  <2>2. ASSUME NEW j \in DOMAIN trace, NEW n \in DOMAIN rob'[j].sq_index,
               NEW slot, slot = rob'[j].sq_index[n]
        PROVE  slot \in Used(SQ) /\ SQ[slot].instr = j /\ SQ[slot].address = trace[j].stores[n]
    <3>1. rob'[j].sq_index = rob[j].sq_index
      BY <1>7, <1>8
    <3> QED
      BY <1>1, <2>2, <3>1 DEF StoresHeld
  <2> QED
    BY <1>2, <2>1, <2>2 DEF StoresHeld
<1>12. STA' \in Seq(Nat) /\ InOrder(SQ, SQ_tail, STA)'
  <2>1. /\ Len(STA) \in Nat /\ DOMAIN STA = 1 .. Len(STA)
        /\ \A n \in DOMAIN STA : STA[n] \in Nat
    BY <1>1
  <2>2. noted \in Seq(Nat) /\ Len(noted) = stores /\ DOMAIN noted = 1 .. stores
    <3>1. noted \in [1 .. stores -> Nat]
      BY <1>3, <1>5
    <3>2. noted \in Seq(Nat)
      BY <1>5, <3>1, SeqDef
    <3> QED
      BY <1>5, <3>1, <3>2
  <2>3. \A n \in 1 .. stores : noted[n] = tail
    BY <1>5
  <2> HIDE DEF noted
  <2>4. /\ STA' \in Seq(Nat) /\ DOMAIN STA' = 1 .. Len(STA) + stores
        /\ \A n \in DOMAIN STA' : \/ n \in DOMAIN STA /\ STA'[n] = STA[n]
                                  \/ n > Len(STA) /\ STA'[n] = tail
    <3>1. /\ STA \o noted \in Seq(Nat) /\ DOMAIN (STA \o noted) = 1 .. Len(STA) + stores
          /\ \A n \in 1 .. Len(STA) + stores :
               (STA \o noted)[n] = IF n <= Len(STA) THEN STA[n] ELSE noted[n - Len(STA)]
      BY <1>1, <2>2, Concatenation
    <3>3. \A n \in 1 .. Len(STA) + stores : n > Len(STA) => n - Len(STA) \in 1 .. stores
      BY <1>5, <2>1
    <3>4. \A n \in 1 .. Len(STA) + stores : n <= Len(STA) => n \in 1 .. Len(STA)
      BY <2>1
    <3>5. \A n \in 1 .. Len(STA) + stores : n <= Len(STA) \/ n > Len(STA)
      BY <1>5, <2>1
    <3> QED
      BY <1>2, <2>1, <2>3, <3>1, <3>3, <3>4, <3>5
  <2>5. /\ \A n \in DOMAIN STA : /\ STA[n] < tail
                                 /\ \A m \in 1 .. n : STA[m] <= STA[n]
                                 /\ \A slot \in Used(SQ) : SQ[slot].instr <= STA[n]
        /\ \A slot \in Used(SQ) : SQ[slot].instr <= tail
    <3>1. \A slot \in Used(SQ) : SQ[slot].instr \in Scheduled
      BY <1>1 DEF StoresHeld
    <3> QED
      BY <1>1, <1>3, <3>1 DEF InOrder, Scheduled
  <2>6. ASSUME NEW n \in DOMAIN STA'
        PROVE  /\ STA'[n] < tail + 1
               /\ \A m \in 1 .. n : STA'[m] <= STA'[n]
               /\ \A slot \in Used(SQ) : SQ[slot].instr <= STA'[n]
    <3>1. \A m \in 1 .. n : m \in DOMAIN STA'
      BY <1>5, <2>1, <2>4
    <3>2. CASE n \in DOMAIN STA /\ STA'[n] = STA[n]
      <4>1. \A m \in 1 .. n : m \in DOMAIN STA /\ STA'[m] = STA[m]
        BY <2>1, <2>4, <3>1, <3>2
      <4> QED
        BY <1>3, <2>1, <2>5, <3>2, <4>1
    <3>3. CASE n > Len(STA) /\ STA'[n] = tail
      <4>1. \A m \in 1 .. n : STA'[m] <= tail
        BY <1>3, <2>1, <2>4, <2>5, <3>1
      <4> QED
        BY <1>3, <2>5, <3>3, <4>1
    <3> QED
      BY <2>4, <3>2, <3>3
  <2> QED
    BY <1>1, <1>2, <2>4, <2>6 DEF InOrder
<1>13. Counted(rob, LQ, SQ)'
  <2>1. ASSUME NEW j \in InRob
        PROVE  rob'[j].num_mem_ops =
                 Cardinality(MissingLoads(rob', j)) + Cardinality(HeldLoads(LQ, j))
                   + Cardinality(MissingStores(rob', j)) + Cardinality(HeldStores(SQ, j))
    <3>1. rob'[j] = rob[j]
      BY <1>1, <1>4, <1>7
    <3> QED
      BY <1>1, <3>1 DEF Counted, MissingLoads, MissingStores
  <2>2. rob'[tail].num_mem_ops =
          Cardinality(MissingLoads(rob', tail)) + Cardinality(HeldLoads(LQ, tail))
            + Cardinality(MissingStores(rob', tail)) + Cardinality(HeldStores(SQ, tail))
    <3>1. HeldLoads(LQ, tail) = {} /\ HeldStores(SQ, tail) = {}
      BY <1>2, <1>4, Unscheduled
    <3>2. DOMAIN << >> = {}
      OBVIOUS
    <3>3. /\ MissingLoads(rob', tail) = DOMAIN trace[tail].loads
          /\ MissingStores(rob', tail) = DOMAIN trace[tail].stores
      BY <1>8, <3>2 DEF MissingLoads, MissingStores
    <3>4. Cardinality({}) = 0
      BY FS_EmptySet
    <3> QED
      BY <1>5, <1>8, <3>1, <3>3, <3>4
  <2> QED
    BY <1>2, <1>4, <2>1, <2>2 DEF Counted, MissingLoads, MissingStores, HeldLoads, HeldStores
<1>14. Finished(rob)' = Finished(rob) /\ Executing(rob)' = Executing(rob)
  <2>1. ~(is_memory(tail) /\ rob'[tail].num_mem_ops = 0)
    <3>1. \A p, q \in Nat : p + q = 0 => p = 0 /\ q = 0
      OBVIOUS
    <3>2. /\ loads = 0 => trace[tail].loads = << >>
          /\ stores = 0 => trace[tail].stores = << >>
      <4>1. /\ trace[tail].loads \in Seq(Elements(trace[tail].loads))
            /\ trace[tail].stores \in Seq(Elements(trace[tail].stores))
        BY <1>1, <1>2, TraceFacts
      <4>2. \A S : \A list \in Seq(S) : Len(list) = 0 => list = << >>
        OBVIOUS
      <4> QED
        BY <4>1, <4>2 DEF loads, stores
    <3> QED
      BY <1>5, <1>8, <3>1, <3>2 DEF is_memory
  <2>2. \A j \in InRob : rob'[j] = rob[j]
    BY <1>1, <1>4, <1>7
  <2>3. \A j : is_memory(j)' = is_memory(j)
    BY <1>2 DEF is_memory
  <2>4. Finished(rob)' = Finished(rob)
    BY <1>4, <2>1, <2>2, <2>3 DEF Finished
  <2>5. Executing(rob)' = Executing(rob)
    BY <1>4, <1>8, <2>2, <2>3 DEF Executing
  <2> QED
    BY <2>4, <2>5
<1>15. RegistersCounted(rob)'
  <2>1. ASSUME NEW d \in Scheduled
        PROVE  WaitsFor(rob, d)' = WaitsFor(rob, d)
    <3>1. \A j \in InRob : rob'[j] = rob[j]
      BY <1>1, <1>4, <1>7
    <3> QED
      BY <1>2, <1>4, <1>8, <3>1 DEF WaitsFor
  <2>2. \A d \in Scheduled : rob'[d] = rob[d]
    BY <1>1, <1>4, <1>7
  <2> QED
    BY <1>4, <2>1, <2>2, InvParts DEF RegistersCounted
<1>16. ReadyToExecute'
  <2>1. \A d \in Scheduled : rob'[d] = rob[d]
    BY <1>1, <1>4, <1>7
  <2> QED
    BY <1>1, <1>2, <1>4, <2>1 DEF ReadyToExecute, is_memory
<1>17. RightlySeen(seen)'
  BY <1>2, InvParts DEF RightlySeen, Source, StoresTo
<1>18. TypeInv'
  <2>1. trace[tail].mispredicted \in BOOLEAN
    BY <1>1, <1>2, TraceFacts
  <2>2. /\ tail' \in Nat /\ next_schedule <= tail' /\ tail' <= Len(trace) + 1
        /\ tail' - head <= ROB_SIZE
    BY <1>2, <1>3, <1>1, Sizes
  <2> QED
    BY <1>1, <1>2, <2>1, <2>2 DEF TypeInv
<1>19. LoadsTracked(LQ, RTL0)' /\ StoresTracked(SQ, RTS0)' /\ RequestsNamed(LQ, SQ)'
  BY <1>2, SameLists, InvParts
<1>20. /\ (rob \in [DOMAIN trace -> Entries])' /\ (LQ \in Loads)' /\ (SQ \in Stores)'
       /\ (SQ_tail \in SQSlots)'
       /\ (RTL0 \in Seq(LQSlots))' /\ (RTS0 \in Seq(SQSlots))'
       /\ (inflight_mem_executions \in Nat)' /\ (seen \in SUBSET (Nat \X Nat \X Nat))'
  BY <1>2, <1>7, InvParts, SameTypes
<1>21. /\ (inflight_mem_executions = Cardinality(Finished(rob)))'
       /\ (inflight_reg_executions = Cardinality(Executing(rob)))'
  BY <1>2, <1>14, InvParts
<1> QED
  BY <1>9, <1>10, <1>11, <1>12, <1>13, <1>15, <1>16, <1>17, <1>18, <1>19, <1>20, <1>21, InvNext

(***************************************************************************)
(* An instruction is scheduled: it waits for exactly the producers that    *)
(* reg_dependency has found.                                               *)
(***************************************************************************)
LEMMA DoSchedulingInv ==
  ASSUME IInv, do_scheduling
  PROVE  IInv'
<1>0. PICK i : i = next_schedule
  OBVIOUS
<1> DEFINE producers == Producers(i)
           marks(p) == {<<i, q[2]>> : q \in {w \in producers : w[1] = p}}
<1>1. /\ TypeInv /\ ReadyToExecute /\ rob \in [DOMAIN trace -> Entries] /\ Progress(rob)
      /\ InOrder(SQ, SQ_tail, STA) /\ RegistersCounted(rob)
      /\ InRob \subseteq DOMAIN trace /\ Scheduled \subseteq InRob
      /\ Len(trace) \in Nat /\ DOMAIN trace = 1 .. Len(trace) /\ DOMAIN rob = DOMAIN trace
      /\ Counted(rob, LQ, SQ) /\ LoadsHeld(rob, LQ, SQ) /\ StoresHeld(rob, SQ)
      /\ RTE1 \in Seq(Nat)
  BY InvParts, TraceFacts DEF TypeInv
<1>2. /\ i < tail
      /\ next_schedule' = i + 1
      /\ rob' = [p \in DOMAIN trace |->
           IF p = i
           THEN [rob[i] EXCEPT !.scheduled = IF is_memory(i) THEN "inflight" ELSE "completed",
                               !.num_reg_dependent = Cardinality(producers)]
           ELSE [rob[p] EXCEPT !.registers_depend_on_me = @ \cup marks(p)]]
      /\ RTE1' = IF ~is_memory(i) /\ producers = {} THEN Append(RTE1, i) ELSE RTE1
      /\ UNCHANGED <<trace, head, tail, fetch_stall, STA, RTE0, LQ, SQ, SQ_tail, RTL0, RTL1,
                     RTS0, RTS1, DTLB, L1D, WQ, inflight_reg_executions,
                     inflight_mem_executions, seen>>
  BY <1>0, <1>1 DEF do_scheduling, queues, counters
<1>3. /\ head \in Nat \ {0} /\ tail \in Nat /\ i \in Nat \ {0}
      /\ head <= i /\ tail <= Len(trace) + 1
  BY <1>0, <1>1 DEF TypeInv
<1>4. /\ InRob' = InRob /\ Scheduled' = Scheduled \cup {i}
      /\ i \in InRob /\ i \notin Scheduled /\ i \in DOMAIN trace
  BY <1>0, <1>1, <1>2, <1>3 DEF InRob, Scheduled
<1>5. /\ \A w \in producers : /\ w = <<w[1], w[2]>> /\ w[1] \in head .. i - 1
                              /\ rob[w[1]].executed # "completed"
                              /\ w[2] \in trace[i].reads
      /\ IsFiniteSet(producers) /\ Cardinality(producers) \in Nat
  <2> DEFINE writers(r) == {p \in head .. i - 1 : /\ r \in trace[p].writes
                                                  /\ rob[p].executed # "completed"}
             waiting == {s \in trace[i].reads : writers(s) # {}}
  <2>1. producers = {<<Youngest(writers(r)), r>> : r \in waiting}
    BY DEF Producers
  <2>2. ASSUME NEW r \in waiting
        PROVE  Youngest(writers(r)) \in writers(r)
    <3>1. writers(r) \in SUBSET (head .. i - 1) /\ writers(r) # {}
      OBVIOUS
    <3>2. IsFiniteSet(head .. i - 1) /\ head .. i - 1 \subseteq Nat
      BY <1>3, FS_Interval
    <3> HIDE DEF writers
    <3>3. IsFiniteSet(writers(r)) /\ writers(r) \subseteq Nat
      BY <3>1, <3>2, FS_Subset
    <3> QED
      BY <3>1, <3>3, YoungestExists
  <2>3. \A r \in waiting : /\ Youngest(writers(r)) \in head .. i - 1
                           /\ rob[Youngest(writers(r))].executed # "completed"
                           /\ r \in trace[i].reads
    BY <2>2
  <2>4. IsFiniteSet(waiting)
    <3>1. IsFiniteSet(trace[i].reads) /\ waiting \in SUBSET trace[i].reads
      BY <1>1, <1>4, TraceFacts
    <3> HIDE DEF waiting
    <3> QED
      BY <3>1, FS_Subset
  <2>5. IsFiniteSet(producers)
    <3> HIDE DEF waiting
    <3>1. PICK f : f = [r \in waiting |-> <<Youngest(writers(r)), r>>]
      OBVIOUS
    <3>2. producers = {f[r] : r \in waiting}
      BY <2>1, <3>1
    <3>3. \A r, s \in waiting : f[r] = f[s] => r = s
      BY <3>1
    <3>4. f = [r \in waiting |-> f[r]]
      BY <3>1
    <3> HIDE DEF writers, producers
    <3> QED
      BY <2>4, <3>2, <3>3, <3>4, ImageSize
  <2>6. Cardinality(producers) \in Nat
    BY <2>5, FS_CardinalityType
  <2> HIDE DEF writers, waiting
  <2>7. ASSUME NEW w \in producers
        PROVE  /\ w = <<w[1], w[2]>> /\ w[1] \in head .. i - 1
               /\ rob[w[1]].executed # "completed"
               /\ w[2] \in trace[i].reads
    <3>1. PICK r \in waiting : w = <<Youngest(writers(r)), r>>
      BY <2>1
    <3> QED
      BY <2>3, <3>1
  <2> QED
    BY <2>5, <2>6, <2>7
<1>6. ASSUME NEW p \in DOMAIN trace
      PROVE  /\ rob[p] \in Entries /\ ProgressOf(p, rob[p])
             /\ marks(p) \in SUBSET (Nat \X AllRegisters)
             /\ \A q \in marks(p) : q[1] = i /\ q[2] \in trace[i].reads /\ p < i
             /\ \A r : <<i, r>> \in marks(p) <=> <<p, r>> \in producers
  <2>1. rob[p] \in Entries /\ ProgressOf(p, rob[p])
    BY <1>1 DEF Progress
  <2>2. trace[i].reads \subseteq AllRegisters
    BY <1>4 DEF AllRegisters
  <2>3. ASSUME NEW q \in marks(p)
        PROVE  /\ q \in Nat \X AllRegisters
               /\ q[1] = i /\ q[2] \in trace[i].reads /\ p < i
    <3>1. PICK w \in producers : w[1] = p /\ q = <<i, w[2]>>
      OBVIOUS
    <3> QED
      BY <1>3, <1>5, <2>2, <3>1
  <2>4. ASSUME NEW r
        PROVE  <<i, r>> \in marks(p) <=> <<p, r>> \in producers
    <3>1. ASSUME <<i, r>> \in marks(p)
          PROVE  <<p, r>> \in producers
      <4>1. PICK w \in producers : w[1] = p /\ <<i, r>> = <<i, w[2]>>
        BY <3>1
      <4>2. w = <<p, r>>
        BY <1>5, <4>1
      <4> QED
        BY <4>2
    <3>2. ASSUME <<p, r>> \in producers
          PROVE  <<i, r>> \in marks(p)
      BY <3>2
    <3> QED
      BY <3>1, <3>2
  <2> QED
    BY <2>1, <2>3, <2>4
<1> HIDE DEF marks, producers
<1>7. /\ rob[i].executed = "no" /\ rob[i].registers_depend_on_me = {}
      /\ rob[i].memory_instrs_depend_on_me = {}
      /\ DOMAIN rob[i].lq_index = {} /\ DOMAIN rob[i].sq_index = {}
  BY <1>4, Unscheduled
<1>8. ASSUME NEW p \in DOMAIN trace
      PROVE  /\ rob'[p] \in Entries
             /\ rob'[p].executed = rob[p].executed
             /\ rob'[p].lq_index = rob[p].lq_index /\ rob'[p].sq_index = rob[p].sq_index
             /\ rob'[p].num_mem_ops = rob[p].num_mem_ops
             /\ rob'[p].memory_instrs_depend_on_me = rob[p].memory_instrs_depend_on_me
             /\ p = i => /\ rob'[p].num_reg_dependent = Cardinality(producers)
                         /\ rob'[p].registers_depend_on_me = {}
             /\ p # i => /\ rob'[p].num_reg_dependent = rob[p].num_reg_dependent
                         /\ rob'[p].scheduled = rob[p].scheduled
                         /\ rob'[p].registers_depend_on_me =
                              rob[p].registers_depend_on_me \cup marks(p)
             /\ p # i /\ marks(p) = {} => rob'[p] = rob[p]
  <2>1. rob[p] \in Entries /\ marks(p) \in SUBSET (Nat \X AllRegisters)
    BY <1>6
  <2>2. CASE p = i
    <3>1. rob'[p] =
            [rob[p] EXCEPT !.scheduled = IF is_memory(i) THEN "inflight" ELSE "completed",
                           !.num_reg_dependent = Cardinality(producers)]
      BY <1>2, <2>2
    <3>2. (IF is_memory(i) THEN "inflight" ELSE "completed") \in Stages
      BY DEF Stages
    <3> QED
      BY <1>5, <1>7, <2>1, <2>2, <3>1, <3>2 DEF Entries
  <2>3. CASE p # i
    <3>1. rob'[p] = [rob[p] EXCEPT !.registers_depend_on_me = @ \cup marks(p)]
      BY <1>2, <2>3
    <3> QED
      BY <2>1, <2>3, <3>1 DEF Entries
  <2> QED
    BY <2>2, <2>3
<1>9. rob' \in [DOMAIN trace -> Entries]
  BY <1>2, <1>8
<1>10. \A p : is_memory(p)' = is_memory(p)
  BY <1>2 DEF is_memory
<1>11. Progress(rob)'
  <2>1. ASSUME NEW p \in DOMAIN trace
        PROVE  ProgressOf(p, rob[p])'
    <3>1. ProgressOf(p, rob[p])
      BY <1>6
    <3>2. CASE p = i
      <4>1. rob'[p].executed = "no"
        BY <1>7, <1>8, <3>2
      <4> QED
        BY <1>2, <1>4, <1>7, <1>8, <3>2, <4>1 DEF ProgressOf
    <3>3. CASE p # i
      <4>1. /\ p \notin InRob => rob'[p] = Blank
            /\ p \in InRob \ Scheduled =>
                 rob'[p] = [Blank EXCEPT !.num_mem_ops =
                              Len(trace[p].loads) + Len(trace[p].stores)]
        <5>1. p \notin Scheduled => marks(p) = {}
          <6>1. ASSUME NEW q \in marks(p)
                PROVE  p \in Scheduled
            <7>1. q[1] = i /\ <<p, q[2]>> \in producers
              <8>1. PICK w \in producers : w[1] = p
                BY DEF marks
              <8>2. w = <<p, w[2]>>
                BY <1>5, <8>1
              <8>3. q[1] = i
                BY <1>6
              <8>4. PICK v \in producers : v[1] = p /\ q = <<i, v[2]>>
                BY DEF marks
              <8>5. v = <<p, q[2]>>
                BY <1>5, <8>4
              <8> QED
                BY <8>3, <8>5
            <7>2. p \in head .. i - 1
              BY <1>5, <7>1
            <7> QED
              BY <1>0, <7>2 DEF Scheduled
          <6> QED
            BY <6>1
        <5> QED
          BY <1>1, <1>8, <3>1, <3>3, <5>1 DEF ProgressOf
      <4>2. \A q \in rob'[p].registers_depend_on_me :
              q[1] \in p + 1 .. i /\ q[2] \in trace[q[1]].reads
        <5>1. \A q \in rob[p].registers_depend_on_me :
                q[1] \in p + 1 .. i - 1 /\ q[2] \in trace[q[1]].reads
          BY <1>0, <3>1 DEF ProgressOf
        <5>2. \A q \in marks(p) : q[1] = i /\ q[2] \in trace[i].reads /\ p < i
          BY <1>6
        <5>3. p \in Nat /\ i \in Nat
          BY <1>1, <1>3
        <5>4. rob'[p].registers_depend_on_me = rob[p].registers_depend_on_me \cup marks(p)
          BY <1>8, <3>3
        <5>5. /\ \A x \in p + 1 .. i - 1 : x \in p + 1 .. i
              /\ p < i => i \in p + 1 .. i
          BY <5>3
        <5> QED
          BY <5>1, <5>2, <5>4, <5>5
      <4>3. /\ i + 1 - 1 = i
            /\ rob'[p].memory_instrs_depend_on_me \subseteq p + 1 .. i
        <5>1. rob[p].memory_instrs_depend_on_me \subseteq p + 1 .. i - 1
          BY <1>0, <3>1 DEF ProgressOf
        <5>2. p + 1 .. i - 1 \subseteq p + 1 .. i /\ i + 1 - 1 = i
          BY <1>1, <1>3
        <5> QED
          BY <1>8, <5>1, <5>2
      <4>4. /\ DOMAIN rob'[p].lq_index \subseteq DOMAIN trace[p].loads
            /\ DOMAIN rob'[p].sq_index \subseteq DOMAIN trace[p].stores
            /\ is_memory(p) /\ rob'[p].scheduled = "inflight" => rob'[p].executed = "no"
            /\ rob'[p].executed # "no" => rob'[p].num_reg_dependent = 0
            /\ rob'[p].executed = "completed" => rob'[p].num_mem_ops = 0
        BY <1>8, <3>1, <3>3 DEF ProgressOf
      <4>5. InRob' \ Scheduled' \subseteq InRob \ Scheduled /\ next_schedule' - 1 = i
        BY <1>2, <1>4, <4>3
      <4> QED
        BY <1>2, <1>4, <1>10, <4>1, <4>2, <4>3, <4>4, <4>5 DEF ProgressOf
    <3> QED
      BY <3>2, <3>3
  <2> QED
    BY <1>2, <2>1 DEF Progress
<1>12. LoadsHeld(rob, LQ, SQ)'
  <2>1. ASSUME NEW slot \in Used(LQ)
        PROVE  LoadHeld(slot, LQ[slot], rob, SQ)'
    <3>1. LoadHeld(slot, LQ[slot], rob, SQ)
      BY <1>1 DEF LoadsHeld
    <3>2. /\ LQ[slot].instr \in DOMAIN trace
          /\ LQ[slot].producer # NoStore => LQ[slot].producer \in DOMAIN trace
      BY <1>1, <3>1 DEF LoadHeld
    <3>3. /\ Scheduled \subseteq Scheduled' /\ trace' = trace /\ head' = head
          /\ LQ' = LQ /\ SQ' = SQ
      BY <1>2, <1>4
    <3>4. /\ rob'[LQ[slot].instr].lq_index = rob[LQ[slot].instr].lq_index
          /\ LQ[slot].producer # NoStore =>
               rob'[LQ[slot].producer].memory_instrs_depend_on_me =
                 rob[LQ[slot].producer].memory_instrs_depend_on_me
      BY <1>8, <3>2
    <3> QED
      BY <3>1, <3>3, <3>4 DEF LoadHeld, Source, StoresTo
  <2> QED
    BY <1>2, <2>1 DEF LoadsHeld
<1>13. StoresHeld(rob, SQ)'
  <2>1. /\ Scheduled \subseteq Scheduled' /\ trace' = trace /\ SQ' = SQ
        /\ \A p \in DOMAIN trace : rob'[p].sq_index = rob[p].sq_index
    BY <1>2, <1>4, <1>8
  <2>2. Scheduled \subseteq DOMAIN trace /\ StoresHeld(rob, SQ)
    BY <1>1
  <2> QED
    BY <2>1, <2>2 DEF StoresHeld
<1>14. InOrder(SQ, SQ_tail, STA)' /\ RightlySeen(seen)'
  BY <1>1, <1>2, InvParts DEF InOrder, RightlySeen, Source, StoresTo
<1>15. Counted(rob, LQ, SQ)'
  <2>1. ASSUME NEW j \in InRob
        PROVE  rob'[j].num_mem_ops =
                 Cardinality(MissingLoads(rob', j)) + Cardinality(HeldLoads(LQ, j))
                   + Cardinality(MissingStores(rob', j)) + Cardinality(HeldStores(SQ, j))
    <3>1. /\ MissingLoads(rob', j) = MissingLoads(rob, j)
          /\ MissingStores(rob', j) = MissingStores(rob, j)
          /\ rob'[j].num_mem_ops = rob[j].num_mem_ops
      BY <1>1, <1>8 DEF MissingLoads, MissingStores
    <3> QED
      BY <1>1, <3>1 DEF Counted
  <2> QED
    BY <1>2, <1>4, <2>1, ZenonT(60) DEF Counted, MissingLoads, MissingStores, HeldLoads, HeldStores
<1>16. Finished(rob)' = Finished(rob) /\ Executing(rob)' = Executing(rob)
  BY <1>1, <1>4, <1>8, <1>10 DEF Finished, Executing
<1>17. RegistersCounted(rob)'
  <2>1. ASSUME NEW d \in Scheduled
        PROVE  rob'[d].num_reg_dependent = Cardinality(WaitsFor(rob, d)')
    <3>1. d \in DOMAIN trace /\ d # i
      BY <1>1, <1>4
    <3>2. WaitsFor(rob, d)' = WaitsFor(rob, d)
      <4>1. ASSUME NEW w \in InRob \X trace[d].reads
            PROVE  <<d, w[2]>> \in rob'[w[1]].registers_depend_on_me <=>
                     <<d, w[2]>> \in rob[w[1]].registers_depend_on_me
        <5>1. w[1] \in DOMAIN trace
          BY <1>1
        <5>2. <<d, w[2]>> \notin marks(w[1])
          BY <1>6, <3>1, <5>1
        <5> QED
          BY <1>7, <1>8, <5>1, <5>2
      <4>2. \A p \in InRob : rob'[p].executed = rob[p].executed
        BY <1>1, <1>8
      <4> QED
        BY <1>2, <1>4, <4>1, <4>2 DEF WaitsFor
    <3> QED
      BY <1>1, <1>8, <3>1, <3>2 DEF RegistersCounted
  <2>2. rob'[i].num_reg_dependent = Cardinality(WaitsFor(rob, i)')
    <3>1. ASSUME NEW w \in InRob \X trace[i].reads
          PROVE  w \in WaitsFor(rob', i) <=> w \in producers
      <4>1. w[1] \in DOMAIN trace /\ w = <<w[1], w[2]>>
        BY <1>1
      <4>2. <<i, w[2]>> \notin rob[w[1]].registers_depend_on_me
        <5>1. ASSUME <<i, w[2]>> \in rob[w[1]].registers_depend_on_me
              PROVE  FALSE
          <6>1. i \in w[1] + 1 .. i - 1
            BY <1>0, <1>6, <4>1, <5>1 DEF ProgressOf
          <6> QED
            BY <1>3, <6>1
        <5> QED
          BY <5>1
      <4>3. CASE w[1] = i
        <5>1. w \notin producers
          BY <1>3, <1>5, <4>3
        <5>2. <<i, w[2]>> \notin rob'[w[1]].registers_depend_on_me
          BY <1>8, <4>1, <4>3
        <5> QED
          BY <5>1, <5>2 DEF WaitsFor
      <4>4. CASE w[1] # i
        <5>1. <<i, w[2]>> \in rob'[w[1]].registers_depend_on_me <=> w \in producers
          BY <1>6, <1>8, <4>1, <4>2, <4>4
        <5>2. rob'[w[1]].executed = rob[w[1]].executed
          BY <1>8, <4>1
        <5> QED
          BY <1>5, <5>1, <5>2 DEF WaitsFor
      <4> QED
        BY <4>3, <4>4
    <3>2. producers \subseteq InRob \X trace[i].reads
      <4>1. head .. i - 1 \subseteq InRob
        BY <1>0, <1>1, <1>4 DEF Scheduled
      <4> QED
        BY <1>5, <4>1
    <3>3. WaitsFor(rob', i) \subseteq InRob \X trace[i].reads
      BY DEF WaitsFor
    <3>4. WaitsFor(rob', i) = producers
      BY <3>1, <3>2, <3>3
    <3>5. WaitsFor(rob, i)' = WaitsFor(rob', i)
      BY <1>2, <1>4 DEF WaitsFor
    <3> QED
      BY <1>4, <1>8, <3>4, <3>5
  <2> QED
    BY <1>4, <2>1, <2>2 DEF RegistersCounted
<1>18. /\ RTE1' \in Seq(Nat) /\ ReadyToExecute'
  <2>1. /\ IsInjective(RTE0) /\ IsInjective(RTE1) /\ Elements(RTE0) \cap Elements(RTE1) = {}
        /\ \A d \in Elements(RTE0) \cup Elements(RTE1) :
             /\ d \in Scheduled /\ ~is_memory(d)
             /\ rob[d].executed = "no" /\ rob[d].num_reg_dependent = 0
    BY <1>1 DEF ReadyToExecute
  <2>2. \A d \in Elements(RTE0) \cup Elements(RTE1) :
          /\ d \in Scheduled' /\ ~is_memory(d)
          /\ rob'[d].executed = "no" /\ rob'[d].num_reg_dependent = 0
    <3>1. ASSUME NEW d \in Elements(RTE0) \cup Elements(RTE1)
          PROVE  /\ d \in Scheduled' /\ ~is_memory(d)
                 /\ rob'[d].executed = "no" /\ rob'[d].num_reg_dependent = 0
      <4>1. d \in DOMAIN trace /\ d # i
        BY <1>1, <1>4, <2>1
      <4> QED
        BY <1>4, <1>8, <2>1, <4>1
    <3> QED
      BY <3>1
  <2>3. CASE ~is_memory(i) /\ producers = {}
    <3>1. RTE1' = Append(RTE1, i) /\ i \in Nat
      BY <1>2, <1>3, <2>3
    <3>2. i \notin Elements(RTE0) \cup Elements(RTE1)
      BY <1>4, <2>1
    <3>3. /\ RTE1' \in Seq(Nat) /\ IsInjective(RTE1')
          /\ Elements(RTE1') = Elements(RTE1) \cup {i}
      BY <1>1, <2>1, <3>1, <3>2, AppendNew
    <3>4. rob'[i].executed = "no" /\ rob'[i].num_reg_dependent = 0
      BY <1>4, <1>7, <1>8, <2>3, FS_EmptySet
    <3>5. \A d \in Elements(RTE0) \cup Elements(RTE1') :
            /\ d \in Scheduled' /\ ~is_memory(d)
            /\ rob'[d].executed = "no" /\ rob'[d].num_reg_dependent = 0
      BY <1>4, <2>2, <2>3, <3>3, <3>4
    <3>6. Elements(RTE0) \cap Elements(RTE1') = {}
      BY <2>1, <3>2, <3>3
    <3>7. RTE0' = RTE0
      BY <1>2
    <3> QED
      BY <1>10, <2>1, <3>3, <3>5, <3>6, <3>7 DEF ReadyToExecute
  <2>4. CASE ~(~is_memory(i) /\ producers = {})
    <3>1. RTE0' = RTE0 /\ RTE1' = RTE1
      BY <1>2, <2>4
    <3> QED
      BY <1>1, <1>10, <2>1, <2>2, <3>1 DEF ReadyToExecute
  <2> QED
    BY <2>3, <2>4
<1>19. TypeInv'
  <2>1. next_schedule' \in Nat /\ head <= next_schedule' /\ next_schedule' <= tail
    BY <1>2, <1>3
  <2> QED
    BY <1>1, <1>2, <1>18, <2>1 DEF TypeInv
<1>20. LoadsTracked(LQ, RTL0)' /\ StoresTracked(SQ, RTS0)' /\ RequestsNamed(LQ, SQ)'
  BY <1>2, SameLists, InvParts
<1>21. /\ (rob \in [DOMAIN trace -> Entries])' /\ (LQ \in Loads)' /\ (SQ \in Stores)'
       /\ (SQ_tail \in SQSlots)' /\ (STA \in Seq(Nat))'
       /\ (RTL0 \in Seq(LQSlots))' /\ (RTS0 \in Seq(SQSlots))'
       /\ (inflight_mem_executions \in Nat)' /\ (seen \in SUBSET (Nat \X Nat \X Nat))'
  BY <1>2, <1>9, InvParts, SameTypes
<1>22. /\ (inflight_mem_executions = Cardinality(Finished(rob)))'
       /\ (inflight_reg_executions = Cardinality(Executing(rob)))'
  BY <1>2, <1>16, InvParts
<1> QED
  BY <1>11, <1>12, <1>13, <1>14, <1>15, <1>17, <1>18, <1>19, <1>20, <1>21, <1>22, InvNext

(***************************************************************************)
(* What is known of the oldest instruction when it can retire: its         *)
(* operations are done, no load waits for it, and the slots it frees are   *)
(* those of its stores, all of them executed.                              *)
(***************************************************************************)
LEMMA HeadDone ==
  ASSUME IInv, head < tail, rob[head].executed = "completed"
  PROVE  /\ head \in InRob /\ head \in Scheduled
         /\ \A slot \in Used(LQ) : LQ[slot].instr # head /\ LQ[slot].producer # head
         /\ \A slot \in Used(SQ) :
              SQ[slot].instr = head <=> slot \in Elements(rob[head].sq_index)
         /\ \A slot \in Used(SQ) : SQ[slot].instr = head => SQ[slot].fetched
         /\ Elements(rob[head].sq_index) \subseteq Used(SQ)
<1>1. /\ TypeInv /\ Progress(rob) /\ LoadsHeld(rob, LQ, SQ) /\ StoresHeld(rob, SQ)
      /\ Counted(rob, LQ, SQ) /\ LQ \in Loads /\ SQ \in Stores
      /\ InRob \subseteq DOMAIN trace /\ Scheduled \subseteq InRob
  BY InvParts, TraceFacts
<1>2. head \in InRob /\ head \in DOMAIN trace /\ head \in Nat \ {0}
  <2>1. head \in Nat /\ head > 0 /\ tail \in Nat
    BY <1>1, Positions
  <2>2. head \in InRob
    BY <2>1 DEF InRob
  <2> QED
    BY <2>1, <2>2, <1>1
<1>3. head \in Scheduled
  BY <1>2, Unscheduled
<1>4. rob[head].num_mem_ops = 0
  BY <1>1, <1>2 DEF Progress, ProgressOf
<1>5. HeldLoads(LQ, head) = {} /\ HeldStores(SQ, head) = {} /\ MissingStores(rob, head) = {}
  <2>1. ~(rob[head].num_mem_ops > 0)
    BY <1>4
  <2> QED
    BY <1>1, <1>2, <2>1, OperationCounted
<1>6. ASSUME NEW slot \in Used(LQ)
      PROVE  LQ[slot].instr # head /\ LQ[slot].producer # head
  <2>1. LQ[slot].instr # head
    BY <1>5 DEF HeldLoads
  <2>2. ASSUME LQ[slot].producer = head
        PROVE  FALSE
    <3> DEFINE e == LQ[slot]
               a == trace[e.instr].loads[e.op]
               older == StoresTo(a, 1 .. e.instr - 1)
    <3>1. LoadHeld(slot, e, rob, SQ)
      BY <1>1 DEF LoadsHeld
    <3>2. head # NoStore
      BY <1>2 DEF NoStore
    <3>3. /\ head = Source(e.instr, a) /\ e.instr \in Scheduled
          /\ \A q \in Used(SQ) : SQ[q].instr = head /\ SQ[q].address = a => ~SQ[q].fetched
      BY <2>2, <3>1, <3>2 DEF LoadHeld
    <3>4. head \in older
      <4>1. older # {} /\ head = Youngest(older)
        BY <3>2, <3>3 DEF Source
      <4>2. IsFiniteSet(older) /\ older \subseteq Nat
        <5>1. e.instr \in Nat
          BY <1>1, <3>3, TraceFacts
        <5>2. IsFiniteSet(1 .. e.instr - 1) /\ 1 .. e.instr - 1 \subseteq Nat
          BY <5>1, FS_Interval
        <5>3. older \in SUBSET (1 .. e.instr - 1)
          BY DEF StoresTo
        <5> QED
          BY <5>2, <5>3, FS_Subset
      <4> HIDE DEF older
      <4> QED
        BY <4>1, <4>2, YoungestExists
    <3>5. a \in Elements(trace[head].stores)
      BY <3>4 DEF StoresTo
    <3> HIDE DEF a, older
    <3>6. PICK n \in DOMAIN trace[head].stores : trace[head].stores[n] = a
      BY <3>5 DEF Elements
    <3>7. n \in DOMAIN rob[head].sq_index
      BY <1>5 DEF MissingStores
    <3> DEFINE q == rob[head].sq_index[n]
    <3>8. q \in Used(SQ) /\ SQ[q].instr = head /\ SQ[q].address = a
      BY <1>1, <1>2, <3>6, <3>7 DEF StoresHeld
    <3>9. ~SQ[q].fetched
      BY <3>3, <3>8
    <3> QED
      BY <1>5, <3>8, <3>9 DEF HeldStores
  <2> QED
    BY <2>1, <2>2
<1>7. \A slot \in Used(SQ) : SQ[slot].instr = head <=> slot \in Elements(rob[head].sq_index)
  BY <1>1, <1>2 DEF StoresHeld, Elements
<1>8. \A slot \in Used(SQ) : SQ[slot].instr = head => SQ[slot].fetched
  BY <1>5 DEF HeldStores
<1>9. Elements(rob[head].sq_index) \subseteq Used(SQ)
  BY <1>1, <1>2 DEF StoresHeld, Elements
<1> QED
  BY <1>2, <1>3, <1>6, <1>7, <1>8, <1>9

(***************************************************************************)
(* The stores of an instruction fit where as many addresses fit.           *)
(***************************************************************************)
LEMMA StoresFit ==
  ASSUME TypeInv, NEW i \in DOMAIN trace,
         Cardinality(WQ) + Len(trace[i].stores) <= WQ_SIZE
  PROVE  LET new == WQ \cup Elements(trace[i].stores)
         IN  IsFiniteSet(new) /\ Cardinality(new) <= WQ_SIZE
<1> DEFINE stores == trace[i].stores
           S == Elements(stores)
<1>1. IsFiniteSet(WQ) /\ Cardinality(WQ) \in Nat
  BY FS_CardinalityType DEF TypeInv
<1>2. IsInjective(stores) /\ Len(stores) \in Nat /\ DOMAIN stores = 1 .. Len(stores)
      /\ IsFiniteSet(DOMAIN stores) /\ Cardinality(DOMAIN stores) = Len(stores)
      /\ stores \in Seq(S)
  <2>1. stores \in {trace[i].loads, stores}
    OBVIOUS
  <2> QED
    BY <2>1, TraceFacts
<1>3. IsFiniteSet(S) /\ Cardinality(S) = Len(stores)
  <2>1. S = {stores[n] : n \in DOMAIN stores}
    BY DEF Elements
  <2>2. stores = [n \in DOMAIN stores |-> stores[n]]
    <3>1. \A T : \A list \in Seq(T) : list = [n \in DOMAIN list |-> list[n]]
      OBVIOUS
    <3> QED
      BY <1>2, <3>1
  <2>3. \A m, n \in DOMAIN stores : stores[m] = stores[n] => m = n
    BY <1>2 DEF IsInjective
  <2> HIDE DEF stores, S
  <2> QED
    BY <1>2, <2>1, <2>2, <2>3, ImageSize
<1> HIDE DEF S
<1>4. /\ IsFiniteSet(WQ \cup S)
      /\ Cardinality(WQ \cup S) = Cardinality(WQ) + Cardinality(S) - Cardinality(WQ \cap S)
  BY <1>1, <1>3, FS_Union
<1>5. Cardinality(WQ \cap S) \in Nat
  BY <1>1, FS_Intersection, FS_CardinalityType
<1>6. Cardinality(WQ) + Cardinality(S) <= WQ_SIZE /\ WQ_SIZE \in Nat
  BY <1>3, Sizes
<1>7. Cardinality(WQ \cup S) <= WQ_SIZE
  <2>1. \A p, q, r, t \in Nat : p + q <= t => p + q - r <= t
    OBVIOUS
  <2> QED
    BY <1>1, <1>2, <1>3, <1>4, <1>5, <1>6, <2>1
<1> QED
  BY <1>4, <1>7 DEF S

(***************************************************************************)
(* The oldest instruction retires.                                         *)
(***************************************************************************)
LEMMA RetireRobInv ==
  ASSUME IInv, retire_rob
  PROVE  IInv'
<1>0. PICK i : i = head
  OBVIOUS
<1> DEFINE freed == Elements(rob[i].sq_index)
<1>1. /\ TypeInv /\ ReadyToExecute /\ rob \in [DOMAIN trace -> Entries] /\ Progress(rob)
      /\ InOrder(SQ, SQ_tail, STA) /\ RegistersCounted(rob) /\ StoresTracked(SQ, RTS0)
      /\ LoadsTracked(LQ, RTL0) /\ RequestsNamed(LQ, SQ)
      /\ InRob \subseteq DOMAIN trace /\ Scheduled \subseteq InRob
      /\ Len(trace) \in Nat /\ DOMAIN trace = 1 .. Len(trace)
      /\ Counted(rob, LQ, SQ) /\ LoadsHeld(rob, LQ, SQ) /\ StoresHeld(rob, SQ)
      /\ LQ \in Loads /\ SQ \in Stores /\ SQ_tail \in SQSlots
  BY InvParts, TraceFacts
<1>2. /\ i < tail /\ rob[i].executed = "completed"
      /\ Cardinality(WQ) + Len(trace[i].stores) <= WQ_SIZE
      /\ WQ' = WQ \cup Elements(trace[i].stores)
      /\ SQ' = [slot \in SQSlots |-> IF slot \in freed THEN NoEntry ELSE SQ[slot]]
      /\ rob' = [rob EXCEPT ![i] = Blank]
      /\ head' = i + 1
      /\ UNCHANGED <<trace, tail, next_schedule, fetch_stall, STA, RTE0, RTE1, LQ, SQ_tail,
                     RTL0, RTL1, RTS0, RTS1, DTLB, L1D, inflight_reg_executions,
                     inflight_mem_executions, seen>>
  BY <1>0 DEF retire_rob, lists, counters
<1>3. /\ i \in InRob /\ i \in Scheduled /\ i \in DOMAIN trace /\ i \in Nat \ {0}
      /\ \A slot \in Used(LQ) : LQ[slot].instr # i /\ LQ[slot].producer # i
      /\ \A slot \in Used(SQ) : SQ[slot].instr = i <=> slot \in freed
      /\ \A slot \in Used(SQ) : SQ[slot].instr = i => SQ[slot].fetched
      /\ freed \subseteq Used(SQ)
  BY <1>0, <1>1, <1>2, HeadDone
<1>4. /\ InRob' = InRob \ {i} /\ Scheduled' = Scheduled \ {i}
      /\ \A j \in Scheduled' : j > i
      /\ head' \in Nat \ {0} /\ head' <= next_schedule /\ next_schedule <= tail
      /\ head' <= tail /\ tail \in Nat /\ tail - head' <= ROB_SIZE
  <2>1. /\ i <= next_schedule /\ next_schedule <= tail /\ tail \in Nat /\ next_schedule \in Nat
        /\ tail - i <= ROB_SIZE /\ ROB_SIZE \in Nat
    BY <1>0, <1>1, Sizes DEF TypeInv
  <2>2. i <= next_schedule - 1
    BY <1>3 DEF Scheduled
  <2>3. InRob' = i + 1 .. tail - 1 /\ Scheduled' = i + 1 .. next_schedule - 1
    BY <1>2 DEF InRob, Scheduled
  <2>4. InRob = i .. tail - 1 /\ Scheduled = i .. next_schedule - 1
    BY <1>0 DEF InRob, Scheduled
  <2> QED
    BY <1>2, <1>3, <2>1, <2>2, <2>3, <2>4
<1> HIDE DEF freed
<1>5. /\ rob' \in [DOMAIN trace -> Entries] /\ rob'[i] = Blank
      /\ \A j \in DOMAIN trace \ {i} : rob'[j] = rob[j]
  <2>1. << >> \in Indices(LQSlots) /\ << >> \in Indices(SQSlots)
    <3>1. << >> \in [{} -> LQSlots] /\ << >> \in [{} -> SQSlots] /\ {} \in SUBSET Nat
      OBVIOUS
    <3> QED
      BY <3>1 DEF Indices
  <2>2. Blank \in Entries
    BY <2>1 DEF Blank, Entries, Stages
  <2> QED
    BY <1>1, <1>2, <1>3, <2>2
<1>6. \A p : is_memory(p)' = is_memory(p)
  BY <1>2 DEF is_memory
<1>7. /\ SQ' \in Stores /\ Used(SQ') = Used(SQ) \ freed
      /\ \A slot \in Used(SQ') : SQ'[slot] = SQ[slot] /\ slot \notin freed /\ SQ[slot].instr # i
  <2>1. SQ' \in Stores
    BY <1>1, <1>2 DEF Stores
  <2>2. DOMAIN SQ = SQSlots /\ DOMAIN SQ' = SQSlots
    BY <1>1, <1>2 DEF Stores
  <2>3. Used(SQ') = Used(SQ) \ freed
    BY <1>2, <2>2 DEF Used
  <2>4. \A slot \in SQSlots \ freed : SQ'[slot] = SQ[slot]
    BY <1>2
  <2>5. Used(SQ) \subseteq SQSlots
    BY <2>2 DEF Used
  <2> QED
    BY <1>3, <2>1, <2>3, <2>4, <2>5
<1>8. Progress(rob)'
  <2>1. ASSUME NEW j \in DOMAIN trace
        PROVE  ProgressOf(j, rob[j])'
    <3>1. ProgressOf(j, rob[j])
      BY <1>1 DEF Progress
    <3>2. CASE j = i
      <4>1. DOMAIN << >> = {}
        OBVIOUS
      <4> QED
        BY <1>4, <1>5, <3>2, <4>1 DEF ProgressOf, Blank
    <3>3. CASE j # i
      BY <1>2, <1>4, <1>5, <1>6, <3>1, <3>3 DEF ProgressOf
    <3> QED
      BY <3>2, <3>3
  <2> QED
    BY <1>2, <2>1 DEF Progress
<1>9. LoadsHeld(rob, LQ, SQ)'
  <2>1. ASSUME NEW slot \in Used(LQ)
        PROVE  LoadHeld(slot, LQ[slot], rob, SQ)'
    <3> DEFINE e == LQ[slot]
               a == trace[e.instr].loads[e.op]
    <3>1. LoadHeld(slot, e, rob, SQ)
      BY <1>1 DEF LoadsHeld
    <3>2. /\ e.instr \in Scheduled' /\ e.instr \in DOMAIN trace \ {i}
          /\ e.producer # NoStore =>
               e.producer \in Scheduled' /\ e.producer \in DOMAIN trace \ {i}
      BY <1>1, <1>3, <1>4, <3>1 DEF LoadHeld
    <3>3. e.producer = NoStore => StoresTo(a, i + 1 .. e.instr - 1) = {}
      <4>1. e.producer = NoStore => StoresTo(a, i .. e.instr - 1) = {}
        BY <1>0, <3>1 DEF LoadHeld
      <4>2. i + 1 .. e.instr - 1 \subseteq i .. e.instr - 1
        BY <1>1, <1>3, <3>2
      <4> QED
        BY <4>1, <4>2 DEF StoresTo
    <3>4. /\ e.op \in DOMAIN rob'[e.instr].lq_index
          /\ rob'[e.instr].lq_index[e.op] = slot
          /\ e.producer # NoStore =>
               /\ e.producer = Source(e.instr, a)
               /\ e.instr \in rob'[e.producer].memory_instrs_depend_on_me
      BY <1>5, <3>1, <3>2 DEF LoadHeld
    <3>5. e.producer # NoStore =>
            \A q \in Used(SQ') :
              SQ'[q].instr = e.producer /\ SQ'[q].address = a => ~SQ'[q].fetched
      BY <1>7, <3>1 DEF LoadHeld
    <3> QED
      BY <1>2, <3>2, <3>3, <3>4, <3>5 DEF LoadHeld, Source, StoresTo
  <2> QED
    BY <1>2, <2>1 DEF LoadsHeld
<1>10. StoresHeld(rob, SQ)'
  <2>1. ASSUME NEW slot \in Used(SQ')
        PROVE  /\ SQ'[slot].instr \in Scheduled'
               /\ slot \in Elements(rob'[SQ'[slot].instr].sq_index)
    <3>1. SQ'[slot] = SQ[slot] /\ slot \in Used(SQ) /\ SQ[slot].instr # i
      BY <1>7
    <3>2. SQ[slot].instr \in Scheduled /\ slot \in Elements(rob[SQ[slot].instr].sq_index)
      BY <1>1, <3>1 DEF StoresHeld
    <3> QED
      BY <1>1, <1>4, <1>5, <3>1, <3>2
  <2>2. ASSUME NEW j \in DOMAIN trace, NEW n \in DOMAIN rob'[j].sq_index,
               NEW slot, slot = rob'[j].sq_index[n]
        PROVE  /\ slot \in Used(SQ') /\ SQ'[slot].instr = j
               /\ SQ'[slot].address = trace[j].stores[n]
    <3>1. j # i
      <4>1. DOMAIN << >> = {}
        OBVIOUS
      <4> QED
        BY <1>5, <2>2, <4>1 DEF Blank
    <3>2. rob'[j] = rob[j]
      BY <1>5, <3>1
    <3>3. slot \in Used(SQ) /\ SQ[slot].instr = j /\ SQ[slot].address = trace[j].stores[n]
      BY <1>1, <2>2, <3>2 DEF StoresHeld
    <3>4. slot \in Used(SQ')
      BY <1>3, <1>7, <3>1, <3>3
    <3> QED
      BY <1>7, <3>3, <3>4
  <2> QED
    BY <1>2, <2>1, <2>2 DEF StoresHeld
<1>11. InOrder(SQ, SQ_tail, STA)'
  <2>1. ASSUME NEW p \in SQSlots, NEW q \in SQSlots, q \in Used(SQ'),
               Age(SQ_tail, p) < Age(SQ_tail, q)
        PROVE  p \in Used(SQ') /\ SQ'[q].instr <= SQ'[p].instr
    <3>1. q \in Used(SQ) /\ SQ'[q] = SQ[q] /\ SQ[q].instr # i
      BY <1>7, <2>1
    <3>2. p \in Used(SQ) /\ SQ[q].instr <= SQ[p].instr
      BY <1>1, <2>1, <3>1 DEF InOrder
    <3>3. SQ[q].instr \in Scheduled /\ SQ[p].instr \in Scheduled
      BY <1>1, <3>1, <3>2 DEF StoresHeld
    <3>4. SQ[q].instr > i /\ SQ[q].instr \in Nat /\ SQ[p].instr \in Nat
      BY <1>1, <1>4, <3>1, <3>3
    <3>5. SQ[p].instr # i
      BY <1>3, <3>2, <3>4
    <3>6. p \in Used(SQ')
      BY <1>3, <1>7, <3>2, <3>5
    <3> QED
      BY <1>7, <3>1, <3>2, <3>6
  <2>2. \A slot \in Used(SQ') : slot \in Used(SQ) /\ SQ'[slot] = SQ[slot]
    BY <1>7
  <2>3. \A n \in DOMAIN STA :
          /\ STA[n] < tail
          /\ \A m \in 1 .. n : STA[m] <= STA[n]
          /\ \A slot \in Used(SQ') : SQ'[slot].instr <= STA[n]
    BY <1>1, <2>2 DEF InOrder
  <2> QED
    BY <1>2, <2>1, <2>3 DEF InOrder, Age
<1>12. LoadsTracked(LQ, RTL0)'
  BY <1>1, <1>2 DEF LoadsTracked
<1>13. StoresTracked(SQ, RTS0)'
  <2>1. {slot \in Used(SQ') : ~SQ'[slot].fetched} = {slot \in Used(SQ) : ~SQ[slot].fetched}
    BY <1>3, <1>7
  <2> QED
    BY <1>1, <1>2, <2>1 DEF StoresTracked
<1>14. RequestsNamed(LQ, SQ)'
  <2>1. ASSUME NEW r \in DTLB \cup L1D, r.queue = "SQ"
        PROVE  SQ'[r.slot] = SQ[r.slot]
    <3>1. r \in DTLB
      BY <1>1, <2>1 DEF RequestsNamed
    <3>2. r.slot \in Requests(DTLB, "SQ")
      BY <2>1, <3>1 DEF Requests
    <3>3. r.slot \in Used(SQ) /\ ~SQ[r.slot].fetched
      BY <1>1, <3>2 DEF StoresTracked
    <3> QED
      BY <1>3, <1>7, <3>3
  <2> QED
    BY <1>1, <1>2, <2>1 DEF RequestsNamed
<1>15. Counted(rob, LQ, SQ)'
  <2>1. ASSUME NEW j \in InRob, j # i
        PROVE  rob'[j].num_mem_ops =
                 Cardinality(MissingLoads(rob', j)) + Cardinality(HeldLoads(LQ, j))
                   + Cardinality(MissingStores(rob', j)) + Cardinality(HeldStores(SQ', j))
    <3>1. rob'[j] = rob[j]
      BY <1>1, <1>5, <2>1
    <3>2. MissingLoads(rob', j) = MissingLoads(rob, j)
          /\ MissingStores(rob', j) = MissingStores(rob, j)
      BY <3>1 DEF MissingLoads, MissingStores
    <3>3. HeldStores(SQ', j) = HeldStores(SQ, j)
      BY <1>3, <1>7, <2>1 DEF HeldStores
    <3> QED
      BY <1>1, <3>1, <3>2, <3>3 DEF Counted
  <2> QED
    BY <1>2, <1>4, <2>1 DEF Counted, MissingLoads, MissingStores, HeldLoads, HeldStores
<1>16. Finished(rob)' = Finished(rob) /\ Executing(rob)' = Executing(rob)
  <2>1. i \notin Finished(rob) /\ i \notin Executing(rob)
    BY <1>2 DEF Finished, Executing
  <2>2. \A j \in InRob \ {i} : rob'[j] = rob[j]
    BY <1>1, <1>5
  <2>3. Finished(rob)' = Finished(rob)
    BY <1>4, <1>6, <2>1, <2>2 DEF Finished
  <2>4. Executing(rob)' = Executing(rob)
    BY <1>4, <1>6, <2>1, <2>2 DEF Executing
  <2> QED
    BY <2>3, <2>4
<1>17. RegistersCounted(rob)'
  <2>1. ASSUME NEW d \in Scheduled'
        PROVE  rob'[d].num_reg_dependent = Cardinality(WaitsFor(rob, d)')
    <3>1. \A j \in InRob \ {i} : rob'[j] = rob[j]
      BY <1>1, <1>5
    <3>2. WaitsFor(rob, d)' = WaitsFor(rob, d)
      BY <1>2, <1>4, <3>1 DEF WaitsFor
    <3>3. rob'[d] = rob[d] /\ d \in Scheduled
      BY <1>1, <1>4, <3>1
    <3> QED
      BY <1>1, <3>2, <3>3 DEF RegistersCounted
  <2> QED
    BY <2>1 DEF RegistersCounted
<1>18. ReadyToExecute'
  <2>1. ASSUME NEW d \in Elements(RTE0) \cup Elements(RTE1)
        PROVE  /\ d \in Scheduled' /\ ~is_memory(d)
               /\ rob'[d].executed = "no" /\ rob'[d].num_reg_dependent = 0
    <3>1. /\ d \in Scheduled /\ ~is_memory(d)
          /\ rob[d].executed = "no" /\ rob[d].num_reg_dependent = 0
      BY <1>1 DEF ReadyToExecute
    <3>2. d # i
      BY <1>2, <3>1
    <3> QED
      BY <1>1, <1>4, <1>5, <3>1, <3>2
  <2> QED
    BY <1>1, <1>2, <1>6, <2>1 DEF ReadyToExecute
<1>19. RightlySeen(seen)'
  BY <1>2, InvParts DEF RightlySeen, Source, StoresTo
<1>20. TypeInv'
  <2>1. IsFiniteSet(WQ') /\ Cardinality(WQ') <= WQ_SIZE
    BY <1>1, <1>2, <1>3, StoresFit
  <2> QED
    BY <1>1, <1>2, <1>4, <2>1 DEF TypeInv
<1>21. /\ (rob \in [DOMAIN trace -> Entries])' /\ (LQ \in Loads)' /\ (SQ \in Stores)'
       /\ (SQ_tail \in SQSlots)' /\ (STA \in Seq(Nat))'
       /\ (RTL0 \in Seq(LQSlots))' /\ (RTS0 \in Seq(SQSlots))'
       /\ (inflight_mem_executions \in Nat)' /\ (seen \in SUBSET (Nat \X Nat \X Nat))'
  BY <1>2, <1>5, <1>7, InvParts, SameTypes
<1>22. /\ (inflight_mem_executions = Cardinality(Finished(rob)))'
       /\ (inflight_reg_executions = Cardinality(Executing(rob)))'
  BY <1>2, <1>16, InvParts
<1> QED
  BY <1>8, <1>9, <1>10, <1>11, <1>12, <1>13, <1>14, <1>15, <1>17, <1>18, <1>19, <1>20, <1>21,
     <1>22, InvNext
-----------------------------------------------------------------------------
\* The steps that do memory operations.

(***************************************************************************)
(* The loads a store releases wait for it, and no other load waits for it  *)
(* to write its address.                                                   *)
(***************************************************************************)
LEMMA StoreReleases ==
  ASSUME IInv, RTS1 # << >>, OwnDependents(Head(RTS1)),
         NEW slot, slot = Head(RTS1), NEW i, i = SQ[slot].instr, NEW a, a = SQ[slot].address,
         NEW forwarded, forwarded = Dependents(i, a)
  PROVE  /\ slot \in Used(SQ) /\ slot \in SQSlots /\ ~SQ[slot].fetched
         /\ SQ[slot] \in [instr : Nat, address : AllAddresses, fetched : BOOLEAN]
         /\ i \in Scheduled /\ is_memory(i) /\ i # NoStore
         /\ forwarded \subseteq Used(LQ)
         /\ \A x \in forwarded : LQ[x].producer = i
         /\ \A x \in Used(LQ) :
              LQ[x].producer = i /\ trace[LQ[x].instr].loads[LQ[x].op] = a => x \in forwarded
<1>1. /\ TypeInv /\ StoresTracked(SQ, RTS0) /\ StoresHeld(rob, SQ) /\ LoadsHeld(rob, LQ, SQ)
      /\ Progress(rob) /\ rob \in [DOMAIN trace -> Entries] /\ LQ \in Loads
      /\ Scheduled \subseteq InRob /\ InRob \subseteq DOMAIN trace
      /\ \A j \in InRob : j \in Nat \ {0}
      /\ RTS1 \in Seq(SQSlots)
  BY InvParts, TraceFacts DEF TypeInv
<1>2. slot \in Elements(RTS1)
  <2>1. IsInjective(RTS1)
    BY <1>1 DEF StoresTracked
  <2> QED
    BY <1>1, <2>1, TakeHead
<1>3. slot \in Used(SQ) /\ ~SQ[slot].fetched
  BY <1>1, <1>2 DEF StoresTracked
<1>4. /\ slot \in SQSlots
      /\ SQ[slot] \in [instr : Nat, address : AllAddresses, fetched : BOOLEAN]
  BY <1>2, RequestNamed
<1>5. i \in Scheduled /\ slot \in Elements(rob[i].sq_index)
  BY <1>1, <1>3 DEF StoresHeld
<1>6. i \in Nat \ {0} /\ i \in DOMAIN trace
  BY <1>1, <1>5
<1>7. is_memory(i)
  <2>1. DOMAIN rob[i].sq_index # {}
    BY <1>5 DEF Elements
  <2>2. DOMAIN rob[i].sq_index \subseteq DOMAIN trace[i].stores
    BY <1>1, <1>6 DEF Progress, ProgressOf
  <2>3. DOMAIN << >> = {}
    OBVIOUS
  <2> QED
    BY <2>1, <2>2, <2>3 DEF is_memory
<1>8. \A x \in forwarded : LQ[x] # NoEntry /\ LQ[x].producer = i
  BY DEF OwnDependents
<1>9. forwarded \subseteq LQSlots
  <2>1. ASSUME NEW d \in rob[i].memory_instrs_depend_on_me, NEW n \in DOMAIN rob[d].lq_index
        PROVE  rob[d].lq_index[n] \in LQSlots
    <3>1. d \in i + 1 .. next_schedule - 1
      BY <1>1, <1>6 DEF Progress, ProgressOf
    <3>2. d \in DOMAIN trace
      <4>1. head \in Nat /\ head > 0 /\ next_schedule \in Nat
        BY <1>1, Positions
      <4> QED
        BY <1>1, <1>5, <1>6, <3>1, <4>1 DEF Scheduled
    <3>3. rob[d].lq_index \in Indices(LQSlots)
      BY <1>1, <3>2 DEF Entries
    <3> QED
      BY <3>3 DEF Indices
  <2> QED
    BY <2>1 DEF Dependents
<1>10. forwarded \subseteq Used(LQ)
  BY <1>1, <1>8, <1>9 DEF Used, Loads
<1>11. ASSUME NEW x \in Used(LQ), LQ[x].producer = i,
              trace[LQ[x].instr].loads[LQ[x].op] = a
       PROVE  x \in forwarded
  <2> DEFINE e == LQ[x]
  <2>1. LoadHeld(x, e, rob, SQ)
    BY <1>1 DEF LoadsHeld
  <2>2. /\ e.op \in DOMAIN rob[e.instr].lq_index /\ rob[e.instr].lq_index[e.op] = x
        /\ e.instr \in rob[i].memory_instrs_depend_on_me
    BY <1>6, <1>11, <2>1 DEF LoadHeld, NoStore
  <2> QED
    BY <1>11, <2>2, SMTT(40) DEF Dependents
<1> QED
  BY <1>3, <1>4, <1>5, <1>6, <1>7, <1>8, <1>10, <1>11 DEF NoStore

(***************************************************************************)
(* A store is executed: it counts as done, and so do the loads it releases.*)
(***************************************************************************)
LEMMA ExecuteStoreInv ==
  ASSUME IInv, execute_store
  PROVE  IInv'
<1>0. PICK slot, i, a, forwarded :
        /\ slot = Head(RTS1) /\ i = SQ[slot].instr /\ a = SQ[slot].address
        /\ forwarded = Dependents(i, a)
  OBVIOUS
<1> DEFINE held(d) == {x \in forwarded : LQ[x].instr = d}
           ops(d) == (IF d = i THEN 1 ELSE 0) + Cardinality(held(d))
           finished == {d \in DOMAIN rob : AllDone(rob, d, ops(d)) = 1}
<1>1. /\ TypeInv /\ ReadyToExecute /\ rob \in [DOMAIN trace -> Entries] /\ Progress(rob)
      /\ InOrder(SQ, SQ_tail, STA) /\ StoresTracked(SQ, RTS0)
      /\ LoadsTracked(LQ, RTL0) /\ RequestsNamed(LQ, SQ)
      /\ InRob \subseteq DOMAIN trace /\ Scheduled \subseteq InRob
      /\ Counted(rob, LQ, SQ) /\ LoadsHeld(rob, LQ, SQ) /\ StoresHeld(rob, SQ)
      /\ LQ \in Loads /\ SQ \in Stores /\ DOMAIN rob = DOMAIN trace
      /\ RTS1 \in Seq(SQSlots)
  BY InvParts, TraceFacts DEF TypeInv
<1>2. /\ RTS1 # << >> /\ OwnDependents(slot) /\ RTS1' = Tail(RTS1)
      /\ SQ' = [SQ EXCEPT ![slot].fetched = TRUE]
      /\ rob' = [d \in DOMAIN trace |-> OpsDone(rob, d, ops(d))[d]]
      /\ LQ' = [x \in LQSlots |-> IF x \in forwarded THEN NoEntry ELSE LQ[x]]
      /\ inflight_mem_executions' = inflight_mem_executions + Cardinality(finished)
      /\ seen' = seen \cup {<<LQ[x].instr, LQ[x].op, i>> : x \in forwarded}
      /\ UNCHANGED <<trace, head, tail, next_schedule, fetch_stall, STA, RTE0, RTE1, SQ_tail,
                     RTL0, RTL1, RTS0, DTLB, L1D, WQ, inflight_reg_executions>>
  BY <1>0, <1>1 DEF execute_store, lists
<1>3. /\ slot \in Used(SQ) /\ slot \in SQSlots /\ ~SQ[slot].fetched
      /\ SQ[slot] \in [instr : Nat, address : AllAddresses, fetched : BOOLEAN]
      /\ i \in Scheduled /\ is_memory(i) /\ i # NoStore
      /\ forwarded \subseteq Used(LQ)
      /\ \A x \in forwarded : LQ[x].producer = i
      /\ \A x \in Used(LQ) :
           LQ[x].producer = i /\ trace[LQ[x].instr].loads[LQ[x].op] = a => x \in forwarded
  BY <1>0, <1>2, StoreReleases, SMTT(40)
<1>4. i \in InRob /\ i \in DOMAIN trace
  BY <1>1, <1>3
<1>5. /\ SQ' \in Stores /\ Used(SQ') = Used(SQ)
      /\ SQ'[slot].fetched = TRUE /\ SQ'[slot].instr = i /\ SQ'[slot].address = a
      /\ \A q \in SQSlots \ {slot} : SQ'[q] = SQ[q]
  <2> DEFINE e == [SQ[slot] EXCEPT !.fetched = TRUE]
  <2>1. /\ e \in [instr : Nat, address : AllAddresses, fetched : BOOLEAN]
        /\ e.fetched = TRUE /\ e.instr = i /\ e.address = a
    BY <1>0, <1>3
  <2>2. e # NoEntry
    <3>1. SQ[slot] # NoEntry
      BY <1>3 DEF Used
    <3>2. DOMAIN e = {"instr", "address", "fetched"}
      BY <2>1
    <3>3. DOMAIN NoEntry = {"instr"} /\ "fetched" # "instr"
      BY DEF NoEntry
    <3>4. "fetched" \in DOMAIN e /\ "fetched" \notin DOMAIN NoEntry
      BY <3>2, <3>3
    <3> QED
      BY <3>4
  <2>3. SQ' = [SQ EXCEPT ![slot] = e]
    BY <1>1, <1>2, <1>3
  <2> HIDE DEF e
  <2>4. SQ' \in Stores
    BY <1>1, <1>3, <2>1, <2>3 DEF Stores
  <2>5. SQ'[slot] = e /\ \A q \in SQSlots \ {slot} : SQ'[q] = SQ[q]
    BY <1>1, <1>3, <2>3 DEF Stores
  <2>6. DOMAIN SQ' = SQSlots /\ DOMAIN SQ = SQSlots
    BY <1>1, <2>4 DEF Stores
  <2>7. Used(SQ') = Used(SQ)
    BY <1>3, <2>2, <2>5, <2>6 DEF Used
  <2> QED
    BY <2>1, <2>4, <2>5, <2>7
<1>6. /\ LQ' \in Loads /\ Used(LQ') = Used(LQ) \ forwarded
      /\ \A x \in Used(LQ') : LQ'[x] = LQ[x] /\ x \in Used(LQ) /\ x \notin forwarded
  <2>1. LQ' \in Loads
    BY <1>1, <1>2 DEF Loads
  <2>2. DOMAIN LQ = LQSlots /\ DOMAIN LQ' = LQSlots
    BY <1>1, <2>1 DEF Loads
  <2>3. Used(LQ') = Used(LQ) \ forwarded
    BY <1>2, <2>2 DEF Used
  <2>4. \A x \in LQSlots \ forwarded : LQ'[x] = LQ[x]
    BY <1>2
  <2>5. Used(LQ) \subseteq LQSlots
    BY <2>2 DEF Used
  <2> QED
    BY <2>1, <2>3, <2>4, <2>5
<1>7. ASSUME NEW d \in InRob
      PROVE  /\ held(d) \subseteq HeldLoads(LQ, d) /\ HeldLoads(LQ', d) = HeldLoads(LQ, d) \ held(d)
             /\ IsFiniteSet(held(d)) /\ Cardinality(held(d)) \in Nat
             /\ Cardinality(HeldLoads(LQ', d)) \in Nat
             /\ Cardinality(HeldLoads(LQ, d)) =
                  Cardinality(HeldLoads(LQ', d)) + Cardinality(held(d))
  <2>1. held(d) \subseteq HeldLoads(LQ, d)
    BY <1>3 DEF HeldLoads
  <2>2. HeldLoads(LQ', d) = HeldLoads(LQ, d) \ held(d)
    BY <1>6 DEF HeldLoads
  <2> HIDE DEF held
  <2>3. IsFiniteSet(HeldLoads(LQ, d)) /\ Cardinality(HeldLoads(LQ, d)) \in Nat
    BY <1>1, CountsAreFinite
  <2>4. IsFiniteSet(held(d))
    BY <2>1, <2>3, FS_Subset
  <2>5. Cardinality(held(d)) \in Nat
    BY <2>4, FS_CardinalityType
  <2>6. HeldLoads(LQ, d) \cap held(d) = held(d)
    BY <2>1
  <2>7. /\ IsFiniteSet(HeldLoads(LQ, d) \ held(d))
        /\ Cardinality(HeldLoads(LQ, d) \ held(d)) =
             Cardinality(HeldLoads(LQ, d)) - Cardinality(HeldLoads(LQ, d) \cap held(d))
    BY <2>3, FS_Difference
  <2>8. Cardinality(HeldLoads(LQ', d)) = Cardinality(HeldLoads(LQ, d)) - Cardinality(held(d))
    BY <2>2, <2>6, <2>7
  <2>9. Cardinality(HeldLoads(LQ', d)) \in Nat
    BY <2>2, <2>7, FS_CardinalityType
  <2> QED
    BY <2>1, <2>2, <2>3, <2>4, <2>5, <2>8, <2>9
<1>8. ASSUME NEW d \in InRob
      PROVE  /\ Cardinality(HeldStores(SQ', d)) \in Nat
             /\ Cardinality(HeldStores(SQ, d)) =
                  Cardinality(HeldStores(SQ', d)) + (IF d = i THEN 1 ELSE 0)
  <2>1. IsFiniteSet(HeldStores(SQ, d)) /\ Cardinality(HeldStores(SQ, d)) \in Nat
    BY <1>1, CountsAreFinite
  <2>2. Used(SQ) \subseteq SQSlots
    BY <1>1 DEF Used, Stores
  <2>3. CASE d = i
    <3>1. HeldStores(SQ', d) = HeldStores(SQ, d) \ {slot} /\ slot \in HeldStores(SQ, d)
      BY <1>0, <1>3, <1>5, <2>2, <2>3 DEF HeldStores
    <3>2. /\ IsFiniteSet(HeldStores(SQ', d))
          /\ Cardinality(HeldStores(SQ', d)) = Cardinality(HeldStores(SQ, d)) - 1
      BY <2>1, <3>1, FS_RemoveElement
    <3>3. Cardinality(HeldStores(SQ', d)) \in Nat
      BY <3>2, FS_CardinalityType
    <3> QED
      BY <2>1, <2>3, <3>2, <3>3
  <2>4. CASE d # i
    <3>1. HeldStores(SQ', d) = HeldStores(SQ, d)
      BY <1>0, <1>5, <2>2, <2>4 DEF HeldStores
    <3> QED
      BY <2>1, <2>4, <3>1
  <2> QED
    BY <2>3, <2>4
<1>9. ASSUME NEW d \in DOMAIN trace \ InRob
      PROVE  ops(d) = 0
  <2>1. held(d) = {}
    <3>1. \A x \in forwarded : LQ[x].instr \in InRob
      BY <1>1, <1>3 DEF LoadsHeld, LoadHeld
    <3> QED
      BY <3>1
  <2>2. d # i
    BY <1>4
  <2> QED
    BY <2>1, <2>2, FS_EmptySet
<1>10. ASSUME NEW d \in InRob
       PROVE  /\ ops(d) \in Nat /\ rob[d].num_mem_ops - ops(d) \in Nat
              /\ rob[d].num_mem_ops - ops(d) =
                   Cardinality(MissingLoads(rob, d)) + Cardinality(HeldLoads(LQ', d))
                     + Cardinality(MissingStores(rob, d)) + Cardinality(HeldStores(SQ', d))
  <2>1. rob[d].num_mem_ops =
          Cardinality(MissingLoads(rob, d)) + Cardinality(HeldLoads(LQ, d))
            + Cardinality(MissingStores(rob, d)) + Cardinality(HeldStores(SQ, d))
    BY <1>1 DEF Counted
  <2>2. Cardinality(MissingLoads(rob, d)) \in Nat /\ Cardinality(MissingStores(rob, d)) \in Nat
    BY <1>1, CountsAreFinite
  <2> DEFINE one == IF d = i THEN 1 ELSE 0
  <2>3. one \in Nat
    OBVIOUS
  <2>4. ops(d) = one + Cardinality(held(d))
    OBVIOUS
  <2> HIDE DEF one, ops, held
  <2>5. /\ Cardinality(held(d)) \in Nat /\ Cardinality(HeldLoads(LQ', d)) \in Nat
        /\ Cardinality(HeldLoads(LQ, d)) = Cardinality(HeldLoads(LQ', d)) + Cardinality(held(d))
        /\ Cardinality(HeldStores(SQ', d)) \in Nat
        /\ Cardinality(HeldStores(SQ, d)) = Cardinality(HeldStores(SQ', d)) + one
    BY <1>7, <1>8 DEF one
  <2>6. \A p, q, r, t, u, v \in Nat :
          /\ p + (q + u) + r + (t + v) - (v + u) = p + q + r + t
          /\ p + q + r + t \in Nat /\ v + u \in Nat
    OBVIOUS
  <2> QED
    BY <2>1, <2>2, <2>3, <2>4, <2>5, <2>6
<1>11. \A d \in DOMAIN trace : ops(d) \in Nat /\ rob[d].num_mem_ops \in Nat
                               /\ rob[d].num_mem_ops - ops(d) \in Nat
  <2>1. ASSUME NEW d \in DOMAIN trace
        PROVE  ops(d) \in Nat /\ rob[d].num_mem_ops \in Nat /\ rob[d].num_mem_ops - ops(d) \in Nat
    <3>1. rob[d].num_mem_ops \in Nat
      BY <1>1 DEF Entries
    <3> HIDE DEF ops
    <3>2. CASE d \in InRob
      BY <1>10, <3>1, <3>2
    <3>3. CASE d \notin InRob
      <4>1. ops(d) = 0
        BY <1>9, <3>3
      <4> QED
        BY <3>1, <4>1
    <3> QED
      BY <3>2, <3>3
  <2> QED
    BY <2>1
<1>12. ASSUME NEW d \in InRob, ops(d) > 0
       PROVE  is_memory(d)
  <2>1. CASE d = i
    BY <1>3, <2>1
  <2>2. CASE d # i
    <3>1. held(d) # {}
      <4>1. ops(d) = 0 + Cardinality(held(d))
        BY <2>2
      <4> HIDE DEF held, ops
      <4>2. ASSUME held(d) = {}
            PROVE  FALSE
        <5>1. Cardinality(held(d)) = 0
          BY <4>2, FS_EmptySet
        <5> QED
          BY <1>12, <4>1, <5>1
      <4> QED
        BY <4>2
    <3>2. PICK x \in Used(LQ) : LQ[x].instr = d
      BY <1>3, <3>1
    <3>3. LQ[x].op \in DOMAIN rob[d].lq_index
      BY <1>1, <3>2 DEF LoadsHeld, LoadHeld
    <3>4. DOMAIN rob[d].lq_index \subseteq DOMAIN trace[d].loads
      BY <1>1 DEF Progress, ProgressOf
    <3>5. DOMAIN << >> = {}
      OBVIOUS
    <3> QED
      BY <3>3, <3>4, <3>5 DEF is_memory
  <2> QED
    BY <2>1, <2>2
<1>13. \A d \in DOMAIN rob :
         d \in finished <=> ops(d) > 0 /\ rob[d].num_mem_ops = ops(d)
  BY DEF AllDone
<1>14. finished \subseteq DOMAIN rob
  OBVIOUS
<1> HIDE DEF finished, ops, held
<1>15. /\ rob' \in [DOMAIN trace -> Entries]
       /\ \A d \in DOMAIN trace :
            /\ rob'[d].num_mem_ops = rob[d].num_mem_ops - ops(d)
            /\ rob'[d].scheduled = rob[d].scheduled
            /\ rob'[d].executed = rob[d].executed
            /\ rob'[d].num_reg_dependent = rob[d].num_reg_dependent
            /\ rob'[d].registers_depend_on_me = rob[d].registers_depend_on_me
            /\ rob'[d].lq_index = rob[d].lq_index /\ rob'[d].sq_index = rob[d].sq_index
            /\ rob'[d].memory_instrs_depend_on_me = rob[d].memory_instrs_depend_on_me
            /\ ops(d) = 0 => rob'[d] = rob[d]
  <2>1. ASSUME NEW d \in DOMAIN trace
        PROVE  /\ rob'[d] \in Entries
               /\ rob'[d].num_mem_ops = rob[d].num_mem_ops - ops(d)
               /\ rob'[d].scheduled = rob[d].scheduled
               /\ rob'[d].executed = rob[d].executed
               /\ rob'[d].num_reg_dependent = rob[d].num_reg_dependent
               /\ rob'[d].registers_depend_on_me = rob[d].registers_depend_on_me
               /\ rob'[d].lq_index = rob[d].lq_index /\ rob'[d].sq_index = rob[d].sq_index
               /\ rob'[d].memory_instrs_depend_on_me = rob[d].memory_instrs_depend_on_me
               /\ ops(d) = 0 => rob'[d] = rob[d]
    <3>1. rob[d] \in Entries
      BY <1>1
    <3>2. rob'[d] = [rob[d] EXCEPT !.num_mem_ops = @ - ops(d)]
      BY <1>1, <1>2 DEF OpsDone
    <3>3. rob[d].num_mem_ops - ops(d) \in Nat /\ rob[d].num_mem_ops \in Nat
      BY <1>11
    <3> QED
      BY <3>1, <3>2, <3>3 DEF Entries
  <2> QED
    BY <1>2, <2>1
<1>16. Progress(rob')
  <2>1. ASSUME NEW d \in DOMAIN trace
        PROVE  ProgressOf(d, rob'[d])
    <3>1. ProgressOf(d, rob[d])
      BY <1>1 DEF Progress
    <3>2. d \notin Scheduled => rob'[d] = rob[d]
      <4>1. ASSUME d \notin Scheduled
            PROVE  ops(d) = 0
        <5>1. d # i /\ held(d) = {}
          BY <1>1, <1>3, <1>4, <4>1 DEF LoadsHeld, LoadHeld, held
        <5> QED
          BY <5>1, FS_EmptySet DEF ops
      <4> QED
        BY <1>15, <4>1
    <3>3. rob[d].executed = "completed" => rob'[d].num_mem_ops = 0
      <4>1. rob[d].executed = "completed" => rob[d].num_mem_ops = 0
        BY <3>1 DEF ProgressOf
      <4>2. rob'[d].num_mem_ops = rob[d].num_mem_ops - ops(d)
        BY <1>15
      <4>3. ops(d) \in Nat /\ rob[d].num_mem_ops - ops(d) \in Nat
        BY <1>11
      <4> QED
        BY <4>1, <4>2, <4>3
    <3>4. CASE d \in Scheduled
      <4>1. d \in InRob
        BY <1>1, <3>4
      <4> QED
        BY <1>15, <3>1, <3>3, <3>4, <4>1 DEF ProgressOf
    <3> QED
      BY <3>1, <3>2, <3>4
  <2> QED
    BY <2>1 DEF Progress
<1>17. LoadsHeld(rob', LQ', SQ')
  <2>1. ASSUME NEW x \in Used(LQ')
        PROVE  LoadHeld(x, LQ'[x], rob', SQ')
    <3> DEFINE e == LQ[x]
               b == trace[e.instr].loads[e.op]
    <3>1. LoadHeld(x, e, rob, SQ) /\ LQ'[x] = e /\ x \in Used(LQ) /\ x \notin forwarded
      BY <1>1, <1>6 DEF LoadsHeld
    <3>2. /\ e.instr \in DOMAIN trace
          /\ e.producer # NoStore => e.producer \in DOMAIN trace
      BY <1>1, <3>1 DEF LoadHeld
    <3>3. ASSUME NEW q \in Used(SQ'), e.producer # NoStore, SQ'[q].instr = e.producer,
                 SQ'[q].address = b
          PROVE  ~SQ'[q].fetched
      <4>1. CASE q = slot
        BY <1>3, <1>5, <3>1, <3>3, <4>1
      <4>2. CASE q # slot
        <5>1. q \in Used(SQ) /\ q \in SQSlots
          BY <1>1, <1>5 DEF Used, Stores
        <5>2. SQ'[q] = SQ[q]
          BY <1>5, <4>2, <5>1
        <5> QED
          BY <3>1, <3>3, <5>1, <5>2 DEF LoadHeld
      <4> QED
        BY <4>1, <4>2
    <3> QED
      BY <1>15, <3>1, <3>2, <3>3 DEF LoadHeld
  <2> QED
    BY <2>1 DEF LoadsHeld
<1>18. \A q \in Used(SQ) : SQ'[q].instr = SQ[q].instr /\ SQ'[q].address = SQ[q].address
  <2>1. Used(SQ) \subseteq SQSlots
    BY <1>1 DEF Used, Stores
  <2> QED
    BY <1>0, <1>5, <2>1
<1>19. StoresHeld(rob', SQ')
  BY <1>1, <1>5, <1>15, <1>18 DEF StoresHeld
<1>20. InOrder(SQ', SQ_tail', STA')
  <2>1. /\ \A p, q \in SQSlots :
             q \in Used(SQ) /\ Age(SQ_tail, p) < Age(SQ_tail, q) =>
               p \in Used(SQ) /\ SQ[q].instr <= SQ[p].instr
        /\ \A n \in DOMAIN STA :
             /\ STA[n] < tail
             /\ \A m \in 1 .. n : STA[m] <= STA[n]
             /\ \A q \in Used(SQ) : SQ[q].instr <= STA[n]
    BY <1>1 DEF InOrder
  <2>2. SQ_tail' = SQ_tail /\ STA' = STA
    BY <1>2
  <2> QED
    BY <1>5, <1>18, <2>1, <2>2 DEF InOrder
<1>21. LoadsTracked(LQ, RTL0)'
  <2>1. {x \in Used(LQ') : LQ'[x].producer = NoStore} = {x \in Used(LQ) : LQ[x].producer = NoStore}
    BY <1>3, <1>6
  <2> QED
    BY <1>1, <1>2, <2>1 DEF LoadsTracked
<1>22. RTS1' \in Seq(SQSlots) /\ StoresTracked(SQ, RTS0)'
  <2>1. IsInjective(RTS1)
    BY <1>1 DEF StoresTracked
  <2>2. /\ RTS1' \in Seq(SQSlots) /\ IsInjective(RTS1')
        /\ slot \in Elements(RTS1) /\ Elements(RTS1') = Elements(RTS1) \ {slot}
    BY <1>0, <1>1, <1>2, <2>1, TakeHead
  <2>3. Used(SQ) \subseteq SQSlots
    BY <1>1 DEF Used, Stores
  <2>4. {q \in Used(SQ') : ~SQ'[q].fetched} = {q \in Used(SQ) : ~SQ[q].fetched} \ {slot}
    BY <1>5, <2>3
  <2> QED
    BY <1>1, <1>2, <2>2, <2>4 DEF StoresTracked
<1>23. RequestsNamed(LQ, SQ)'
  <2>1. ASSUME NEW r \in DTLB \cup L1D
        PROVE  /\ r.queue = "SQ" => SQ'[r.slot].instr = SQ[r.slot].instr
               /\ r.queue # "SQ" => LQ'[r.slot] = LQ[r.slot]
    <3>1. CASE r.queue = "SQ"
      <4>1. r \in DTLB
        BY <1>1, <3>1 DEF RequestsNamed
      <4>2. r.slot \in Requests(DTLB, "SQ")
        BY <3>1, <4>1 DEF Requests
      <4>3. r.slot \in Used(SQ)
        BY <1>1, <4>2 DEF StoresTracked
      <4> QED
        BY <1>18, <3>1, <4>3
    <3>2. CASE r.queue # "SQ"
      <4>1. r.queue = "LQ"
        BY <1>1, <3>2 DEF RequestsNamed
      <4>2. r.slot \in Requests(DTLB, "LQ") \cup Requests(L1D, "LQ")
        BY <4>1 DEF Requests
      <4>3. r.slot \in LQSlots /\ LQ[r.slot].producer = NoStore
        BY <4>2, RequestNamed
      <4>4. r.slot \notin forwarded
        BY <1>3, <4>3
      <4> QED
        BY <1>2, <3>2, <4>3, <4>4
    <3> QED
      BY <3>1, <3>2
  <2> QED
    BY <1>1, <1>2, <2>1 DEF RequestsNamed
<1>24. Counted(rob', LQ', SQ')
  <2>1. ASSUME NEW d \in InRob
        PROVE  rob'[d].num_mem_ops =
                 Cardinality(MissingLoads(rob', d)) + Cardinality(HeldLoads(LQ', d))
                   + Cardinality(MissingStores(rob', d)) + Cardinality(HeldStores(SQ', d))
    <3>1. /\ MissingLoads(rob', d) = MissingLoads(rob, d)
          /\ MissingStores(rob', d) = MissingStores(rob, d)
          /\ rob'[d].num_mem_ops = rob[d].num_mem_ops - ops(d)
      BY <1>1, <1>15 DEF MissingLoads, MissingStores
    <3> QED
      BY <1>10, <3>1
  <2> QED
    BY <2>1 DEF Counted
<1>25. /\ inflight_mem_executions' \in Nat
       /\ inflight_mem_executions' = Cardinality(Finished(rob'))
  <2>1. finished \subseteq InRob
    <3>1. ASSUME NEW d \in finished
          PROVE  d \in InRob
      <4>1. d \in DOMAIN trace /\ ops(d) > 0
        BY <1>1, <1>13, <1>14
      <4>2. ~(ops(d) = 0)
        BY <4>1
      <4> QED
        BY <1>9, <4>1, <4>2
    <3> QED
      BY <3>1
  <2>2. Finished(rob') = Finished(rob) \cup finished
    <3>1. ASSUME NEW d \in InRob
          PROVE  d \in Finished(rob') <=> d \in Finished(rob) \/ d \in finished
      <4>1. /\ d \in DOMAIN trace /\ rob'[d].executed = rob[d].executed
            /\ rob'[d].num_mem_ops = rob[d].num_mem_ops - ops(d)
            /\ ops(d) \in Nat /\ rob[d].num_mem_ops \in Nat
            /\ rob[d].num_mem_ops - ops(d) \in Nat
            /\ d \in DOMAIN rob
        BY <1>1, <1>11, <1>15
      <4>2. rob[d].executed = "completed" => rob[d].num_mem_ops = 0
        BY <1>1, <4>1 DEF Progress, ProgressOf
      <4>3. d \in finished <=> ops(d) > 0 /\ rob[d].num_mem_ops = ops(d)
        BY <1>13, <4>1
      <4>4. rob'[d].num_mem_ops = 0 <=>
              rob[d].num_mem_ops = 0 \/ (ops(d) > 0 /\ rob[d].num_mem_ops = ops(d))
        BY <4>1
      <4>5. ops(d) > 0 /\ rob[d].num_mem_ops = ops(d) => rob[d].num_mem_ops # 0
        BY <4>1
      <4> QED
        BY <1>12, <4>1, <4>2, <4>3, <4>4, <4>5 DEF Finished
    <3> QED
      BY <2>1, <3>1 DEF Finished
  <2>3. Finished(rob) \cap finished = {}
    <3>1. ASSUME NEW d \in finished
          PROVE  d \notin Finished(rob)
      <4>1. /\ d \in DOMAIN trace /\ ops(d) > 0 /\ rob[d].num_mem_ops = ops(d)
            /\ ops(d) \in Nat
        BY <1>1, <1>11, <1>13, <1>14
      <4>2. rob[d].num_mem_ops # 0
        BY <4>1
      <4> QED
        BY <4>2 DEF Finished
    <3> QED
      BY <3>1
  <2>4. IsFiniteSet(Finished(rob)) /\ IsFiniteSet(finished)
    <3>1. IsFiniteSet(InRob)
      BY <1>1, TraceFacts
    <3>2. IsFiniteSet(Finished(rob))
      BY <1>1, <1>4, CountsAreFinite
    <3> QED
      BY <2>1, <3>1, <3>2, FS_Subset
  <2>5. /\ Cardinality(Finished(rob) \cup finished) =
             Cardinality(Finished(rob)) + Cardinality(finished)
                - Cardinality(Finished(rob) \cap finished)
    BY <2>4, FS_Union
  <2>6. Cardinality({}) = 0
    BY FS_EmptySet
  <2>7. Cardinality(Finished(rob)) \in Nat /\ Cardinality(finished) \in Nat
    BY <2>4, FS_CardinalityType
  <2>8. inflight_mem_executions = Cardinality(Finished(rob))
    BY InvParts
  <2>9. Cardinality(Finished(rob')) = Cardinality(Finished(rob)) + Cardinality(finished)
    <3>1. Cardinality(Finished(rob) \cap finished) = 0
      BY <2>3, <2>6
    <3> QED
      BY <2>2, <2>5, <2>7, <3>1
  <2>10. inflight_mem_executions' = inflight_mem_executions + Cardinality(finished)
    BY <1>2
  <2> QED
    BY <2>7, <2>8, <2>9, <2>10
<1>26. RegistersCounted(rob') /\ Executing(rob') = Executing(rob)
  <2>1. SameStages(rob, rob')
    BY <1>15 DEF SameStages
  <2> QED
    BY <1>1, <2>1, SameRegisters, InvParts
<1>27. seen' \in SUBSET (Nat \X Nat \X Nat) /\ RightlySeen(seen')
  <2>1. ASSUME NEW x \in forwarded
        PROVE  /\ <<LQ[x].instr, LQ[x].op, i>> \in Nat \X Nat \X Nat
               /\ i = Source(LQ[x].instr, trace[LQ[x].instr].loads[LQ[x].op])
    <3>1. LoadHeld(x, LQ[x], rob, SQ) /\ LQ[x].producer = i
      BY <1>1, <1>3 DEF LoadsHeld
    <3>2. LQ[x] \in [instr : Nat, op : Nat, producer : Nat]
      BY <1>1, <1>3 DEF Loads, Used
    <3> QED
      BY <1>3, <3>1, <3>2 DEF LoadHeld
  <2>2. seen \in SUBSET (Nat \X Nat \X Nat) /\ RightlySeen(seen)
    BY InvParts
  <2>3. seen' \in SUBSET (Nat \X Nat \X Nat)
    BY <1>2, <2>1, <2>2
  <2>4. ASSUME NEW load \in seen'
        PROVE  load[3] = Source(load[1], trace[load[1]].loads[load[2]])
    <3>1. CASE load \in seen
      BY <2>2, <3>1 DEF RightlySeen
    <3>2. CASE load \in {<<LQ[x].instr, LQ[x].op, i>> : x \in forwarded}
      <4>1. PICK x \in forwarded : load = <<LQ[x].instr, LQ[x].op, i>>
        BY <3>2
      <4>2. load[1] = LQ[x].instr /\ load[2] = LQ[x].op /\ load[3] = i
        BY <4>1
      <4> QED
        BY <2>1, <4>2
    <3> QED
      BY <1>2, <3>1, <3>2
  <2> QED
    BY <2>3, <2>4 DEF RightlySeen
<1>28. ReadyToExecute'
  <2>1. \A d \in Scheduled : /\ rob'[d].executed = rob[d].executed
                             /\ rob'[d].num_reg_dependent = rob[d].num_reg_dependent
    BY <1>1, <1>15
  <2>2. Scheduled' = Scheduled /\ \A d : is_memory(d)' = is_memory(d)
    BY <1>2 DEF Scheduled, is_memory
  <2>3. RTE0' = RTE0 /\ RTE1' = RTE1
    BY <1>2
  <2> QED
    BY <1>1, <2>1, <2>2, <2>3 DEF ReadyToExecute
<1>29. TypeInv'
  BY <1>1, <1>2, <1>22 DEF TypeInv
<1> QED
  BY <1>2, <1>5, <1>6, <1>15, <1>16, <1>17, <1>19, <1>20, <1>21, <1>22, <1>23, <1>24, <1>25,
     <1>26, <1>27, <1>28, <1>29, InvParts, StepInv

(***************************************************************************)
(* The L1D answers a load, which takes what is in memory: it counts as     *)
(* done, and gives up its slot.                                            *)
(***************************************************************************)
LEMMA FetchedInv ==
  ASSUME IInv, NEW r \in L1D, Fetched(r)
  PROVE  IInv'
<1>0. PICK slot, i, n : slot = r.slot /\ i = r.instr /\ n = LQ[slot].op
  OBVIOUS
<1> DEFINE a == trace[i].loads[n]
<1>1. /\ TypeInv /\ ReadyToExecute /\ rob \in [DOMAIN trace -> Entries] /\ Progress(rob)
      /\ InOrder(SQ, SQ_tail, STA) /\ StoresTracked(SQ, RTS0)
      /\ LoadsTracked(LQ, RTL0) /\ RequestsNamed(LQ, SQ)
      /\ InRob \subseteq DOMAIN trace /\ Scheduled \subseteq InRob
      /\ Counted(rob, LQ, SQ) /\ LoadsHeld(rob, LQ, SQ) /\ StoresHeld(rob, SQ)
      /\ LQ \in Loads /\ SQ \in Stores /\ DOMAIN rob = DOMAIN trace
      /\ IsFiniteSet(InRob)
  BY InvParts, TraceFacts
<1>2. /\ L1D' = L1D \ {r} /\ rob' = OpsDone(rob, i, 1)
      /\ inflight_mem_executions' = inflight_mem_executions + AllDone(rob, i, 1)
      /\ LQ' = [LQ EXCEPT ![slot] = NoEntry]
      /\ seen' = seen \cup {<<i, n, InMemory(a)>>}
      /\ UNCHANGED <<trace, head, tail, next_schedule, fetch_stall, STA, RTE0, RTE1, SQ,
                     SQ_tail, RTL0, RTL1, RTS0, RTS1, DTLB, WQ, inflight_reg_executions>>
  BY <1>0 DEF Fetched, lists
<1>3. r.queue = "LQ" /\ slot \in Requests(L1D, "LQ") /\ i = LQ[slot].instr
  BY <1>0, <1>1 DEF RequestsNamed, Requests
<1>4. /\ slot \in LQSlots /\ slot \in Used(LQ) /\ LQ[slot].producer = NoStore
      /\ LQ[slot] \in [instr : Nat, op : Nat, producer : Nat]
  <2>1. slot \in Used(LQ)
    BY <1>1, <1>3 DEF LoadsTracked
  <2> QED
    BY <1>3, <2>1, RequestNamed
<1>5. LoadHeld(slot, LQ[slot], rob, SQ)
  BY <1>1, <1>4 DEF LoadsHeld
<1>6. /\ i \in Scheduled /\ i \in InRob /\ i \in DOMAIN trace /\ i \in Nat /\ n \in Nat
      /\ n \in DOMAIN rob[i].lq_index /\ rob[i].lq_index[n] = slot
      /\ StoresTo(a, head .. i - 1) = {}
  BY <1>0, <1>1, <1>3, <1>4, <1>5 DEF LoadHeld
<1>7. is_memory(i)
  <2>1. DOMAIN rob[i].lq_index \subseteq DOMAIN trace[i].loads
    BY <1>1, <1>6 DEF Progress, ProgressOf
  <2>2. DOMAIN << >> = {}
    OBVIOUS
  <2> QED
    BY <1>6, <2>1, <2>2 DEF is_memory
<1>8. InMemory(a) = Source(i, a)
  BY <1>1, <1>6, MemoryIsSource
<1> HIDE DEF a
<1>9. /\ LQ' \in Loads /\ Used(LQ') = Used(LQ) \ {slot}
      /\ \A x \in Used(LQ') : LQ'[x] = LQ[x] /\ x \in Used(LQ) /\ x # slot
      /\ \A x \in LQSlots \ {slot} : LQ'[x] = LQ[x]
  <2>1. LQ' \in Loads
    BY <1>1, <1>2 DEF Loads
  <2>2. DOMAIN LQ = LQSlots /\ DOMAIN LQ' = LQSlots
    BY <1>1, <2>1 DEF Loads
  <2>3. LQ'[slot] = NoEntry /\ \A x \in LQSlots \ {slot} : LQ'[x] = LQ[x]
    BY <1>2, <1>4, <2>2
  <2>4. Used(LQ') = Used(LQ) \ {slot}
    BY <2>2, <2>3 DEF Used
  <2>5. Used(LQ) \subseteq LQSlots
    BY <2>2 DEF Used
  <2> QED
    BY <2>1, <2>3, <2>4, <2>5
<1>10. /\ slot \in HeldLoads(LQ, i) /\ HeldLoads(LQ', i) = HeldLoads(LQ, i) \ {slot}
       /\ \A d \in InRob \ {i} : HeldLoads(LQ', d) = HeldLoads(LQ, d)
  BY <1>3, <1>4, <1>9 DEF HeldLoads
<1>11. /\ Cardinality(HeldLoads(LQ', i)) \in Nat
       /\ Cardinality(HeldLoads(LQ, i)) = Cardinality(HeldLoads(LQ', i)) + 1
  <2>1. IsFiniteSet(HeldLoads(LQ, i)) /\ Cardinality(HeldLoads(LQ, i)) \in Nat
    BY <1>1, <1>6, CountsAreFinite
  <2>2. /\ IsFiniteSet(HeldLoads(LQ', i))
        /\ Cardinality(HeldLoads(LQ', i)) = Cardinality(HeldLoads(LQ, i)) - 1
    BY <1>10, <2>1, FS_RemoveElement
  <2>3. Cardinality(HeldLoads(LQ', i)) \in Nat
    BY <2>2, FS_CardinalityType
  <2> QED
    BY <2>1, <2>2, <2>3
<1>12. /\ rob[i].num_mem_ops \in Nat \ {0} /\ rob[i].num_mem_ops - 1 \in Nat
       /\ rob[i].num_mem_ops - 1 =
            Cardinality(MissingLoads(rob, i)) + Cardinality(HeldLoads(LQ', i))
              + Cardinality(MissingStores(rob, i)) + Cardinality(HeldStores(SQ, i))
  <2>1. rob[i].num_mem_ops =
          Cardinality(MissingLoads(rob, i)) + Cardinality(HeldLoads(LQ, i))
            + Cardinality(MissingStores(rob, i)) + Cardinality(HeldStores(SQ, i))
    BY <1>1, <1>6 DEF Counted
  <2>2. /\ Cardinality(MissingLoads(rob, i)) \in Nat
        /\ Cardinality(MissingStores(rob, i)) \in Nat
        /\ Cardinality(HeldStores(SQ, i)) \in Nat
    BY <1>1, <1>6, CountsAreFinite
  <2>3. \A p, q, s, t \in Nat :
          /\ p + (q + 1) + s + t - 1 = p + q + s + t /\ p + q + s + t \in Nat
          /\ p + (q + 1) + s + t \in Nat \ {0}
    OBVIOUS
  <2> QED
    BY <1>11, <2>1, <2>2, <2>3
<1>13. /\ rob' \in [DOMAIN trace -> Entries]
       /\ rob'[i] = [rob[i] EXCEPT !.num_mem_ops = rob[i].num_mem_ops - 1]
       /\ \A d \in DOMAIN trace \ {i} : rob'[d] = rob[d]
  <2>1. rob[i] \in Entries
    BY <1>1, <1>6
  <2>2. rob' = [rob EXCEPT ![i] = [rob[i] EXCEPT !.num_mem_ops = rob[i].num_mem_ops - 1]]
    BY <1>1, <1>2, <1>6, <2>1 DEF OpsDone, Entries
  <2>3. [rob[i] EXCEPT !.num_mem_ops = rob[i].num_mem_ops - 1] \in Entries
    BY <1>12, <2>1 DEF Entries
  <2> QED
    BY <1>1, <1>6, <2>2, <2>3
<1>14. \A d \in DOMAIN trace :
         /\ rob'[d].scheduled = rob[d].scheduled
         /\ rob'[d].executed = rob[d].executed
         /\ rob'[d].num_reg_dependent = rob[d].num_reg_dependent
         /\ rob'[d].registers_depend_on_me = rob[d].registers_depend_on_me
         /\ rob'[d].lq_index = rob[d].lq_index /\ rob'[d].sq_index = rob[d].sq_index
         /\ rob'[d].memory_instrs_depend_on_me = rob[d].memory_instrs_depend_on_me
  <2>1. rob[i] \in Entries
    BY <1>1, <1>6
  <2>2. /\ rob'[i].scheduled = rob[i].scheduled
        /\ rob'[i].executed = rob[i].executed
        /\ rob'[i].num_reg_dependent = rob[i].num_reg_dependent
        /\ rob'[i].registers_depend_on_me = rob[i].registers_depend_on_me
        /\ rob'[i].lq_index = rob[i].lq_index /\ rob'[i].sq_index = rob[i].sq_index
        /\ rob'[i].memory_instrs_depend_on_me = rob[i].memory_instrs_depend_on_me
    BY <1>13, <2>1 DEF Entries
  <2> QED
    BY <1>13, <2>2
<1>15. rob'[i].num_mem_ops = rob[i].num_mem_ops - 1
  <2>1. rob[i] \in Entries
    BY <1>1, <1>6
  <2> QED
    BY <1>13, <2>1 DEF Entries
<1>16. Progress(rob')
  <2>1. ASSUME NEW d \in DOMAIN trace
        PROVE  ProgressOf(d, rob'[d])
    <3>1. ProgressOf(d, rob[d])
      BY <1>1 DEF Progress
    <3>2. CASE d # i
      BY <1>13, <3>1, <3>2
    <3>3. CASE d = i
      <4>1. rob[i].executed # "completed"
        BY <1>12, <3>1, <3>3 DEF ProgressOf
      <4> QED
        BY <1>6, <1>14, <3>1, <3>3, <4>1 DEF ProgressOf
    <3> QED
      BY <3>2, <3>3
  <2> QED
    BY <2>1 DEF Progress
<1>17. LoadsHeld(rob', LQ', SQ')
  <2>1. ASSUME NEW x \in Used(LQ')
        PROVE  LoadHeld(x, LQ'[x], rob', SQ)
    <3>1. LoadHeld(x, LQ[x], rob, SQ) /\ LQ'[x] = LQ[x]
      BY <1>1, <1>9 DEF LoadsHeld
    <3>2. /\ LQ[x].instr \in DOMAIN trace
          /\ LQ[x].producer # NoStore => LQ[x].producer \in DOMAIN trace
      BY <1>1, <3>1 DEF LoadHeld
    <3> QED
      BY <1>14, <3>1, <3>2 DEF LoadHeld
  <2>2. SQ' = SQ
    BY <1>2
  <2> QED
    BY <2>1, <2>2 DEF LoadsHeld
<1>18. StoresHeld(rob', SQ')
  BY <1>1, <1>2, <1>14 DEF StoresHeld
<1>19. Requests(L1D', "LQ") = Requests(L1D, "LQ") \ {slot}
  <2>1. Requests(L1D \ {r}, "LQ") =
          Requests(L1D, "LQ") \ (IF "LQ" = r.queue THEN {r.slot} ELSE {})
    BY <1>1, RequestAnswered
  <2> QED
    BY <1>0, <1>2, <1>3, <2>1
<1>20. LoadsTracked(LQ, RTL0)'
  <2>1. {x \in Used(LQ') : LQ'[x].producer = NoStore} =
          {x \in Used(LQ) : LQ[x].producer = NoStore} \ {slot}
    BY <1>9
  <2>2. slot \notin Elements(RTL0) \cup Elements(RTL1) \cup Requests(DTLB, "LQ")
    BY <1>1, <1>3 DEF LoadsTracked
  <2>3. Elements(RTL0) \cup Elements(RTL1) \cup Requests(DTLB, "LQ") \cup Requests(L1D', "LQ") =
          {x \in Used(LQ') : LQ'[x].producer = NoStore}
    BY <1>1, <1>19, <2>1, <2>2 DEF LoadsTracked
  <2>4. RTL0' = RTL0 /\ RTL1' = RTL1 /\ DTLB' = DTLB
    BY <1>2
  <2> QED
    BY <1>1, <1>19, <2>3, <2>4 DEF LoadsTracked
<1>21. StoresTracked(SQ, RTS0)'
  BY <1>1, <1>2 DEF StoresTracked
<1>22. RequestsNamed(LQ, SQ)'
  <2>1. ASSUME NEW q \in DTLB \cup L1D', q.queue # "SQ"
        PROVE  LQ'[q.slot] = LQ[q.slot]
    <3>1. q.queue = "LQ"
      BY <1>1, <1>2, <2>1 DEF RequestsNamed
    <3>2. q.slot \in Requests(DTLB, "LQ") \cup Requests(L1D', "LQ")
      BY <2>1, <3>1 DEF Requests
    <3>3. q.slot # slot
      BY <1>1, <1>3, <1>19, <3>2 DEF LoadsTracked
    <3>4. q.slot \in LQSlots
      BY <1>19, <3>2, RequestNamed
    <3> QED
      BY <1>9, <3>3, <3>4
  <2> QED
    BY <1>1, <1>2, <2>1 DEF RequestsNamed
<1>23. Counted(rob', LQ', SQ')
  <2>1. ASSUME NEW d \in InRob
        PROVE  rob'[d].num_mem_ops =
                 Cardinality(MissingLoads(rob', d)) + Cardinality(HeldLoads(LQ', d))
                   + Cardinality(MissingStores(rob', d)) + Cardinality(HeldStores(SQ, d))
    <3>1. /\ MissingLoads(rob', d) = MissingLoads(rob, d)
          /\ MissingStores(rob', d) = MissingStores(rob, d)
      BY <1>1, <1>14 DEF MissingLoads, MissingStores
    <3>2. CASE d = i
      BY <1>12, <1>15, <3>1, <3>2
    <3>3. CASE d # i
      BY <1>1, <1>10, <1>13, <3>1, <3>3 DEF Counted
    <3> QED
      BY <3>2, <3>3
  <2>2. SQ' = SQ
    BY <1>2
  <2> QED
    BY <2>1, <2>2 DEF Counted
<1>24. /\ inflight_mem_executions' \in Nat
       /\ inflight_mem_executions' = Cardinality(Finished(rob'))
  <2>1. inflight_mem_executions = Cardinality(Finished(rob)) /\ inflight_mem_executions \in Nat
    BY InvParts
  <2>2. IsFiniteSet(Finished(rob))
    BY <1>1, <1>6, CountsAreFinite
  <2>3. i \notin Finished(rob)
    BY <1>12 DEF Finished
  <2>4. \A d \in InRob \ {i} : d \in Finished(rob') <=> d \in Finished(rob)
    BY <1>1, <1>13 DEF Finished
  <2>5. CASE rob[i].num_mem_ops = 1
    <3>1. AllDone(rob, i, 1) = 1
      BY <2>5 DEF AllDone
    <3>2. rob[i].executed # "completed"
      BY <1>1, <1>6, <1>12 DEF Progress, ProgressOf
    <3>3. i \in Finished(rob')
      BY <1>6, <1>7, <1>14, <1>15, <2>5, <3>2 DEF Finished
    <3>4. Finished(rob') = Finished(rob) \cup {i}
      BY <2>4, <3>3 DEF Finished
    <3>5. Cardinality(Finished(rob) \cup {i}) = Cardinality(Finished(rob)) + 1
      BY <2>2, <2>3, FS_AddElement
    <3> QED
      BY <1>2, <2>1, <3>1, <3>4, <3>5
  <2>6. CASE rob[i].num_mem_ops # 1
    <3>1. AllDone(rob, i, 1) = 0
      BY <2>6 DEF AllDone
    <3>2. rob'[i].num_mem_ops # 0
      BY <1>12, <1>15, <2>6
    <3>3. Finished(rob') = Finished(rob)
      BY <2>3, <2>4, <3>2 DEF Finished
    <3> QED
      BY <1>2, <2>1, <3>1, <3>3
  <2> QED
    BY <2>5, <2>6
<1>25. RegistersCounted(rob') /\ Executing(rob') = Executing(rob)
  <2>1. SameStages(rob, rob')
    BY <1>14 DEF SameStages
  <2> QED
    BY <1>1, <2>1, SameRegisters, InvParts
<1>26. seen' \in SUBSET (Nat \X Nat \X Nat) /\ RightlySeen(seen')
  <2>1. seen \in SUBSET (Nat \X Nat \X Nat) /\ RightlySeen(seen)
    BY InvParts
  <2>2. InMemory(a) \in Nat
    <3>1. IsFiniteSet(1 .. head - 1)
      BY <1>1, FS_Interval DEF TypeInv
    <3>2. StoresTo(a, 1 .. head - 1) \subseteq 1 .. head - 1
      BY DEF StoresTo
    <3>3. IsFiniteSet(StoresTo(a, 1 .. head - 1)) /\ StoresTo(a, 1 .. head - 1) \subseteq Nat
      BY <1>1, <3>1, <3>2, FS_Subset DEF TypeInv
    <3>4. StoresTo(a, 1 .. head - 1) # {} => Youngest(StoresTo(a, 1 .. head - 1)) \in Nat
      BY <3>3, YoungestExists
    <3> QED
      BY <3>4 DEF InMemory, NoStore
  <2>3. <<i, n, InMemory(a)>> \in Nat \X Nat \X Nat
    BY <1>6, <2>2
  <2>4. seen' \in SUBSET (Nat \X Nat \X Nat)
    BY <1>2, <2>1, <2>3
  <2>5. ASSUME NEW load \in seen'
        PROVE  load[3] = Source(load[1], trace[load[1]].loads[load[2]])
    <3>1. CASE load \in seen
      BY <2>1, <3>1 DEF RightlySeen
    <3>2. CASE load = <<i, n, InMemory(a)>>
      <4>1. load[1] = i /\ load[2] = n /\ load[3] = InMemory(a)
        BY <3>2
      <4> QED
        BY <1>8, <4>1 DEF a
    <3> QED
      BY <1>2, <3>1, <3>2
  <2> QED
    BY <2>4, <2>5 DEF RightlySeen
<1>27. ReadyToExecute'
  <2>1. \A d \in Scheduled : /\ rob'[d].executed = rob[d].executed
                             /\ rob'[d].num_reg_dependent = rob[d].num_reg_dependent
    BY <1>1, <1>14
  <2>2. Scheduled' = Scheduled /\ \A d : is_memory(d)' = is_memory(d)
    BY <1>2 DEF Scheduled, is_memory
  <2>3. RTE0' = RTE0 /\ RTE1' = RTE1
    BY <1>2
  <2> QED
    BY <1>1, <2>1, <2>2, <2>3 DEF ReadyToExecute
<1>28. TypeInv'
  BY <1>1, <1>2 DEF TypeInv
<1>29. InOrder(SQ', SQ_tail', STA')
  BY <1>1, <1>2 DEF InOrder
<1>30. SQ' \in Stores /\ SQ_tail' \in SQSlots /\ STA' \in Seq(Nat)
       /\ RTL0' \in Seq(LQSlots) /\ RTS0' \in Seq(SQSlots)
       /\ inflight_reg_executions' = Cardinality(Executing(rob'))
  BY <1>2, <1>25, InvParts
<1> QED
  BY <1>2, <1>9, <1>13, <1>16, <1>17, <1>18, <1>20, <1>21, <1>22, <1>23, <1>24, <1>25, <1>26,
     <1>27, <1>28, <1>29, <1>30, StepInv
-----------------------------------------------------------------------------
\* The invariant holds of every state that is reached.

(***************************************************************************)
(* The reorder buffer is empty before the first instruction is read.       *)
(***************************************************************************)
LEMMA InitInv ==
  Init => IInv
<1> SUFFICES ASSUME Init
             PROVE  IInv
  OBVIOUS
<1>1. /\ trace \in Traces /\ head = 1 /\ tail = 1 /\ next_schedule = 1
      /\ rob = [i \in DOMAIN trace |-> Blank]
      /\ fetch_stall = FALSE
      /\ STA = << >> /\ RTE0 = << >> /\ RTE1 = << >>
      /\ LQ = [slot \in LQSlots |-> NoEntry] /\ SQ = [slot \in SQSlots |-> NoEntry]
      /\ SQ_tail = 0
      /\ RTL0 = << >> /\ RTL1 = << >> /\ RTS0 = << >> /\ RTS1 = << >>
      /\ DTLB = {} /\ L1D = {} /\ WQ = {}
      /\ inflight_reg_executions = 0 /\ inflight_mem_executions = 0 /\ seen = {}
  BY DEF Init
<1>2. Elements(<< >>) = {} /\ IsInjective(<< >>) /\ DOMAIN << >> = {}
  BY DEF Elements, IsInjective
<1>3. TypeInv
  <2>1. trace \in Seq(Elements(trace))
    BY <1>1, TraceAssumption
  <2>2. Len(trace) \in Nat
    BY <2>1
  <2>3. IsFiniteSet({}) /\ Cardinality({}) = 0
    BY FS_EmptySet
  <2> QED
    <3>1. IsFiniteSet(WQ) /\ Cardinality(WQ) <= WQ_SIZE
      BY <1>1, <2>3, Sizes
    <3>2. /\ RTE0 \in Seq(Nat) /\ RTE1 \in Seq(Nat)
          /\ RTL1 \in Seq(LQSlots) /\ RTS1 \in Seq(SQSlots)
      BY <1>1
    <3>3. tail <= Len(trace) + 1 /\ tail - head <= ROB_SIZE
      BY <1>1, <2>2, Sizes
    <3>4. /\ head \in Nat \ {0} /\ tail \in Nat /\ next_schedule \in Nat
          /\ head <= next_schedule /\ next_schedule <= tail
      BY <1>1
    <3>5. trace \in Traces /\ fetch_stall \in BOOLEAN
      BY <1>1
    <3> QED
      BY <3>1, <3>2, <3>3, <3>4, <3>5 DEF TypeInv
<1>4. InRob = {} /\ Scheduled = {}
  BY <1>1 DEF InRob, Scheduled
<1>5. Used(LQ) = {} /\ Used(SQ) = {}
  BY <1>1 DEF Used
<1>6. /\ LQ \in Loads /\ SQ \in Stores /\ SQ_tail \in SQSlots
      /\ STA \in Seq(Nat) /\ RTL0 \in Seq(LQSlots) /\ RTS0 \in Seq(SQSlots)
      /\ inflight_mem_executions \in Nat /\ seen \in SUBSET (Nat \X Nat \X Nat)
  <2>1. SQ_tail \in SQSlots
    BY <1>1, Sizes DEF SQSlots
  <2>2. LQ \in Loads /\ SQ \in Stores
    BY <1>1 DEF Loads, Stores
  <2> QED
    BY <1>1, <2>1, <2>2
<1>7. Blank \in Entries
  <2>1. \A S : << >> \in Indices(S)
    <3>1. \A S : << >> \in [{} -> S]
      BY <1>2
    <3> QED
      BY <3>1 DEF Indices
  <2> QED
    BY <2>1 DEF Blank, Entries, Stages
<1>8. rob \in [DOMAIN trace -> Entries] /\ \A i \in DOMAIN trace : rob[i] = Blank
  BY <1>1, <1>7
<1>9. Progress(rob)
  <2>1. \A i : ProgressOf(i, Blank)
    BY <1>2, <1>4 DEF ProgressOf, Blank
  <2> QED
    BY <1>8, <2>1 DEF Progress
<1>10. LoadsHeld(rob, LQ, SQ) /\ StoresHeld(rob, SQ) /\ InOrder(SQ, SQ_tail, STA)
  <2>1. \A i \in DOMAIN trace : DOMAIN rob[i].sq_index = {}
    BY <1>2, <1>8 DEF Blank
  <2> QED
    BY <1>1, <1>2, <1>5, <2>1 DEF LoadsHeld, StoresHeld, InOrder
<1>11. LoadsTracked(LQ, RTL0) /\ StoresTracked(SQ, RTS0) /\ RequestsNamed(LQ, SQ)
  BY <1>1, <1>2, <1>5 DEF LoadsTracked, StoresTracked, RequestsNamed, Requests
<1>12. Counted(rob, LQ, SQ) /\ RegistersCounted(rob) /\ RightlySeen(seen)
  BY <1>1, <1>4 DEF Counted, RegistersCounted, RightlySeen
<1>13. /\ inflight_mem_executions = Cardinality(Finished(rob))
       /\ inflight_reg_executions = Cardinality(Executing(rob))
  <2>1. Finished(rob) = {} /\ Executing(rob) = {}
    BY <1>4 DEF Finished, Executing
  <2> QED
    BY <1>1, <2>1, FS_EmptySet
<1>14. ReadyToExecute
  BY <1>1, <1>2 DEF ReadyToExecute
<1>15. LsqInv(Adding)
  BY <1>6, <1>8, <1>9, <1>10, <1>11, <1>12, <1>13, Parts, AddingTypes
<1> QED
  BY <1>3, <1>13, <1>14, <1>15 DEF IInv

(***************************************************************************)
(* Every step keeps the invariant.                                         *)
(***************************************************************************)
LEMMA NextInv ==
  IInv /\ [Next]_vars => IInv'
<1> SUFFICES ASSUME IInv, [Next]_vars
             PROVE  IInv'
  OBVIOUS
<1>1. CASE add_to_rob
  BY <1>1, AddToRobInv
<1>2. CASE do_scheduling
  BY <1>2, DoSchedulingInv
<1>3. ASSUME NEW i \in InRob,
             do_execution(i) \/ complete_execution(i) \/ do_memory_scheduling(i)
      PROVE  IInv'
  BY <1>3, DoExecutionInv, CompleteExecutionInv, DoMemorySchedulingInv
<1>4. CASE TranslateStore
  BY <1>4, TranslateStoreInv
<1>5. CASE TranslateLoad
  BY <1>5, TranslateLoadInv
<1>6. ASSUME NEW request \in DTLB, Translated(request)
      PROVE  IInv'
  BY <1>6, TranslatedInv
<1>7. CASE execute_store
  BY <1>7, ExecuteStoreInv
<1>8. CASE execute_load
  BY <1>8, ExecuteLoadInv
<1>9. ASSUME NEW request \in L1D, Fetched(request)
      PROVE  IInv'
  BY <1>9, FetchedInv
<1>10. CASE retire_rob
  BY <1>10, RetireRobInv
<1>11. ASSUME NEW a \in WQ, Written(a)
       PROVE  IInv'
  BY <1>11, WrittenInv
<1>12. CASE UNCHANGED vars
  <2>1. /\ UNCHANGED <<trace, head, tail, next_schedule, rob, fetch_stall, lists, queues>>
        /\ UNCHANGED <<DTLB, L1D, WQ, counters, seen>>
        /\ UNCHANGED <<LQ, SQ, SQ_tail, RTL0, RTL1, RTS0, RTS1>>
        /\ UNCHANGED <<RTE0, RTE1>>
    BY <1>12 DEF vars, queues, lists
  <2>2. /\ TypeInv /\ RTL0 \in Seq(LQSlots) /\ RTS0 \in Seq(SQSlots)
        /\ LoadsTracked(LQ, RTL0) /\ StoresTracked(SQ, RTS0) /\ RequestsNamed(LQ, SQ)
    BY InvParts
  <2>3. TypeInv'
    BY <2>1, <2>2 DEF TypeInv
  <2>4. LoadsTracked(LQ, RTL0)' /\ StoresTracked(SQ, RTS0)' /\ RequestsNamed(LQ, SQ)'
    BY <2>1, <2>2, SameLists
  <2> QED
    BY <2>1, <2>2, <2>3, <2>4, EntriesKept
<1> QED
  BY <1>1, <1>2, <1>3, <1>4, <1>5, <1>6, <1>7, <1>8, <1>9, <1>10, <1>11, <1>12 DEF Next

(***************************************************************************)
(* The invariant holds of every state of every behavior.                   *)
(***************************************************************************)
THEOREM ReorderBufferInvariant == Spec => []IInv
BY InitInv, NextInv, PTL DEF Spec

(***************************************************************************)
(* The invariant bounds what TypeOK bounds.                                *)
(***************************************************************************)
LEMMA InvTypeOK ==
  IInv => TypeOK
<1> SUFFICES ASSUME IInv
             PROVE  TypeOK
  OBVIOUS
<1>1. /\ TypeInv /\ ReadyToExecute /\ rob \in [DOMAIN trace -> Entries] /\ Progress(rob)
      /\ LoadsTracked(LQ, RTL0) /\ StoresTracked(SQ, RTS0)
      /\ Len(trace) \in Nat /\ DOMAIN trace = 1 .. Len(trace) /\ Scheduled \subseteq InRob
      /\ SQ_tail \in SQSlots
  BY InvParts, TraceFacts
<1>2. /\ head \in 1 .. Len(trace) + 1 /\ tail \in head .. Len(trace) + 1
      /\ tail - head <= ROB_SIZE /\ next_schedule \in head .. tail
      /\ fetch_stall \in BOOLEAN /\ Cardinality(WQ) <= WQ_SIZE
  BY <1>1 DEF TypeInv
<1>3. ASSUME NEW i \in DOMAIN trace
      PROVE  /\ rob[i].scheduled \in Stages /\ rob[i].executed \in Stages
             /\ rob[i].num_reg_dependent \in Nat /\ rob[i].num_mem_ops \in Nat
             /\ rob[i].memory_instrs_depend_on_me \subseteq i + 1 .. tail - 1
             /\ Elements(rob[i].lq_index) \subseteq LQSlots
             /\ Elements(rob[i].sq_index) \subseteq SQSlots
  <2>1. rob[i] \in Entries
    BY <1>1
  <2>2. /\ rob[i].scheduled \in Stages /\ rob[i].executed \in Stages
        /\ rob[i].num_reg_dependent \in Nat /\ rob[i].num_mem_ops \in Nat
        /\ rob[i].lq_index \in Indices(LQSlots) /\ rob[i].sq_index \in Indices(SQSlots)
    BY <2>1 DEF Entries
  <2>3. /\ Elements(rob[i].lq_index) \subseteq LQSlots
        /\ Elements(rob[i].sq_index) \subseteq SQSlots
    <3>1. ASSUME NEW slots, NEW index \in Indices(slots)
          PROVE  Elements(index) \subseteq slots
      <4>1. PICK ops \in SUBSET Nat : index \in [ops -> slots]
        BY DEF Indices
      <4> QED
        BY <4>1 DEF Elements
    <3> QED
      BY <2>2, <3>1
  <2>4. rob[i].memory_instrs_depend_on_me \subseteq i + 1 .. next_schedule - 1
    BY <1>1 DEF Progress, ProgressOf
  <2>5. i + 1 .. next_schedule - 1 \subseteq i + 1 .. tail - 1
    BY <1>1 DEF TypeInv
  <2> QED
    BY <2>2, <2>3, <2>4, <2>5
<1>4. /\ \A list \in {RTE0, RTE1} : IsInjective(list) /\ Elements(list) \subseteq InRob
      /\ \A list \in {RTL0, RTL1} : IsInjective(list) /\ Elements(list) \subseteq LQSlots
      /\ \A list \in {RTS0, RTS1} : IsInjective(list) /\ Elements(list) \subseteq SQSlots
  <2>1. Elements(RTE0) \subseteq InRob /\ Elements(RTE1) \subseteq InRob
    BY <1>1 DEF ReadyToExecute
  <2>2. IsInjective(RTE0) /\ IsInjective(RTE1)
    BY <1>1 DEF ReadyToExecute
  <2>3. /\ IsInjective(RTL0) /\ IsInjective(RTL1)
        /\ Elements(RTL0) \subseteq LQSlots /\ Elements(RTL1) \subseteq LQSlots
    BY <1>1, RequestNamed DEF LoadsTracked
  <2>4. /\ IsInjective(RTS0) /\ IsInjective(RTS1)
        /\ Elements(RTS0) \subseteq SQSlots /\ Elements(RTS1) \subseteq SQSlots
    BY <1>1, RequestNamed DEF StoresTracked
  <2> QED
    BY <2>1, <2>2, <2>3, <2>4
<1> QED
  BY <1>1, <1>2, <1>3, <1>4 DEF TypeOK

(***************************************************************************)
(* No list outgrows its ring, no counter falls below 0, and what an        *)
(* instruction notes of loads that depend on it is of younger ones.        *)
(***************************************************************************)
THEOREM ReorderBufferTypes == Spec => []TypeOK
BY ReorderBufferInvariant, InvTypeOK, PTL

(***************************************************************************)
(* What is in one of four places, disjoint and together a set, is counted  *)
(* once where it is in the set.                                            *)
(***************************************************************************)
LEMMA OnePlace ==
  ASSUME NEW A, NEW B, NEW C, NEW D, NEW x,
         A \cap B = {}, A \cap C = {}, A \cap D = {}, B \cap C = {}, B \cap D = {}, C \cap D = {}
  PROVE  Cardinality({n \in {1} : x \in A}) + Cardinality({n \in {1} : x \in B})
           + Cardinality({n \in {1} : x \in C}) + Cardinality({n \in {1} : x \in D})
         = (IF x \in A \cup B \cup C \cup D THEN 1 ELSE 0)
<1>1. ASSUME NEW S
      PROVE  /\ x \in S => Cardinality({n \in {1} : x \in S}) = 1
             /\ x \notin S => Cardinality({n \in {1} : x \in S}) = 0
  <2>1. ASSUME x \in S
        PROVE  Cardinality({n \in {1} : x \in S}) = 1
    <3>1. {n \in {1} : x \in S} = {1}
      BY <2>1
    <3>2. Cardinality({1}) = 1
      BY FS_Singleton
    <3> QED
      BY <3>1, <3>2
  <2>2. ASSUME x \notin S
        PROVE  Cardinality({n \in {1} : x \in S}) = 0
    <3>1. {n \in {1} : x \in S} = {}
      BY <2>2
    <3> QED
      BY <3>1, FS_EmptySet
  <2> QED
    BY <2>1, <2>2
<1>2. CASE x \in A
  <2>1. x \notin B /\ x \notin C /\ x \notin D
    BY <1>2
  <2> QED
    BY <1>1, <1>2, <2>1
<1>3. CASE x \in B
  <2>1. x \notin A /\ x \notin C /\ x \notin D
    BY <1>3
  <2> QED
    BY <1>1, <1>3, <2>1
<1>4. CASE x \in C
  <2>1. x \notin A /\ x \notin B /\ x \notin D
    BY <1>4
  <2> QED
    BY <1>1, <1>4, <2>1
<1>5. CASE x \in D
  <2>1. x \notin A /\ x \notin B /\ x \notin C
    BY <1>5
  <2> QED
    BY <1>1, <1>5, <2>1
<1>6. CASE x \notin A \cup B \cup C \cup D
  <2>1. x \notin A /\ x \notin B /\ x \notin C /\ x \notin D
    BY <1>6
  <2> QED
    <3>1. /\ Cardinality({n \in {1} : x \in A}) = 0 /\ Cardinality({n \in {1} : x \in B}) = 0
          /\ Cardinality({n \in {1} : x \in C}) = 0 /\ Cardinality({n \in {1} : x \in D}) = 0
      BY <1>1, <2>1
    <3> QED
      BY <1>6, <3>1
<1> QED
  BY <1>2, <1>3, <1>4, <1>5, <1>6

(***************************************************************************)
(* The invariant counts and tracks what WorkConserved is about.            *)
(***************************************************************************)
LEMMA InvWorkConserved ==
  IInv => WorkConserved
<1> SUFFICES ASSUME IInv
             PROVE  WorkConserved
  OBVIOUS
<1>1. /\ TypeInv /\ Counted(rob, LQ, SQ) /\ LoadsHeld(rob, LQ, SQ) /\ StoresHeld(rob, SQ)
      /\ LoadsTracked(LQ, RTL0) /\ StoresTracked(SQ, RTS0) /\ RequestsNamed(LQ, SQ)
      /\ inflight_mem_executions = Cardinality(Finished(rob))
      /\ inflight_reg_executions = Cardinality(Executing(rob))
      /\ LQ \in Loads /\ Scheduled \subseteq InRob
  BY InvParts, TraceFacts
<1>2. OpsCounted
  BY <1>1 DEF OpsCounted, Counted, MissingLoads, MissingStores, HeldLoads, HeldStores
<1>3. ExecutionsCounted
  BY <1>1 DEF ExecutionsCounted, Finished, Executing
<1>4. ASSUME NEW slot \in LQSlots
      PROVE  Cardinality({n \in {1} : slot \in Elements(RTL0)})
               + Cardinality({n \in {1} : slot \in Elements(RTL1)})
               + Cardinality({n \in {1} : slot \in Requests(DTLB, "LQ")})
               + Cardinality({n \in {1} : slot \in Requests(L1D, "LQ")})
             = (IF LQ[slot] # NoEntry /\ LQ[slot].producer = NoStore THEN 1 ELSE 0)
  <2>1. slot \in Elements(RTL0) \cup Elements(RTL1) \cup Requests(DTLB, "LQ")
                   \cup Requests(L1D, "LQ")
          <=> LQ[slot] # NoEntry /\ LQ[slot].producer = NoStore
    <3>1. slot \in Used(LQ) <=> LQ[slot] # NoEntry
      BY <1>1 DEF Used, Loads
    <3> QED
      BY <1>1, <3>1 DEF LoadsTracked
  <2>2. /\ Elements(RTL0) \cap Elements(RTL1) = {}
        /\ Elements(RTL0) \cap Requests(DTLB, "LQ") = {}
        /\ Elements(RTL0) \cap Requests(L1D, "LQ") = {}
        /\ Elements(RTL1) \cap Requests(DTLB, "LQ") = {}
        /\ Elements(RTL1) \cap Requests(L1D, "LQ") = {}
        /\ Requests(DTLB, "LQ") \cap Requests(L1D, "LQ") = {}
    BY <1>1 DEF LoadsTracked
  <2>3. Cardinality({n \in {1} : slot \in Elements(RTL0)})
          + Cardinality({n \in {1} : slot \in Elements(RTL1)})
          + Cardinality({n \in {1} : slot \in Requests(DTLB, "LQ")})
          + Cardinality({n \in {1} : slot \in Requests(L1D, "LQ")})
        = (IF slot \in Elements(RTL0) \cup Elements(RTL1) \cup Requests(DTLB, "LQ")
                         \cup Requests(L1D, "LQ") THEN 1 ELSE 0)
    BY <2>2, OnePlace, SMTT(40)
  <2> QED
    BY <2>1, <2>3
<1>5. ASSUME NEW r \in DTLB \cup L1D
      PROVE  r = Request(r.queue, r.slot) /\ r.instr \in InRob
  <2>1. /\ r \in [queue : {"LQ", "SQ"}, slot : Nat, instr : Nat]
        /\ r.instr = IF r.queue = "SQ" THEN SQ[r.slot].instr ELSE LQ[r.slot].instr
    BY <1>1 DEF RequestsNamed
  <2>2. r = Request(r.queue, r.slot)
    BY <2>1 DEF Request
  <2>3. CASE r.queue = "SQ"
    <3>1. r.slot \in Requests(DTLB, "SQ")
      BY <1>1, <2>3 DEF RequestsNamed, Requests
    <3>2. r.slot \in Used(SQ)
      BY <1>1, <3>1 DEF StoresTracked
    <3> QED
      BY <1>1, <2>1, <2>2, <2>3, <3>2 DEF StoresHeld
  <2>4. CASE r.queue = "LQ"
    <3>1. r.slot \in Requests(DTLB, "LQ") \cup Requests(L1D, "LQ")
      BY <2>4 DEF Requests
    <3>2. r.slot \in Used(LQ)
      BY <1>1, <3>1 DEF LoadsTracked
    <3> QED
      BY <1>1, <2>1, <2>2, <2>4, <3>2 DEF LoadsHeld, LoadHeld
  <2> QED
    BY <2>1, <2>3, <2>4
<1>6. ASSUME NEW slot \in Used(LQ)
      PROVE  LET e == LQ[slot] IN
             /\ rob[e.instr].lq_index[e.op] = slot
             /\ e.producer # NoStore =>
                  /\ e.producer \in InRob
                  /\ e.instr \in rob[e.producer].memory_instrs_depend_on_me
                  /\ \A q \in Used(SQ) : /\ SQ[q].instr = e.producer
                                         /\ SQ[q].address = trace[e.instr].loads[e.op]
                                         => ~SQ[q].fetched
  <2>1. LoadHeld(slot, LQ[slot], rob, SQ)
    BY <1>1 DEF LoadsHeld
  <2> QED
    BY <1>1, <2>1 DEF LoadHeld
<1>7. SlotsTracked
  BY <1>4, <1>5, <1>6 DEF SlotsTracked
<1> QED
  BY <1>2, <1>3, <1>7 DEF WorkConserved

(***************************************************************************)
(* Nothing is forgotten or done twice: every operation counts until it is  *)
(* done, every instruction without one left counts as completing, and a    *)
(* load is on its way or is found by the store it waits for.               *)
(***************************************************************************)
THEOREM ReorderBufferConservesWork == Spec => []WorkConserved
BY ReorderBufferInvariant, InvWorkConserved, PTL

(***************************************************************************)
(* A load has read the value of the youngest older store to its address.   *)
(***************************************************************************)
THEOREM ReorderBufferForwards == Spec => []LoadsSeeStores
<1>1. IInv => LoadsSeeStores
  <2> SUFFICES ASSUME IInv
               PROVE  LoadsSeeStores
    OBVIOUS
  <2>1. RightlySeen(seen)
    BY InvParts
  <2> QED
    BY <2>1 DEF LoadsSeeStores, RightlySeen, Source
<1> QED
  BY <1>1, ReorderBufferInvariant, PTL
-----------------------------------------------------------------------------
\* What a store has written for an instruction, that instruction reads from no other.
OneProducer ==
  \A i \in DOMAIN trace : \A m, n \in DOMAIN trace[i].loads :
    LET p == Source(i, trace[i].loads[m]) IN
    p # NoStore /\ trace[i].loads[n] \in Elements(trace[p].stores) =>
      Source(i, trace[i].loads[n]) = p

\* What a store needs to find a load.
SameMarks(old, new) ==
  \A j \in DOMAIN trace :
    /\ new[j].lq_index = old[j].lq_index
    /\ new[j].memory_instrs_depend_on_me = old[j].memory_instrs_depend_on_me

(***************************************************************************)
(* While no instruction enters or retires, what is found changes with the  *)
(* entries and the queues only.                                            *)
(***************************************************************************)
LEMMA FoundNext ==
  ASSUME UNCHANGED <<trace, head, tail>>, Marked(rob'), Waiting(rob', LQ', SQ')
  PROVE  LoadsFound(Adding)'
<1>1. InRob' = InRob
  BY DEF InRob
<1>2. Marked(rob)'
  BY <1>1 DEF Marked, Source, StoresTo
<1>3. Waiting(rob, LQ, SQ)'
  <2>1. \A i, n : Source(i, trace[i].loads[n])' = Source(i, trace[i].loads[n])
    BY DEF Source, StoresTo
  <2>2. \A p, i, n : Forwards(SQ, p, trace[i].loads[n])' <=> Forwards(SQ', p, trace[i].loads[n])
    BY DEF Forwards, Used
  <2> QED
    BY <1>1, <2>1, <2>2 DEF Waiting
<1> QED
  BY <1>2, <1>3 DEF LoadsFound, Adding

(***************************************************************************)
(* Nothing changes about what is found while the marks, the indices and    *)
(* the queues stay.                                                        *)
(***************************************************************************)
LEMMA FoundKept ==
  ASSUME IInv, LoadsFound(Adding), UNCHANGED <<trace, head, tail, LQ, SQ>>,
         SameMarks(rob, rob')
  PROVE  LoadsFound(Adding)'
<1>1. InRob \subseteq DOMAIN trace
  BY InvParts, TraceFacts
<1>2. Marked(rob) /\ Waiting(rob, LQ, SQ)
  BY DEF LoadsFound, Adding
<1>3. Marked(rob')
  BY <1>1, <1>2 DEF Marked, SameMarks
<1>4. Waiting(rob', LQ', SQ')
  BY <1>1, <1>2 DEF Waiting, SameMarks
<1> QED
  BY <1>3, <1>4, FoundNext

(***************************************************************************)
(* Scheduling, executing and completing instructions mark no load.         *)
(***************************************************************************)
LEMMA RegisterStepFound ==
  ASSUME IInv, LoadsFound(Adding),
         \/ do_scheduling
         \/ \E i \in InRob : do_execution(i) \/ complete_execution(i)
  PROVE  LoadsFound(Adding)'
<1>1. /\ rob \in [DOMAIN trace -> Entries] /\ DOMAIN rob = DOMAIN trace
      /\ \A j \in DOMAIN trace : rob[j] \in Entries
  BY InvParts
<1>2. CASE do_scheduling
  <2>1. UNCHANGED <<trace, head, tail, LQ, SQ>>
    BY <1>2 DEF do_scheduling, queues
  <2> DEFINE i == next_schedule
             producers == Producers(i)
             marks(p) == {<<i, q[2]>> : q \in {w \in producers : w[1] = p}}
             stage == IF is_memory(i) THEN "inflight" ELSE "completed"
             number == Cardinality(producers)
  <2>2. rob' = [p \in DOMAIN rob |->
          IF p = i
          THEN [rob[i] EXCEPT !.scheduled = stage, !.num_reg_dependent = number]
          ELSE [rob[p] EXCEPT !.registers_depend_on_me = @ \cup marks(p)]]
    BY <1>2 DEF do_scheduling
  <2> HIDE DEF i, producers, marks, stage, number
  <2>3. SameMarks(rob, rob')
    BY <1>1, <2>2 DEF SameMarks, Entries
  <2> QED
    BY <2>1, <2>3, FoundKept
<1>3. ASSUME NEW i \in InRob, do_execution(i)
      PROVE  LoadsFound(Adding)'
  <2>1. /\ UNCHANGED <<trace, head, tail, LQ, SQ>>
        /\ rob' = [rob EXCEPT ![i].executed = "inflight"]
    BY <1>3 DEF do_execution, queues
  <2>2. SameMarks(rob, rob')
    BY <1>1, <2>1 DEF SameMarks, Entries
  <2> QED
    BY <2>1, <2>2, FoundKept
<1>4. ASSUME NEW i \in InRob, complete_execution(i)
      PROVE  LoadsFound(Adding)'
  <2>1. UNCHANGED <<trace, head, tail, LQ, SQ>>
    BY <1>4 DEF complete_execution, queues
  <2> DEFINE waits(d) == Cardinality({q \in rob[i].registers_depend_on_me : q[1] = d})
  <2>2. rob' = [d \in DOMAIN rob |->
          IF d = i THEN [rob[i] EXCEPT !.executed = "completed"]
          ELSE [rob[d] EXCEPT !.num_reg_dependent = @ - waits(d)]]
    BY <1>4 DEF complete_execution
  <2> HIDE DEF waits
  <2>3. SameMarks(rob, rob')
    BY <1>1, <2>2 DEF SameMarks, Entries
  <2> QED
    BY <2>1, <2>3, FoundKept
<1> QED
  BY <1>2, <1>3, <1>4

(***************************************************************************)
(* An instruction that enters the reorder buffer has added nothing, and    *)
(* nothing in it reads from it.                                            *)
(***************************************************************************)
LEMMA AddToRobFound ==
  ASSUME IInv, LoadsFound(Adding), add_to_rob
  PROVE  LoadsFound(Adding)'
<1>1. /\ TypeInv /\ rob \in [DOMAIN trace -> Entries] /\ Progress(rob)
      /\ Marked(rob) /\ Waiting(rob, LQ, SQ)
      /\ InRob \subseteq DOMAIN trace /\ \A j \in InRob : j \in Nat \ {0}
      /\ DOMAIN trace = 1 .. Len(trace) /\ Len(trace) \in Nat
  BY InvParts, TraceFacts DEF LoadsFound, Adding
<1>2. /\ tail \in DOMAIN trace /\ tail' = tail + 1
      /\ UNCHANGED <<trace, head, LQ, SQ>>
      /\ rob' = [rob EXCEPT ![tail].num_mem_ops =
                   Len(trace[tail].loads) + Len(trace[tail].stores)]
  BY DEF add_to_rob, queues
<1>3. /\ head \in Nat \ {0} /\ tail \in Nat \ {0}
      /\ InRob' = InRob \cup {tail} /\ tail \notin InRob /\ \A j \in InRob : j < tail
  <2>1. head \in Nat \ {0} /\ tail \in Nat \ {0} /\ head <= tail
    BY <1>1, <1>2 DEF TypeInv
  <2> QED
    BY <1>2, <2>1 DEF InRob
<1>4. rob[tail] = Blank
  BY <1>1, <1>2, <1>3 DEF Progress, ProgressOf
<1>5. SameMarks(rob, rob')
  BY <1>1, <1>2 DEF SameMarks, Entries
<1>6. /\ DOMAIN rob'[tail].lq_index = {} /\ rob'[tail].memory_instrs_depend_on_me = {}
      /\ \A j \in InRob : /\ rob'[j].lq_index = rob[j].lq_index
                          /\ rob'[j].memory_instrs_depend_on_me =
                               rob[j].memory_instrs_depend_on_me
  <2>1. DOMAIN << >> = {}
    OBVIOUS
  <2> QED
    BY <1>1, <1>2, <1>4, <1>5, <2>1 DEF SameMarks, Blank
<1>7. \A i, n : Source(i, trace[i].loads[n])' = Source(i, trace[i].loads[n])
  BY <1>2 DEF Source, StoresTo
<1>8. Marked(rob)'
  <2>1. ASSUME NEW p \in InRob', NEW i \in rob'[p].memory_instrs_depend_on_me
        PROVE  \E n \in DOMAIN trace[i].loads : Source(i, trace[i].loads[n]) = p
    <3>1. p \in InRob /\ i \in rob[p].memory_instrs_depend_on_me
      BY <1>3, <1>6
    <3> QED
      BY <1>1, <3>1 DEF Marked
  <2> QED
    BY <1>2, <1>7, <2>1 DEF Marked
<1>9. Waiting(rob, LQ, SQ)'
  <2>1. ASSUME NEW i \in InRob', NEW n \in DOMAIN rob'[i].lq_index, NEW p \in InRob',
               p = Source(i, trace[i].loads[n]), ~Forwards(SQ, p, trace[i].loads[n])
        PROVE  LQ[rob[i].lq_index[n]] = [instr |-> i, op |-> n, producer |-> p]
    <3>1. i \in InRob /\ n \in DOMAIN rob[i].lq_index
      BY <1>3, <1>6
    <3>2. p # tail
      <4>1. i \in Nat \ {0} /\ i < tail
        BY <1>1, <1>3, <3>1
      <4>2. p # NoStore
        BY <1>1, <1>3 DEF NoStore
      <4>3. p \in 1 .. i - 1
        BY <2>1, <4>1, <4>2, SourceIsOlder DEF StoresTo
      <4> QED
        BY <1>3, <4>1, <4>3
    <3>3. p \in InRob
      BY <1>3, <3>2
    <3> QED
      BY <1>1, <2>1, <3>1, <3>3 DEF Waiting
  <2>2. \A i \in InRob' : rob'[i].lq_index = rob[i].lq_index
    BY <1>1, <1>2, <1>3, <1>5 DEF SameMarks
  <2>3. \A p, i, n : Forwards(SQ, p, trace[i].loads[n])' <=> Forwards(SQ, p, trace[i].loads[n])
    BY <1>2 DEF Forwards, Used
  <2> QED
    BY <1>2, <1>7, <2>1, <2>2, <2>3 DEF Waiting
<1> QED
  BY <1>8, <1>9 DEF LoadsFound, Adding

(***************************************************************************)
(* The instruction that retires has no load that waits, and no load waits  *)
(* for it.                                                                 *)
(***************************************************************************)
LEMMA RetireRobFound ==
  ASSUME IInv, LoadsFound(Adding), retire_rob
  PROVE  LoadsFound(Adding)'
<1>0. PICK h : h = head
  OBVIOUS
<1>1. /\ TypeInv /\ rob \in [DOMAIN trace -> Entries] /\ SQ \in Stores
      /\ Marked(rob) /\ Waiting(rob, LQ, SQ)
      /\ InRob \subseteq DOMAIN trace
  BY InvParts, TraceFacts DEF LoadsFound, Adding
<1>2. /\ h < tail /\ rob[h].executed = "completed"
      /\ SQ' = [slot \in SQSlots |-> IF slot \in Elements(rob[h].sq_index) THEN NoEntry
                                     ELSE SQ[slot]]
      /\ rob' = [rob EXCEPT ![h] = Blank]
      /\ head' = h + 1
      /\ UNCHANGED <<trace, tail, LQ>>
  BY <1>0 DEF retire_rob
<1>3. \A slot \in Used(SQ) : SQ[slot].instr = h <=> slot \in Elements(rob[h].sq_index)
  BY <1>0, <1>2, HeadDone
<1>4. InRob' \subseteq InRob /\ h \notin InRob'
  BY <1>0, <1>1, <1>2 DEF InRob, TypeInv
<1>5. \A j \in InRob' : rob'[j] = rob[j]
  BY <1>1, <1>2, <1>4
<1>6. ASSUME NEW p \in InRob', NEW a, Forwards(SQ, p, a)
      PROVE  Forwards(SQ', p, a)
  <2>1. PICK q \in Used(SQ) : /\ SQ[q].address = a /\ SQ[q].instr = p /\ SQ[q].fetched
    BY <1>6 DEF Forwards
  <2>2. q \notin Elements(rob[h].sq_index) /\ q \in SQSlots
    BY <1>1, <1>3, <1>4, <2>1 DEF Used, Stores
  <2>3. SQ'[q] = SQ[q] /\ DOMAIN SQ' = SQSlots
    BY <1>2, <2>2
  <2>4. q \in Used(SQ')
    BY <2>1, <2>2, <2>3 DEF Used
  <2> QED
    BY <2>1, <2>3, <2>4 DEF Forwards
<1>7. \A i, n : Source(i, trace[i].loads[n])' = Source(i, trace[i].loads[n])
  BY <1>2 DEF Source, StoresTo
<1>8. Marked(rob)'
  BY <1>1, <1>2, <1>4, <1>5, <1>7 DEF Marked
<1>9. Waiting(rob, LQ, SQ)'
  <2>1. \A p, i, n : Forwards(SQ, p, trace[i].loads[n])' <=> Forwards(SQ', p, trace[i].loads[n])
    BY <1>2 DEF Forwards, Used
  <2> QED
    BY <1>1, <1>2, <1>4, <1>5, <1>6, <1>7, <2>1 DEF Waiting
<1> QED
  BY <1>8, <1>9 DEF LoadsFound, Adding

(***************************************************************************)
(* A load that the L1D answers waits for no store.                         *)
(***************************************************************************)
LEMMA FetchedFound ==
  ASSUME IInv, LoadsFound(Adding), NEW r \in L1D, Fetched(r)
  PROVE  LoadsFound(Adding)'
<1>1. /\ rob \in [DOMAIN trace -> Entries] /\ LQ \in Loads
      /\ RequestsNamed(LQ, SQ) /\ LoadsTracked(LQ, RTL0)
      /\ Marked(rob) /\ Waiting(rob, LQ, SQ)
      /\ InRob \subseteq DOMAIN trace /\ \A j \in InRob : j \in Nat \ {0}
  BY InvParts, TraceFacts DEF LoadsFound, Adding
<1>2. /\ rob' = [rob EXCEPT ![r.instr].num_mem_ops = @ - 1]
      /\ LQ' = [LQ EXCEPT ![r.slot] = NoEntry]
      /\ UNCHANGED <<trace, head, tail, SQ>>
  BY DEF Fetched, OpsDone
<1>3. LQ[r.slot].producer = NoStore
  <2>1. r.slot \in Requests(L1D, "LQ")
    BY <1>1 DEF RequestsNamed, Requests
  <2> QED
    BY <1>1, <2>1 DEF LoadsTracked
<1>4. SameMarks(rob, rob')
  BY <1>1, <1>2 DEF SameMarks, Entries
<1>5. Marked(rob')
  BY <1>1, <1>4 DEF Marked, SameMarks
<1>6. ASSUME NEW i \in InRob, NEW n \in DOMAIN rob[i].lq_index, NEW p \in InRob,
             LQ[rob[i].lq_index[n]] = [instr |-> i, op |-> n, producer |-> p]
      PROVE  LQ'[rob[i].lq_index[n]] = LQ[rob[i].lq_index[n]]
  <2>1. p # NoStore
    BY <1>1 DEF NoStore
  <2>2. rob[i].lq_index[n] # r.slot
    BY <1>3, <1>6, <2>1
  <2>3. rob[i].lq_index \in Indices(LQSlots)
    BY <1>1 DEF Entries
  <2>4. rob[i].lq_index[n] \in LQSlots
    BY <2>3 DEF Indices
  <2> QED
    BY <1>1, <1>2, <2>2, <2>4 DEF Loads
<1>7. Waiting(rob', LQ', SQ')
  BY <1>1, <1>2, <1>4, <1>6 DEF Waiting, SameMarks
<1> QED
  BY <1>2, <1>5, <1>7, FoundNext

(***************************************************************************)
(* Adding operands to the queues.                                          *)
(***************************************************************************)
LEMMA DoMemorySchedulingFound ==
  ASSUME IInv, LoadsFound(Adding), NEW i \in InRob, do_memory_scheduling(i)
  PROVE  LoadsFound(Adding)'
<1> DEFINE s == check_and_add_lsq(i)
<1>1. /\ TypeInv /\ LsqInv(Adding) /\ Progress(rob) /\ i \in DOMAIN trace
      /\ InRob \subseteq DOMAIN trace
  BY InvParts, TraceFacts DEF IInv
<1>2. /\ is_memory(i) /\ rob[i].scheduled = "inflight"
      /\ \/ rob' = s.rob
         \/ rob' = [s.rob EXCEPT ![i].scheduled = "completed", ![i].executed = "inflight"]
      /\ LQ' = s.LQ /\ SQ' = s.SQ
      /\ UNCHANGED <<trace, head, tail>>
  BY DEF do_memory_scheduling, CanAdd
<1>3. i \in Scheduled /\ rob[i].executed = "no"
  <2>1. ProgressOf(i, rob[i])
    BY <1>1 DEF Progress
  <2> QED
    BY <1>2, <2>1 DEF ProgressOf, Blank
<1>4. LsqInv(s) /\ LoadsFound(s)
  BY <1>1, <1>3, OperandsAdded
<1> HIDE DEF s
<1>5. s.rob \in [DOMAIN trace -> Entries]
  BY <1>4 DEF LsqInv, AddingType
<1>6. SameMarks(s.rob, rob')
  BY <1>2, <1>5 DEF SameMarks, Entries
<1>7. Marked(s.rob) /\ Waiting(s.rob, LQ', SQ')
  BY <1>2, <1>4 DEF LoadsFound
<1>8. Marked(rob')
  BY <1>1, <1>6, <1>7 DEF Marked, SameMarks
<1>9. Waiting(rob', LQ', SQ')
  BY <1>1, <1>6, <1>7 DEF Waiting, SameMarks
<1> QED
  BY <1>2, <1>8, <1>9, FoundNext

(***************************************************************************)
(* If what instructions load of what a store has written they load from    *)
(* that store alone, a store that is executed finds loads that wait for it *)
(* and for nothing else.                                                   *)
(***************************************************************************)
LEMMA StoreFindsItsLoads ==
  ASSUME IInv, LoadsFound(Adding), OneProducer, NEW q \in Used(SQ), ~SQ[q].fetched,
         NEW d \in rob[SQ[q].instr].memory_instrs_depend_on_me,
         NEW m \in DOMAIN rob[d].lq_index, trace[d].loads[m] = SQ[q].address
  PROVE  LQ[rob[d].lq_index[m]] = [instr |-> d, op |-> m, producer |-> SQ[q].instr]
<1> DEFINE i == SQ[q].instr
           a == SQ[q].address
<1>1. /\ TypeInv /\ rob \in [DOMAIN trace -> Entries] /\ Progress(rob) /\ StoresHeld(rob, SQ)
      /\ Marked(rob) /\ Waiting(rob, LQ, SQ)
      /\ InRob \subseteq DOMAIN trace /\ Scheduled \subseteq InRob
      /\ \A j \in InRob : j \in Nat \ {0}
  BY InvParts, TraceFacts DEF LoadsFound, Adding
<1>2. /\ i \in InRob /\ i \in DOMAIN trace /\ i \in Nat \ {0}
      /\ q \in Elements(rob[i].sq_index)
  BY <1>1 DEF StoresHeld
<1>3. PICK k \in DOMAIN rob[i].sq_index : rob[i].sq_index[k] = q
  BY <1>2 DEF Elements
<1>4. a = trace[i].stores[k] /\ k \in DOMAIN trace[i].stores
  <2>1. SQ[q].address = trace[i].stores[k]
    BY <1>1, <1>2, <1>3 DEF StoresHeld
  <2>2. DOMAIN rob[i].sq_index \subseteq DOMAIN trace[i].stores
    BY <1>1, <1>2 DEF Progress, ProgressOf
  <2> QED
    BY <2>1, <2>2
<1>5. d \in InRob /\ m \in DOMAIN trace[d].loads
  <2>1. d \in i + 1 .. next_schedule - 1
    BY <1>1, <1>2 DEF Progress, ProgressOf
  <2>2. d \in InRob
    BY <1>1, <1>2, <2>1 DEF InRob, TypeInv
  <2>3. DOMAIN rob[d].lq_index \subseteq DOMAIN trace[d].loads
    BY <1>1, <2>2 DEF Progress, ProgressOf
  <2> QED
    BY <2>2, <2>3
<1> HIDE DEF i, a
<1>6. Source(d, a) = i
  <2>1. PICK n \in DOMAIN trace[d].loads : Source(d, trace[d].loads[n]) = i
    BY <1>1, <1>2 DEF Marked, i
  <2>2. trace[d].loads[m] \in Elements(trace[i].stores)
    BY <1>4 DEF Elements, a
  <2>3. Source(d, trace[d].loads[n]) # NoStore
    BY <1>2, <2>1 DEF NoStore
  <2>4. d \in DOMAIN trace
    BY <1>1, <1>5
  <2> QED
    BY <1>5, <2>1, <2>2, <2>3, <2>4 DEF OneProducer, a
<1>7. ~Forwards(SQ, i, a)
  <2>1. ASSUME NEW x \in Used(SQ), SQ[x].address = a, SQ[x].instr = i
        PROVE  x = q
    <3>1. x \in Elements(rob[i].sq_index)
      BY <1>1, <2>1 DEF StoresHeld
    <3>2. PICK l \in DOMAIN rob[i].sq_index : rob[i].sq_index[l] = x
      BY <3>1 DEF Elements
    <3>3. trace[i].stores[l] = a
      BY <1>1, <1>2, <2>1, <3>2 DEF StoresHeld
    <3>4. l \in DOMAIN trace[i].stores
      BY <1>1, <1>2, <3>2 DEF Progress, ProgressOf
    <3>5. IsInjective(trace[i].stores)
      BY <1>1, <1>2, TraceFacts
    <3>6. l = k
      BY <1>4, <3>3, <3>4, <3>5 DEF IsInjective
    <3> QED
      BY <1>3, <3>2, <3>6
  <2> QED
    BY <2>1 DEF Forwards
<1>8. trace[d].loads[m] = a
  BY DEF a
<1>9. LQ[rob[d].lq_index[m]] = [instr |-> d, op |-> m, producer |-> i]
  BY <1>1, <1>2, <1>5, <1>6, <1>7, <1>8 DEF Waiting
<1> QED
  BY <1>9 DEF i

(***************************************************************************)
(* The store that is executed next is not, and is in the store queue.      *)
(***************************************************************************)
LEMMA HeadOfRts1 ==
  ASSUME IInv, RTS1 # << >>
  PROVE  Head(RTS1) \in Used(SQ) /\ ~SQ[Head(RTS1)].fetched
<1>1. StoresTracked(SQ, RTS0) /\ RTS1 \in Seq(SQSlots)
  BY InvParts DEF TypeInv
<1>2. Head(RTS1) \in Elements(RTS1)
  <2>1. IsInjective(RTS1)
    BY <1>1 DEF StoresTracked
  <2> QED
    BY <1>1, <2>1, TakeHead
<1> QED
  BY <1>1, <1>2 DEF StoresTracked

(***************************************************************************)
(* A store that is executed releases the loads that wait for it and leaves *)
(* the others.                                                             *)
(***************************************************************************)
LEMMA ExecuteStoreFound ==
  ASSUME IInv, LoadsFound(Adding), OneProducer, execute_store
  PROVE  LoadsFound(Adding)'
<1>0. PICK slot, i, a, forwarded :
        /\ slot = Head(RTS1) /\ i = SQ[slot].instr /\ a = SQ[slot].address
        /\ forwarded = Dependents(i, a)
  OBVIOUS
<1> DEFINE ops(d) == (IF d = i THEN 1 ELSE 0)
                       + Cardinality({x \in forwarded : LQ[x].instr = d})
<1>1. /\ rob \in [DOMAIN trace -> Entries] /\ DOMAIN rob = DOMAIN trace
      /\ LQ \in Loads /\ SQ \in Stores
      /\ Marked(rob) /\ Waiting(rob, LQ, SQ)
      /\ InRob \subseteq DOMAIN trace
  BY InvParts, TraceFacts DEF LoadsFound, Adding
<1>2. /\ RTS1 # << >>
      /\ SQ' = [SQ EXCEPT ![slot].fetched = TRUE]
      /\ rob' = [d \in DOMAIN trace |-> OpsDone(rob, d, ops(d))[d]]
      /\ LQ' = [x \in LQSlots |-> IF x \in forwarded THEN NoEntry ELSE LQ[x]]
      /\ UNCHANGED <<trace, head, tail>>
  BY <1>0, <1>1 DEF execute_store
<1>3. slot \in Used(SQ) /\ ~SQ[slot].fetched
  BY <1>0, <1>2, HeadOfRts1
<1> HIDE DEF ops
<1>4. SameMarks(rob, rob')
  <2>1. ASSUME NEW j \in DOMAIN trace
        PROVE  /\ rob'[j].lq_index = rob[j].lq_index
               /\ rob'[j].memory_instrs_depend_on_me = rob[j].memory_instrs_depend_on_me
    <3>1. rob'[j] = [rob[j] EXCEPT !.num_mem_ops = @ - ops(j)] /\ rob[j] \in Entries
      BY <1>1, <1>2 DEF OpsDone
    <3> QED
      BY <3>1 DEF Entries
  <2> QED
    BY <2>1 DEF SameMarks
<1>5. /\ SQ'[slot].fetched = TRUE /\ SQ'[slot].instr = i /\ SQ'[slot].address = a
      /\ slot \in Used(SQ')
      /\ \A q \in Used(SQ) \ {slot} : SQ'[q] = SQ[q] /\ q \in Used(SQ')
  <2> DEFINE e == [SQ[slot] EXCEPT !.fetched = TRUE]
  <2>1. /\ SQ[slot] \in [instr : Nat, address : AllAddresses, fetched : BOOLEAN]
        /\ slot \in SQSlots /\ DOMAIN SQ = SQSlots
    BY <1>1, <1>3 DEF Used, Stores
  <2>2. /\ e.fetched = TRUE /\ e.instr = i /\ e.address = a
        /\ DOMAIN e = {"instr", "address", "fetched"}
    BY <1>0, <2>1
  <2>3. e # NoEntry
    <3>1. DOMAIN NoEntry = {"instr"} /\ "fetched" # "instr"
      BY DEF NoEntry
    <3>2. "fetched" \in DOMAIN e /\ "fetched" \notin DOMAIN NoEntry
      BY <2>2, <3>1
    <3> QED
      BY <3>2
  <2>4. SQ' = [SQ EXCEPT ![slot] = e]
    BY <1>1, <1>2, <2>1
  <2> HIDE DEF e
  <2>5. /\ SQ'[slot] = e /\ DOMAIN SQ' = SQSlots
        /\ \A q \in SQSlots \ {slot} : SQ'[q] = SQ[q]
    BY <2>1, <2>4
  <2> QED
    BY <2>1, <2>2, <2>3, <2>5 DEF Used
<1>6. ASSUME NEW p, NEW b, Forwards(SQ, p, b)
      PROVE  Forwards(SQ', p, b)
  <2>1. PICK q \in Used(SQ) : SQ[q].address = b /\ SQ[q].instr = p /\ SQ[q].fetched
    BY <1>6 DEF Forwards
  <2> QED
    BY <1>3, <1>5, <2>1 DEF Forwards
<1>7. Forwards(SQ', i, a)
  BY <1>5 DEF Forwards
<1>8. ASSUME NEW j \in InRob, NEW n \in DOMAIN rob[j].lq_index, NEW p \in InRob,
             p = Source(j, trace[j].loads[n]), ~Forwards(SQ', p, trace[j].loads[n])
      PROVE  LQ'[rob[j].lq_index[n]] = [instr |-> j, op |-> n, producer |-> p]
  <2> DEFINE x == rob[j].lq_index[n]
             load == [instr |-> j, op |-> n, producer |-> p]
  <2>1. LQ[x] = load
    <3>1. ~Forwards(SQ, p, trace[j].loads[n])
      BY <1>6, <1>8
    <3> QED
      BY <1>1, <1>8, <3>1 DEF Waiting
  <2>2. x \in LQSlots
    <3>1. rob[j].lq_index \in Indices(LQSlots)
      BY <1>1 DEF Entries
    <3> QED
      BY <3>1 DEF Indices
  <2>3. x \notin forwarded
    <3> SUFFICES ASSUME x \in forwarded
                 PROVE  FALSE
      OBVIOUS
    <3>0. PICK d \in rob[i].memory_instrs_depend_on_me :
            \E m \in DOMAIN rob[d].lq_index : trace[d].loads[m] = a /\ x = rob[d].lq_index[m]
      BY <1>0 DEF Dependents
    <3>1. PICK m \in DOMAIN rob[d].lq_index : trace[d].loads[m] = a /\ x = rob[d].lq_index[m]
      BY <3>0
    <3>2. LQ[x] = [instr |-> d, op |-> m, producer |-> i]
      BY <1>0, <1>3, <3>1, StoreFindsItsLoads
    <3> HIDE DEF x
    <3>3. d = j /\ m = n /\ i = p
      BY <2>1, <3>2
    <3> QED
      BY <1>7, <1>8, <3>1, <3>3
  <2> HIDE DEF x
  <2> QED
    BY <1>2, <2>1, <2>2, <2>3 DEF x
<1>9. Marked(rob')
  BY <1>1, <1>4 DEF Marked, SameMarks
<1>10. Waiting(rob', LQ', SQ')
  BY <1>1, <1>4, <1>8 DEF Waiting, SameMarks
<1> QED
  BY <1>2, <1>9, <1>10, FoundNext

(***************************************************************************)
(* Every step keeps the trace and, with OneProducer, what stores find.     *)
(***************************************************************************)
LEMMA StepFound ==
  ASSUME IInv, [Next]_vars
  PROVE  /\ trace' = trace
         /\ OneProducer /\ LoadsFound(Adding) => LoadsFound(Adding)'
<1>1. trace' = trace
  BY DEF Next, vars, add_to_rob, do_scheduling, do_execution, complete_execution,
         do_memory_scheduling, TranslateStore, TranslateLoad, Translated, execute_store,
         execute_load, Fetched, retire_rob, Written
<1> SUFFICES ASSUME OneProducer, LoadsFound(Adding)
             PROVE  LoadsFound(Adding)'
  BY <1>1
<1>2. CASE add_to_rob
  BY <1>2, AddToRobFound
<1>3. CASE do_scheduling \/ \E i \in InRob : do_execution(i) \/ complete_execution(i)
  BY <1>3, RegisterStepFound
<1>4. ASSUME NEW i \in InRob, do_memory_scheduling(i)
      PROVE  LoadsFound(Adding)'
  BY <1>4, DoMemorySchedulingFound
<1>5. ASSUME \/ TranslateStore \/ TranslateLoad \/ execute_load
             \/ \E request \in DTLB : Translated(request)
             \/ \E a \in WQ : Written(a)
             \/ UNCHANGED vars
      PROVE  LoadsFound(Adding)'
  <2>1. UNCHANGED <<trace, head, tail, LQ, SQ, rob>>
    BY <1>5 DEF TranslateStore, TranslateLoad, execute_load, Translated, Written, vars, queues
  <2>2. SameMarks(rob, rob')
    BY <2>1 DEF SameMarks
  <2> QED
    BY <2>1, <2>2, FoundKept
<1>6. CASE execute_store
  BY <1>6, ExecuteStoreFound
<1>7. ASSUME NEW request \in L1D, Fetched(request)
      PROVE  LoadsFound(Adding)'
  BY <1>7, FetchedFound
<1>8. CASE retire_rob
  BY <1>8, RetireRobFound
<1> QED
  BY <1>2, <1>3, <1>4, <1>5, <1>6, <1>7, <1>8 DEF Next

(***************************************************************************)
(* execute_store releases only loads that wait for the store, and its      *)
(* assert holds, in every trace in which no instruction reads what one     *)
(* store has written in part from that store and in part from a younger    *)
(* one.                                                                    *)
(***************************************************************************)
THEOREM ReorderBufferReleases == Spec => [](OneProducer => ForwardsToItsLoads)
<1> DEFINE Found == OneProducer => LoadsFound(Adding)
<1>1. Init => Found
  <2> SUFFICES ASSUME Init
               PROVE  LoadsFound(Adding)
    OBVIOUS
  <2>1. InRob = {}
    BY DEF Init, InRob
  <2> QED
    BY <2>1 DEF LoadsFound, Marked, Waiting
<1>2. IInv /\ Found /\ [Next]_vars => Found'
  <2> SUFFICES ASSUME IInv, Found, [Next]_vars, OneProducer'
               PROVE  LoadsFound(Adding)'
    OBVIOUS
  <2>1. trace' = trace
    BY StepFound
  <2>2. \A i, n : Source(i, trace[i].loads[n])' = Source(i, trace[i].loads[n])
    BY <2>1 DEF Source, StoresTo
  <2>3. OneProducer
    BY <2>1, <2>2 DEF OneProducer
  <2> QED
    BY <2>3, StepFound
<1>3. IInv /\ Found => (OneProducer => ForwardsToItsLoads)
  <2> SUFFICES ASSUME IInv, LoadsFound(Adding), OneProducer, RTS1 # << >>
               PROVE  OwnDependents(Head(RTS1))
    BY DEF ForwardsToItsLoads
  <2> DEFINE q == Head(RTS1)
  <2>1. q \in Used(SQ) /\ ~SQ[q].fetched
    BY HeadOfRts1
  <2> HIDE DEF q
  <2>2. ASSUME NEW x \in Dependents(SQ[q].instr, SQ[q].address)
        PROVE  LQ[x] # NoEntry /\ LQ[x].producer = SQ[q].instr
    <3>0. PICK d \in rob[SQ[q].instr].memory_instrs_depend_on_me :
            \E m \in DOMAIN rob[d].lq_index :
              trace[d].loads[m] = SQ[q].address /\ x = rob[d].lq_index[m]
      BY DEF Dependents
    <3>1. PICK m \in DOMAIN rob[d].lq_index :
            trace[d].loads[m] = SQ[q].address /\ x = rob[d].lq_index[m]
      BY <3>0
    <3>2. LQ[x] = [instr |-> d, op |-> m, producer |-> SQ[q].instr]
      BY <2>1, <3>1, StoreFindsItsLoads
    <3>3. [instr |-> d, op |-> m, producer |-> SQ[q].instr] # NoEntry
      BY DEF NoEntry
    <3> QED
      BY <3>2, <3>3
  <2> QED
    BY <2>2 DEF OwnDependents, q
<1> HIDE DEF Found
<1>4. Spec => []Found
  BY <1>1, <1>2, ReorderBufferInvariant, PTL DEF Spec
<1> QED
  BY <1>3, <1>4, ReorderBufferInvariant, PTL

=============================================================================
