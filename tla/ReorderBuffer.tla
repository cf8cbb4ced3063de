--------------------------- MODULE ReorderBuffer ---------------------------
(***************************************************************************)
(* O3_CPU (ooo_cpu.cc): the reorder buffer, register dependencies, the     *)
(* ready-to-execute lists, and the load and store queue with store-to-load *)
(* forwarding, between a trace and the DTLB and L1D.                       *)
(*                                                                         *)
(* An instruction is named by its place in the trace.                      *)
(* Latencies and widths are left out: whatever is due may happen at any    *)
(* time.  What comes first in a list or in program order stays first.      *)
(***************************************************************************)
EXTENDS Integers, Sequences, FiniteSets, Functions

CONSTANTS
  Traces,                  \* the traces, sequences of instructions
  ROB_SIZE, LQ_SIZE, SQ_SIZE,
  WQ_SIZE                  \* of the L1D

ASSUME SizeAssumption ==
  /\ {ROB_SIZE, LQ_SIZE, SQ_SIZE} \subseteq Nat \ {0}
  /\ WQ_SIZE \in Nat

Elements(seq) == {seq[n] : n \in DOMAIN seq}

\* A trace lists an address of an instruction once.  Both queues hold the stores of
\* any one instruction.
ASSUME TraceAssumption ==
  \A t \in Traces :
    /\ t \in Seq(Elements(t))
    /\ \A i \in DOMAIN t :
         /\ t[i].mispredicted \in BOOLEAN
         /\ IsFiniteSet(t[i].reads)
         /\ \A operands \in {t[i].loads, t[i].stores} :
              operands \in Seq(Elements(operands)) /\ IsInjective(operands)
         /\ Len(t[i].stores) <= SQ_SIZE /\ Len(t[i].stores) <= WQ_SIZE

VARIABLES
  trace,
  head, tail, next_schedule,   \* of the ROB: the oldest instruction in it, the next
                               \* one to add, the next one to schedule
  rob,                         \* instruction -> its ROB entry
  fetch_stall,                 \* a mispredicted branch is not executed yet
  STA,                         \* instructions with stores to be added to the SQ
  RTE0, RTE1,                  \* instructions ready to execute
  LQ, SQ, SQ_tail,             \* slot -> load or store
  RTL0, RTL1, RTS0, RTS1,      \* slots ready to be translated, ready for the L1D
  DTLB, L1D,                   \* the requests they have not answered
  WQ,                          \* addresses in the write queue of the L1D
  inflight_reg_executions, inflight_mem_executions,
  seen                         \* load of an instruction -> the store it has read

queues == <<LQ, SQ, SQ_tail, RTL0, RTL1, RTS0, RTS1>>
lists == <<STA, RTE0, RTE1>>
counters == <<inflight_reg_executions, inflight_mem_executions>>
vars == <<trace, head, tail, next_schedule, rob, fetch_stall, lists, queues, DTLB, L1D,
          WQ, counters, seen>>

Blank ==
  [scheduled |-> "no", executed |-> "no",
   num_reg_dependent |-> 0, registers_depend_on_me |-> {},
   num_mem_ops |-> 0, memory_instrs_depend_on_me |-> {},
   lq_index |-> << >>, sq_index |-> << >>]   \* only for the operands that are added

NoEntry == [instr |-> 0]
NoStore == 0                       \* no producer; memory as the trace finds it
LQSlots == 0 .. LQ_SIZE - 1
SQSlots == 0 .. SQ_SIZE - 1

InRob == head .. tail - 1
rob_index(i) == (i - 1) % ROB_SIZE
is_memory(i) == trace[i].loads # << >> \/ trace[i].stores # << >>
Youngest(instrs) == CHOOSE i \in instrs : \A j \in instrs : j <= i
StoresTo(a, instrs) == {i \in instrs : a \in Elements(trace[i].stores)}
Used(queue) == {slot \in DOMAIN queue : queue[slot] # NoEntry}

Init ==
  /\ trace \in Traces
  /\ head = 1 /\ tail = 1 /\ next_schedule = 1
  /\ rob = [i \in DOMAIN trace |-> Blank]
  /\ fetch_stall = FALSE
  /\ STA = << >> /\ RTE0 = << >> /\ RTE1 = << >>
  /\ LQ = [slot \in LQSlots |-> NoEntry]
  /\ SQ = [slot \in SQSlots |-> NoEntry] /\ SQ_tail = 0
  /\ RTL0 = << >> /\ RTL1 = << >> /\ RTS0 = << >> /\ RTS1 = << >>
  /\ DTLB = {} /\ L1D = {} /\ WQ = {}
  /\ inflight_reg_executions = 0 /\ inflight_mem_executions = 0
  /\ seen = {}
-----------------------------------------------------------------------------
\* From the trace into the reorder buffer, and register dependencies.

\* handle_branch reads an instruction: every store of it is noted in the STA, and a
\* mispredicted branch stops it reading on.
add_to_rob ==
  /\ tail \in DOMAIN trace /\ tail - head < ROB_SIZE
  /\ ~fetch_stall
  /\ fetch_stall' = trace[tail].mispredicted
  /\ rob' = [rob EXCEPT ![tail].num_mem_ops =
               Len(trace[tail].loads) + Len(trace[tail].stores)]
  /\ STA' = STA \o [n \in DOMAIN trace[tail].stores |-> tail]
  /\ tail' = tail + 1
  /\ UNCHANGED <<trace, head, next_schedule, RTE0, RTE1, queues, DTLB, L1D, WQ,
                 counters, seen>>

\* Mutant: also of instructions that are executed, which wake nobody.
ProducersExecuted(i) ==
  LET writers(r) == {p \in head .. i - 1 : r \in trace[p].writes}
  IN  {<<Youngest(writers(r)), r>> : r \in {s \in trace[i].reads : writers(s) # {}}}

\* reg_dependency: for each register i reads, the youngest older instruction that
\* writes it, among those that are not executed.
Producers(i) ==
  LET writers(r) == {p \in head .. i - 1 : /\ r \in trace[p].writes
                                           /\ rob[p].executed # "completed"}
  IN  {<<Youngest(writers(r)), r>> : r \in {s \in trace[i].reads : writers(s) # {}}}

\* Instructions are scheduled in program order, once they are fetched; a memory
\* instruction waits for its place in the queues, another one is ready to execute
\* unless it depends on a register.
do_scheduling ==
  LET i == next_schedule
      producers == Producers(i)
  IN  /\ i < tail
      /\ next_schedule' = i + 1
      /\ rob' = [p \in DOMAIN rob |->
           IF p = i
           THEN [rob[i] EXCEPT !.scheduled = IF is_memory(i) THEN "inflight" ELSE "completed",
                               !.num_reg_dependent = Cardinality(producers)]
           ELSE [rob[p] EXCEPT !.registers_depend_on_me =
                   @ \cup {<<i, q[2]>> : q \in {w \in producers : w[1] = p}}]]
      /\ RTE1' = IF ~is_memory(i) /\ producers = {} THEN Append(RTE1, i) ELSE RTE1
      /\ UNCHANGED <<trace, head, tail, fetch_stall, STA, RTE0, queues, DTLB, L1D, WQ,
                     counters, seen>>

\* execute_instruction takes what is ready from RTE0, then from RTE1.
do_execution(i) ==
  /\ \/ RTE0 # << >> /\ i = Head(RTE0) /\ RTE0' = Tail(RTE0) /\ UNCHANGED RTE1
     \/ RTE1 # << >> /\ i = Head(RTE1) /\ RTE1' = Tail(RTE1) /\ UNCHANGED RTE0
  /\ rob' = [rob EXCEPT ![i].executed = "inflight"]
  /\ inflight_reg_executions' = inflight_reg_executions + 1
  /\ UNCHANGED <<trace, head, tail, next_schedule, fetch_stall, STA, queues, DTLB, L1D,
                 WQ, inflight_mem_executions, seen>>

\* complete_execution, which update_rob calls only while a counter is not 0.  The
\* instructions that read a register of i wait for it no longer; those that are ready
\* now are woken in the order of their entries.
complete_execution(i) ==
  LET waits(d) == Cardinality({q \in rob[i].registers_depend_on_me : q[1] = d})
      ready == {d \in DOMAIN rob : /\ waits(d) > 0 /\ ~is_memory(d)
                                   /\ rob[d].num_reg_dependent = waits(d)}
  IN  /\ inflight_reg_executions > 0 \/ inflight_mem_executions > 0
      /\ i \in InRob
      /\ rob[i].executed = "inflight"
      /\ is_memory(i) => rob[i].num_mem_ops = 0
      /\ rob' = [d \in DOMAIN rob |->
           IF d = i THEN [rob[i] EXCEPT !.executed = "completed"]
           ELSE [rob[d] EXCEPT !.num_reg_dependent = @ - waits(d)]]
      /\ \E order \in [1 .. Cardinality(ready) -> ready] :
           /\ \A m, n \in DOMAIN order : m < n => rob_index(order[m]) < rob_index(order[n])
           /\ RTE0' = RTE0 \o order
      /\ IF is_memory(i)
         THEN /\ inflight_mem_executions' = inflight_mem_executions - 1
              /\ UNCHANGED inflight_reg_executions
         ELSE /\ inflight_reg_executions' = inflight_reg_executions - 1
              /\ UNCHANGED inflight_mem_executions
      /\ fetch_stall' = (fetch_stall /\ ~trace[i].mispredicted)
      /\ UNCHANGED <<trace, head, tail, next_schedule, STA, RTE1, queues, DTLB, L1D, WQ,
                     seen>>
-----------------------------------------------------------------------------
\* Adding an instruction to the load and store queue.

\* What adding changes, as one record.
Adding == [rob |-> rob, LQ |-> LQ, SQ |-> SQ, SQ_tail |-> SQ_tail, STA |-> STA,
           RTL0 |-> RTL0, RTS0 |-> RTS0, done |-> inflight_mem_executions, seen |-> seen]

\* n memory operations of instruction i are done: of the entries, and as the number
\* by which inflight_mem_executions grows.
OpsDone(entries, i, n) == [entries EXCEPT ![i].num_mem_ops = @ - n]
AllDone(entries, i, n) == IF n > 0 /\ entries[i].num_mem_ops = n THEN 1 ELSE 0

\* Mutant: the load is forwarded by the oldest store.
Oldest(instrs) == CHOOSE i \in instrs : \A j \in instrs : i <= j
mem_RAW_dependencyOldest(i, a) ==
  LET stores == StoresTo(a, head .. i - 1)
  IN  IF stores = {} THEN NoStore ELSE Oldest(stores)

\* The youngest older store in the reorder buffer to the address, which may not be in
\* the store queue yet.
mem_RAW_dependency(i, a) ==
  LET stores == StoresTo(a, head .. i - 1)
  IN  IF stores = {} THEN NoStore ELSE Youngest(stores)

\* Load n of instruction i takes the first empty slot.  It waits for its producer, is
\* forwarded at once by a producer that is executed, or is ready to be translated.
add_load_queue(s, i, n) ==
  LET a == trace[i].loads[n]
      slot == CHOOSE x \in LQSlots \ Used(s.LQ) : \A y \in LQSlots \ Used(s.LQ) : x <= y
      producer == mem_RAW_dependency(i, a)
      forwarded == \E q \in Used(s.SQ) : /\ s.SQ[q].address = a
                                         /\ s.SQ[q].instr = producer
                                         /\ s.SQ[q].fetched
      added == [s.rob EXCEPT ![i].lq_index = [m \in DOMAIN @ \cup {n} |->
                                                IF m = n THEN slot ELSE @[m]]]
      marked == IF producer = NoStore THEN added
                ELSE [added EXCEPT ![producer].memory_instrs_depend_on_me = @ \cup {i}]
  IN  IF forwarded
      THEN [s EXCEPT !.rob = OpsDone(marked, i, 1),
                     !.done = @ + AllDone(marked, i, 1),
                     !.seen = @ \cup {<<i, n, producer>>}]
      ELSE [s EXCEPT !.rob = marked,
                     !.LQ[slot] = [instr |-> i, op |-> n, producer |-> producer],
                     !.RTL0 = IF producer = NoStore THEN Append(@, slot) ELSE @]

\* Store n of instruction i takes the slot at the tail, in the order of the STA.
add_store_queue(s, i, n) ==
  [s EXCEPT !.rob[i].sq_index = [m \in DOMAIN @ \cup {n} |-> IF m = n THEN s.SQ_tail ELSE @[m]],
            !.SQ[s.SQ_tail] = [instr |-> i, address |-> trace[i].stores[n],
                               fetched |-> FALSE],
            !.SQ_tail = IF @ + 1 = SQ_SIZE THEN 0 ELSE @ + 1,
            !.STA = Tail(@),
            !.RTS0 = Append(@, s.SQ_tail)]

LoadMissing(s, i, n) ==
  n \notin DOMAIN s.rob[i].lq_index /\ Cardinality(Used(s.LQ)) < LQ_SIZE

StoreMissing(s, i, n) ==
  /\ n \notin DOMAIN s.rob[i].sq_index
  /\ Cardinality(Used(s.SQ)) < SQ_SIZE
  /\ s.STA # << >> /\ Head(s.STA) = i

\* Operand n of instruction i, of its loads and then its stores, is added if it finds room.
AddOperand(s, i, n) ==
  LET loads == Len(trace[i].loads)
  IN  IF n <= loads
      THEN IF LoadMissing(s, i, n) THEN add_load_queue(s, i, n) ELSE s
      ELSE IF StoreMissing(s, i, n - loads) THEN add_store_queue(s, i, n - loads) ELSE s

check_and_add_lsq(i) ==
  LET operands == Len(trace[i].loads) + Len(trace[i].stores)
      added[n \in 0 .. operands] ==
        IF n = 0 THEN Adding ELSE AddOperand(added[n - 1], i, n)
  IN  added[operands]

\* schedule_memory_instruction tries every instruction whose registers are ready, in
\* program order; this is one that can add something.
CanAdd(i) ==
  /\ is_memory(i)
  /\ rob[i].scheduled = "inflight" /\ rob[i].num_reg_dependent = 0
  /\ \/ \E n \in DOMAIN trace[i].loads : LoadMissing(Adding, i, n)
     \/ \E n \in DOMAIN trace[i].stores : StoreMissing(Adding, i, n)

do_memory_scheduling(i) ==
  LET s == check_and_add_lsq(i)
      all == /\ DOMAIN s.rob[i].lq_index = DOMAIN trace[i].loads
             /\ DOMAIN s.rob[i].sq_index = DOMAIN trace[i].stores
  IN  /\ CanAdd(i) /\ \A j \in head .. i - 1 : ~CanAdd(j)
      /\ rob' = IF all THEN [s.rob EXCEPT ![i].scheduled = "completed",
                                          ![i].executed = "inflight"]
                ELSE s.rob
      /\ LQ' = s.LQ /\ SQ' = s.SQ /\ SQ_tail' = s.SQ_tail
      /\ STA' = s.STA /\ RTL0' = s.RTL0 /\ RTS0' = s.RTS0
      /\ inflight_mem_executions' = s.done
      /\ seen' = s.seen
      /\ UNCHANGED <<trace, head, tail, next_schedule, fetch_stall, RTE0, RTE1, RTL1,
                     RTS1, DTLB, L1D, WQ, inflight_reg_executions>>
-----------------------------------------------------------------------------
\* operate_lsq: stores and loads are translated and executed.

Request(queue, slot) ==
  [queue |-> queue, slot |-> slot,
   instr |-> IF queue = "SQ" THEN SQ[slot].instr ELSE LQ[slot].instr]

\* DTLB.add_rq for the oldest slot of RTS0 or of RTL0, if it has room.
TranslateStore ==
  /\ RTS0 # << >>
  /\ RTS0' = Tail(RTS0)
  /\ DTLB' = DTLB \cup {Request("SQ", Head(RTS0))}
  /\ UNCHANGED <<trace, head, tail, next_schedule, rob, fetch_stall, lists, LQ, SQ, SQ_tail,
                 RTL0, RTL1, RTS1, L1D, WQ, counters, seen>>

TranslateLoad ==
  /\ RTL0 # << >>
  /\ RTL0' = Tail(RTL0)
  /\ DTLB' = DTLB \cup {Request("LQ", Head(RTL0))}
  /\ UNCHANGED <<trace, head, tail, next_schedule, rob, fetch_stall, lists, LQ, SQ, SQ_tail,
                 RTL1, RTS0, RTS1, L1D, WQ, counters, seen>>

\* complete_data_fetch and handle_merged_translation: the DTLB has answered.
Translated(request) ==
  /\ request \in DTLB
  /\ DTLB' = DTLB \ {request}
  /\ IF request.queue = "SQ"
     THEN RTS1' = Append(RTS1, request.slot) /\ UNCHANGED RTL1
     ELSE RTL1' = Append(RTL1, request.slot) /\ UNCHANGED RTS1
  /\ UNCHANGED <<trace, head, tail, next_schedule, rob, fetch_stall, lists, LQ, SQ, SQ_tail,
                 RTL0, RTS0, L1D, WQ, counters, seen>>

\* Mutant: the address is not compared.
DependentsAny(i, a) ==
  UNION {{rob[d].lq_index[n] : n \in DOMAIN rob[d].lq_index} :
         d \in rob[i].memory_instrs_depend_on_me}

\* The slots of the added loads of the address, of instructions that depend on i.
Dependents(i, a) ==
  UNION {{rob[d].lq_index[n] : n \in {m \in DOMAIN rob[d].lq_index : trace[d].loads[m] = a}} :
         d \in rob[i].memory_instrs_depend_on_me}

\* The slots of which a store releases the loads are of loads that wait for it.
OwnDependents(q) ==
  \A x \in Dependents(SQ[q].instr, SQ[q].address) :
    LQ[x] # NoEntry /\ LQ[x].producer = SQ[q].instr

\* A store is executed and forwards to the loads that depend on it.  An assert stops the
\* program if one of them does not wait for this store.
execute_store ==
  LET slot == Head(RTS1)
      i == SQ[slot].instr
      forwarded == Dependents(i, SQ[slot].address)
      ops(d) == (IF d = i THEN 1 ELSE 0) + Cardinality({x \in forwarded : LQ[x].instr = d})
      finished == {d \in DOMAIN rob : AllDone(rob, d, ops(d)) = 1}
  IN  /\ RTS1 # << >>
      /\ OwnDependents(slot)
      /\ RTS1' = Tail(RTS1)
      /\ SQ' = [SQ EXCEPT ![slot].fetched = TRUE]
      /\ rob' = [d \in DOMAIN rob |-> OpsDone(rob, d, ops(d))[d]]
      /\ LQ' = [x \in LQSlots |-> IF x \in forwarded THEN NoEntry ELSE LQ[x]]
      /\ inflight_mem_executions' = inflight_mem_executions + Cardinality(finished)
      /\ seen' = seen \cup {<<LQ[x].instr, LQ[x].op, i>> : x \in forwarded}
      /\ UNCHANGED <<trace, head, tail, next_schedule, fetch_stall, lists, SQ_tail, RTL0,
                     RTL1, RTS0, DTLB, L1D, WQ, inflight_reg_executions>>

\* L1D.add_rq accepts the oldest slot of RTL1.
execute_load ==
  /\ RTL1 # << >>
  /\ RTL1' = Tail(RTL1)
  /\ L1D' = L1D \cup {Request("LQ", Head(RTL1))}
  /\ UNCHANGED <<trace, head, tail, next_schedule, rob, fetch_stall, lists, LQ, SQ, SQ_tail,
                 RTL0, RTS0, RTS1, DTLB, WQ, counters, seen>>

\* The store that has written the address last, as far as the L1D knows.
InMemory(a) ==
  LET retired == StoresTo(a, 1 .. head - 1)
  IN  IF retired = {} THEN NoStore ELSE Youngest(retired)

\* Mutant: release_load_queue is not called.
FetchedKept(request) ==
  LET i == request.instr
      n == LQ[request.slot].op
  IN  /\ request \in L1D
      /\ L1D' = L1D \ {request}
      /\ rob' = OpsDone(rob, i, 1)
      /\ inflight_mem_executions' = inflight_mem_executions + AllDone(rob, i, 1)
      /\ LQ' = LQ
      /\ seen' = seen \cup {<<i, n, InMemory(trace[i].loads[n])>>}
      /\ UNCHANGED <<trace, head, tail, next_schedule, fetch_stall, lists, SQ, SQ_tail, RTL0,
                     RTL1, RTS0, RTS1, DTLB, WQ, inflight_reg_executions>>

\* complete_data_fetch, handle_merged_load and release_load_queue: the L1D has
\* answered, and the load takes what is in memory.
Fetched(request) ==
  LET i == request.instr
      n == LQ[request.slot].op
  IN  /\ request \in L1D
      /\ L1D' = L1D \ {request}
      /\ rob' = OpsDone(rob, i, 1)
      /\ inflight_mem_executions' = inflight_mem_executions + AllDone(rob, i, 1)
      /\ LQ' = [LQ EXCEPT ![request.slot] = NoEntry]
      /\ seen' = seen \cup {<<i, n, InMemory(trace[i].loads[n])>>}
      /\ UNCHANGED <<trace, head, tail, next_schedule, fetch_stall, lists, SQ, SQ_tail, RTL0,
                     RTL1, RTS0, RTS1, DTLB, WQ, inflight_reg_executions>>

\* Mutant: the room in the L1D is not checked.
retire_robUnchecked ==
  /\ head < tail
  /\ rob[head].executed = "completed"
  /\ WQ' = WQ \cup Elements(trace[head].stores)
  /\ SQ' = [slot \in SQSlots |-> IF slot \in Elements(rob[head].sq_index) THEN NoEntry
                                 ELSE SQ[slot]]
  /\ rob' = [rob EXCEPT ![head] = Blank]
  /\ head' = head + 1
  /\ UNCHANGED <<trace, tail, next_schedule, fetch_stall, lists, LQ, SQ_tail, RTL0, RTL1,
                 RTS0, RTS1, DTLB, L1D, counters, seen>>

\* The oldest instruction retires if the L1D has room for its stores.
retire_rob ==
  /\ head < tail
  /\ rob[head].executed = "completed"
  /\ Cardinality(WQ) + Len(trace[head].stores) <= WQ_SIZE
  /\ WQ' = WQ \cup Elements(trace[head].stores)
  /\ SQ' = [slot \in SQSlots |-> IF slot \in Elements(rob[head].sq_index) THEN NoEntry
                                 ELSE SQ[slot]]
  /\ rob' = [rob EXCEPT ![head] = Blank]
  /\ head' = head + 1
  /\ UNCHANGED <<trace, tail, next_schedule, fetch_stall, lists, LQ, SQ_tail, RTL0, RTL1,
                 RTS0, RTS1, DTLB, L1D, counters, seen>>

\* handle_writeback of the L1D.
Written(a) ==
  /\ a \in WQ
  /\ WQ' = WQ \ {a}
  /\ UNCHANGED <<trace, head, tail, next_schedule, rob, fetch_stall, lists, queues, DTLB,
                 L1D, counters, seen>>

Next ==
  \/ add_to_rob \/ do_scheduling
  \/ \E i \in InRob : do_execution(i) \/ complete_execution(i) \/ do_memory_scheduling(i)
  \/ TranslateStore \/ TranslateLoad
  \/ \E request \in DTLB : Translated(request)
  \/ execute_store \/ execute_load
  \/ \E request \in L1D : Fetched(request)
  \/ retire_rob
  \/ \E a \in WQ : Written(a)

\* The simulation loop keeps turning, and the DTLB and the L1D answer.
Spec == Init /\ [][Next]_vars /\ WF_vars(Next)
-----------------------------------------------------------------------------
Stages == {"no", "inflight", "completed"}

(***************************************************************************)
(* The type of the state.  No list outgrows its ring: an instruction or a  *)
(* slot is in each at most once.                                           *)
(***************************************************************************)
TypeOK ==
  /\ head \in 1 .. Len(trace) + 1 /\ tail \in head .. Len(trace) + 1
  /\ tail - head <= ROB_SIZE /\ next_schedule \in head .. tail
  /\ fetch_stall \in BOOLEAN
  /\ \A i \in DOMAIN trace :
       /\ rob[i].scheduled \in Stages /\ rob[i].executed \in Stages
       /\ rob[i].num_reg_dependent \in Nat /\ rob[i].num_mem_ops \in Nat
       /\ rob[i].memory_instrs_depend_on_me \subseteq i + 1 .. tail - 1
       /\ Elements(rob[i].lq_index) \subseteq LQSlots
       /\ Elements(rob[i].sq_index) \subseteq SQSlots
  /\ \A list \in {RTE0, RTE1} : IsInjective(list) /\ Elements(list) \subseteq InRob
  /\ \A list \in {RTL0, RTL1} : IsInjective(list) /\ Elements(list) \subseteq LQSlots
  /\ \A list \in {RTS0, RTS1} : IsInjective(list) /\ Elements(list) \subseteq SQSlots
  /\ SQ_tail \in SQSlots
  /\ Cardinality(WQ) <= WQ_SIZE

\* num_mem_ops counts the operations of an instruction that are still to be done.
OpsCounted ==
  \A i \in InRob :
    rob[i].num_mem_ops =
      Cardinality(DOMAIN trace[i].loads \ DOMAIN rob[i].lq_index)
        + Cardinality({slot \in Used(LQ) : LQ[slot].instr = i})
        + Cardinality(DOMAIN trace[i].stores \ DOMAIN rob[i].sq_index)
        + Cardinality({slot \in Used(SQ) : SQ[slot].instr = i /\ ~SQ[slot].fetched})

\* The counters without which update_rob completes nothing.
ExecutionsCounted ==
  /\ inflight_mem_executions =
       Cardinality({i \in InRob : /\ is_memory(i) /\ rob[i].num_mem_ops = 0
                                  /\ rob[i].executed # "completed"})
  /\ inflight_reg_executions =
       Cardinality({i \in InRob : ~is_memory(i) /\ rob[i].executed = "inflight"})

Requests(requests, queue) == {r.slot : r \in {q \in requests : q.queue = queue}}

\* A slot of the load queue is either on its way, in one list or request, which names
\* the instruction that holds it, or it waits for a producer that is not executed and
\* will find it by its lq_index.
SlotsTracked ==
  /\ \A slot \in LQSlots :
       Cardinality({n \in {1} : slot \in Elements(RTL0)})
         + Cardinality({n \in {1} : slot \in Elements(RTL1)})
         + Cardinality({n \in {1} : slot \in Requests(DTLB, "LQ")})
         + Cardinality({n \in {1} : slot \in Requests(L1D, "LQ")})
       = (IF LQ[slot] # NoEntry /\ LQ[slot].producer = NoStore THEN 1 ELSE 0)
  /\ \A r \in DTLB \cup L1D : r = Request(r.queue, r.slot) /\ r.instr \in InRob
  /\ \A slot \in Used(LQ) :
       LET e == LQ[slot] IN
       /\ rob[e.instr].lq_index[e.op] = slot
       /\ e.producer # NoStore =>
            /\ e.producer \in InRob
            /\ e.instr \in rob[e.producer].memory_instrs_depend_on_me
            /\ \A q \in Used(SQ) : /\ SQ[q].instr = e.producer
                                   /\ SQ[q].address = trace[e.instr].loads[e.op]
                                   => ~SQ[q].fetched

(***************************************************************************)
(* Nothing is forgotten or done twice.  A memory operation counts until it *)
(* is done, by a return, a store or a forwarding; an instruction without   *)
(* one left counts as completing, without which update_rob passes it over; *)
(* and a load is on its way or waits for a store that will wake it, so     *)
(* that complete_data_fetch finds the load a return is for.                *)
(***************************************************************************)
WorkConserved == OpsCounted /\ ExecutionsCounted /\ SlotsTracked

(***************************************************************************)
(* execute_store forwards to loads that wait for this store: its assert    *)
(* that producer_id matches never fails.                                   *)
(***************************************************************************)
ForwardsToItsLoads == RTS1 # << >> => OwnDependents(Head(RTS1))

(***************************************************************************)
(* A load takes the value of the youngest older store to its address, by   *)
(* forwarding or from memory, whatever is executed out of order and        *)
(* whichever of them is added first.                                       *)
(***************************************************************************)
LoadsSeeStores ==
  \A s \in seen :
    LET older == StoresTo(trace[s[1]].loads[s[2]], 1 .. s[1] - 1)
    IN  s[3] = IF older = {} THEN NoStore ELSE Youngest(older)

\* All slots of the load queue are held by loads whose producer waits for registers.
LoadQueueBlocked ==
  \A slot \in LQSlots :
    /\ LQ[slot] # NoEntry /\ LQ[slot].producer # NoStore
    /\ rob[LQ[slot].producer].num_reg_dependent > 0

(***************************************************************************)
(* The whole trace retires, unless the load queue is filled up by loads    *)
(* that wait for a store whose registers wait for an older load, which     *)
(* then finds no slot.                                                     *)
(***************************************************************************)
EveryInstructionRetires == <>[](head > Len(trace) \/ LoadQueueBlocked)
=============================================================================
