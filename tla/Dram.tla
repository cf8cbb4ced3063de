-------------------------------- MODULE Dram --------------------------------
(***************************************************************************)
(* MEMORY_CONTROLLER (dram_controller.cc): one channel with its read and   *)
(* write queue, its banks and its data bus, below the last-level cache.    *)
(* In every cycle the LLC adds requests, then operate() may switch between *)
(* reads and writes, schedules one request on a free bank and processes    *)
(* the scheduled request that is due first.  The channels of a controller  *)
(* share nothing.                                                          *)
(*                                                                         *)
(* Times are relative to current_core_cycle.  Of times in the past only    *)
(* the order matters, so they are kept as ranks (Aged).                    *)
(***************************************************************************)
EXTENDS Integers, FiniteSets

CONSTANTS
  Addresses,                   \* the cache lines, as line numbers
  CHANNEL_SPAN,                \* 2 ^ LOG2_DRAM_CHANNELS
  DRAM_BANKS, DRAM_COLUMNS, DRAM_RANKS, DRAM_ROWS,
  DRAM_RQ_SIZE, DRAM_WQ_SIZE,
  DRAM_WRITE_HIGH_WM, DRAM_WRITE_LOW_WM,
  tRP, tRCD, tCAS,
  DRAM_DBUS_RETURN_TIME, DRAM_DBUS_TURN_AROUND_TIME,
  LLC_MSHR_SIZE,               \* the misses the LLC may have in flight
  MaxAge,                      \* bound: the age rank a request arrives with
  Window                       \* bound: arrivals while a read is waiting

\* Address 0 marks an empty slot.
ASSUME AddressAssumption == Addresses \subseteq Nat \ {0}
ASSUME GeometryAssumption ==
  {CHANNEL_SPAN, DRAM_BANKS, DRAM_COLUMNS, DRAM_RANKS, DRAM_ROWS} \subseteq Nat \ {0}
ASSUME SizeAssumption == DRAM_RQ_SIZE \in Nat \ {0} /\ DRAM_WQ_SIZE \in Nat \ {0}
\* Three quarters and one quarter of the write queue.
ASSUME WatermarkAssumption ==
  /\ DRAM_WRITE_LOW_WM \in Nat /\ DRAM_WRITE_HIGH_WM \in Nat
  /\ DRAM_WRITE_LOW_WM < DRAM_WRITE_HIGH_WM /\ DRAM_WRITE_HIGH_WM <= DRAM_WQ_SIZE
ASSUME TimeAssumption ==
  /\ {tRP, tRCD, tCAS, DRAM_DBUS_RETURN_TIME, DRAM_DBUS_TURN_AROUND_TIME} \subseteq Nat
  /\ MaxAge \in Nat /\ Window \in Nat
\* The caller never has more misses in flight than the read queue has slots.
ASSUME MissesFit == LLC_MSHR_SIZE \in Nat /\ LLC_MSHR_SIZE <= DRAM_RQ_SIZE

VARIABLES
  queue,                 \* "RQ" and "WQ" -> their slots
  next_schedule_index,   \* per queue: the unscheduled request that is due first
  next_process_index,    \* per queue: the scheduled request that is due first
  bank_request,          \* rank and bank -> its reservation
  scheduled_requests,    \* scheduled_reads and scheduled_writes
  write_mode,
  dbus_cycle_available,
  phase,                 \* what the cycle does next
  waiting                \* line the LLC waits for -> arrivals since it asked

vars == <<queue, next_schedule_index, next_process_index, bank_request,
          scheduled_requests, write_mode, dbus_cycle_available, phase, waiting>>

Queues == {"RQ", "WQ"}
SIZE == [RQ |-> DRAM_RQ_SIZE, WQ |-> DRAM_WQ_SIZE]
Slots(q) == 0 .. SIZE[q] - 1
Empty == [address |-> 0, scheduled |-> FALSE, event |-> 0]
Banks == (0 .. DRAM_RANKS - 1) \X (0 .. DRAM_BANKS - 1)
NoRow == -1              \* open_row = UINT32_MAX
NoRequest == -1
-----------------------------------------------------------------------------
\* Address decoding: channel, bank, column, rank, row, from the lowest bits up.
dram_get_bank(a) == (a \div CHANNEL_SPAN) % DRAM_BANKS
dram_get_rank(a) == (a \div (CHANNEL_SPAN * DRAM_BANKS * DRAM_COLUMNS)) % DRAM_RANKS
dram_get_row(a) ==
  (a \div (CHANNEL_SPAN * DRAM_BANKS * DRAM_COLUMNS * DRAM_RANKS)) % DRAM_ROWS

BankOf(a) == <<dram_get_rank(a), dram_get_bank(a)>>

Used(entries) == {i \in DOMAIN entries : entries[i].address # 0}
Scheduled(entries) == {i \in DOMAIN entries : entries[i].scheduled}
Unscheduled(entries) == Used(entries) \ Scheduled(entries)

\* get_occupancy
Occupancy(q) == Cardinality(Used(queue[q]))

\* check_dram_queue
Holds(q, a) == \E i \in Slots(q) : queue[q][i].address = a

\* A search for the smallest event_cycle from the lowest index: what it ends with.
First(entries, found) ==
  {i \in found : \A j \in found :
     \/ entries[i].event < entries[j].event
     \/ entries[i].event = entries[j].event /\ i <= j}

Earliest(entries, found) == CHOOSE i \in First(entries, found) : TRUE

EarliestOr(entries, found, none) ==
  IF found = {} THEN none ELSE Earliest(entries, found)

update_schedule_cycle(q, entries) == EarliestOr(entries, Unscheduled(entries), SIZE[q])

update_process_cycle(q, entries) == EarliestOr(entries, Scheduled(entries), SIZE[q])

\* Mutant: the bank goes on working.
IdleWorking(bank) ==
  [bank EXCEPT !.request_index = NoRequest, !.is_read = FALSE, !.is_write = FALSE]

\* The bank as reset_remain_requests and process leave it.
Idle(bank) ==
  [bank EXCEPT !.working = FALSE, !.request_index = NoRequest,
               !.is_read = FALSE, !.is_write = FALSE]

\* A cycle passes: the future comes closer; requests of one kind that are due
\* keep their order.
Aged(entries) ==
  [i \in DOMAIN entries |->
     IF entries[i].address = 0 THEN entries[i]
     ELSE IF entries[i].event > 0 THEN [entries[i] EXCEPT !.event = @ - 1]
     ELSE [entries[i] EXCEPT !.event = -Cardinality(
             {entries[j].event : j \in {k \in Used(entries) :
                /\ entries[k].scheduled = entries[i].scheduled
                /\ entries[i].event <= entries[k].event
                /\ entries[k].event <= 0}})]]
-----------------------------------------------------------------------------
Init ==
  /\ queue = [q \in Queues |-> [i \in Slots(q) |-> Empty]]
  /\ next_schedule_index = SIZE
  /\ next_process_index = SIZE
  /\ bank_request = [b \in Banks |->
       [working |-> FALSE, request_index |-> NoRequest, is_read |-> FALSE,
        is_write |-> FALSE, open_row |-> NoRow, cycle_available |-> 0]]
  /\ scheduled_requests = [q \in Queues |-> 0]
  /\ write_mode = FALSE
  /\ dbus_cycle_available = 0
  /\ phase = "arrive"
  /\ waiting = << >>

\* Mutant: a request that is added is not considered for scheduling.
InsertedUnseen(q, a, age) ==
  IF Holds(q, a) \/ Used(queue[q]) = Slots(q)
  THEN UNCHANGED <<queue, next_schedule_index>>
  ELSE LET index == CHOOSE i \in Slots(q) \ Used(queue[q]) :
                      \A j \in Slots(q) \ Used(queue[q]) : i <= j
       IN  /\ queue' = [queue EXCEPT ![q][index] =
                          [address |-> a, scheduled |-> FALSE, event |-> -age]]
           /\ UNCHANGED next_schedule_index

\* add_rq and add_wq after the other queue was looked at: a request for the line
\* is merged, otherwise the first empty slot is taken; none left, and the packet
\* is dropped.
Inserted(q, a, age) ==
  IF Holds(q, a) \/ Used(queue[q]) = Slots(q)
  THEN UNCHANGED <<queue, next_schedule_index>>
  ELSE LET index == CHOOSE i \in Slots(q) \ Used(queue[q]) :
                      \A j \in Slots(q) \ Used(queue[q]) : i <= j
       IN  /\ queue' = [queue EXCEPT ![q][index] =
                          [address |-> a, scheduled |-> FALSE, event |-> -age]]
           /\ next_schedule_index' =
                [next_schedule_index EXCEPT ![q] = update_schedule_cycle(q, queue'[q])]

\* The requests a read may be overtaken by are bounded: the reorder buffer fills
\* up behind a load that waits.
Accepting ==
  phase = "arrive" /\ \A a \in DOMAIN waiting : waiting[a] < Window

Overtaken == [a \in DOMAIN waiting |-> waiting[a] + 1]

\* A read miss of the LLC is queued.
add_rq(a, age) ==
  /\ Accepting
  /\ a \notin DOMAIN waiting
  /\ Cardinality(DOMAIN waiting) < LLC_MSHR_SIZE
  /\ ~Holds("WQ", a)
  /\ Inserted("RQ", a, age)
  /\ waiting' = [b \in DOMAIN waiting \cup {a} |->
                   IF b = a THEN 0 ELSE Overtaken[b]]
  /\ UNCHANGED <<next_process_index, bank_request, scheduled_requests, write_mode,
                 dbus_cycle_available, phase>>

\* A read miss that finds its line in the write queue returns to the LLC at once.
add_rqForwarded(a) ==
  /\ Accepting
  /\ a \notin DOMAIN waiting
  /\ Cardinality(DOMAIN waiting) < LLC_MSHR_SIZE
  /\ Holds("WQ", a)
  /\ waiting' = Overtaken
  /\ UNCHANGED <<queue, next_schedule_index, next_process_index, bank_request,
                 scheduled_requests, write_mode, dbus_cycle_available, phase>>

\* The LLC writes a victim back; it has looked at get_occupancy(2).
add_wq(a, age) ==
  /\ Accepting
  /\ Occupancy("WQ") < DRAM_WQ_SIZE
  /\ Inserted("WQ", a, age)
  /\ waiting' = Overtaken
  /\ UNCHANGED <<next_process_index, bank_request, scheduled_requests, write_mode,
                 dbus_cycle_available, phase>>

\* LLC.operate() is done; DRAM.operate() follows.
Arrived ==
  /\ phase = "arrive"
  /\ phase' = "mode"
  /\ UNCHANGED <<queue, next_schedule_index, next_process_index, bank_request,
                 scheduled_requests, write_mode, dbus_cycle_available, waiting>>
-----------------------------------------------------------------------------
\* operate(): the switch between reads and writes.


\* The scheduled request of queue q on bank b.
RequestOn(q, b) ==
  queue[q][CHOOSE i \in Scheduled(queue[q]) : BankOf(queue[q][i].address) = b]

\* Mutant: the requests stay scheduled.
WithdrawnNothing(entries) == entries

Withdrawn(entries) ==
  [i \in DOMAIN entries |->
     IF entries[i].scheduled
     THEN [entries[i] EXCEPT !.scheduled = FALSE, !.event = 0]
     ELSE entries[i]]

\* Mutant: the banks stay reserved.
reset_remain_requestsHeld(q) ==
  /\ queue' = [queue EXCEPT ![q] = Withdrawn(@)]
  /\ scheduled_requests' = [scheduled_requests EXCEPT ![q] = 0]
  /\ UNCHANGED bank_request
  /\ next_schedule_index' = [p \in Queues |-> update_schedule_cycle(p, queue'[p])]
  /\ next_process_index' = [p \in Queues |-> update_process_cycle(p, queue'[p])]

\* Scheduled requests of q become unscheduled ones that are due now.  Their banks
\* are freed; the row counts as open once only the column access was left.
reset_remain_requests(q) ==
  LET banks == {BankOf(queue[q][i].address) : i \in Scheduled(queue[q])}
      Freed(b) ==
        [Idle(bank_request[b]) EXCEPT
           !.cycle_available = 0,
           !.open_row = IF bank_request[b].cycle_available - tCAS <= 0
                        THEN dram_get_row(RequestOn(q, b).address) ELSE NoRow]
  IN  /\ queue' = [queue EXCEPT ![q] = Withdrawn(@)]
      /\ bank_request' = [b \in Banks |-> IF b \in banks THEN Freed(b) ELSE bank_request[b]]
      /\ scheduled_requests' =
           [scheduled_requests EXCEPT
              !["WQ"] = @ - Cardinality({b \in banks : bank_request[b].is_write}),
              !["RQ"] = @ - Cardinality({b \in banks : /\ bank_request[b].is_read
                                                       /\ ~bank_request[b].is_write})]
      /\ next_schedule_index' = [p \in Queues |-> update_schedule_cycle(p, queue'[p])]
      /\ next_process_index' = [p \in Queues |-> update_process_cycle(p, queue'[p])]

\* Mutant: the high watermark is one too high.
WritesPressingLate == ~write_mode /\ Occupancy("WQ") > DRAM_WRITE_HIGH_WM

\* The write queue has filled up to the high watermark.
WritesPressing == ~write_mode /\ Occupancy("WQ") >= DRAM_WRITE_HIGH_WM

\* It is empty, or below the low watermark while reads are waiting.
WritesDone ==
  /\ write_mode
  /\ \/ Occupancy("WQ") = 0
     \/ Occupancy("RQ") > 0 /\ Occupancy("WQ") < DRAM_WRITE_LOW_WM

SwitchMode ==
  /\ phase = "mode"
  /\ phase' = "schedule"
  /\ \/ WritesPressing /\ write_mode' = TRUE /\ reset_remain_requests("RQ")
     \/ WritesDone /\ write_mode' = FALSE /\ reset_remain_requests("WQ")
  /\ dbus_cycle_available' = dbus_cycle_available + DRAM_DBUS_TURN_AROUND_TIME
  /\ UNCHANGED waiting

KeepMode ==
  /\ phase = "mode"
  /\ phase' = "schedule"
  /\ ~WritesPressing /\ ~WritesDone
  /\ UNCHANGED <<queue, next_schedule_index, next_process_index, bank_request,
                 scheduled_requests, write_mode, dbus_cycle_available, waiting>>
-----------------------------------------------------------------------------
\* operate(): schedule and process the queue whose turn it is.

Active == IF write_mode THEN "WQ" ELSE "RQ"

\* Requests that are not scheduled and whose bank is free.
Schedulable(q) ==
  {i \in Unscheduled(queue[q]) : ~bank_request[BankOf(queue[q][i].address)].working}

RowHits(q) ==
  {i \in Schedulable(q) : bank_request[BankOf(queue[q][i].address)].open_row
                            = dram_get_row(queue[q][i].address)}

MaySchedule(q) ==
  /\ next_schedule_index[q] < SIZE[q]
  /\ queue[q][next_schedule_index[q]].event <= 0

\* schedule(): the oldest request to an open row, otherwise the oldest one.
schedule ==
  LET q == Active
      hit == RowHits(q) # {}
      index == Earliest(queue[q], IF hit THEN RowHits(q) ELSE Schedulable(q))
      a == queue[q][index].address
      latency == IF hit THEN tCAS ELSE tRP + tRCD + tCAS
  IN  /\ phase = "schedule"
      /\ phase' = "process"
      /\ MaySchedule(q) /\ Schedulable(q) # {}
      /\ queue' = [queue EXCEPT ![q][index].scheduled = TRUE,
                                ![q][index].event = latency]
      /\ bank_request' =
           [bank_request EXCEPT ![BankOf(a)] =
              [working |-> TRUE, request_index |-> index,
               is_read |-> q = "RQ", is_write |-> q = "WQ",
               open_row |-> dram_get_row(a), cycle_available |-> latency]]
      /\ scheduled_requests' = [scheduled_requests EXCEPT ![q] = @ + 1]
      /\ next_schedule_index' =
           [next_schedule_index EXCEPT ![q] = update_schedule_cycle(q, queue'[q])]
      /\ next_process_index' =
           [next_process_index EXCEPT ![q] = update_process_cycle(q, queue'[q])]
      /\ UNCHANGED <<write_mode, dbus_cycle_available, waiting>>

NothingToSchedule ==
  /\ phase = "schedule"
  /\ phase' = "process"
  /\ ~(MaySchedule(Active) /\ Schedulable(Active) # {})
  /\ UNCHANGED <<queue, next_schedule_index, next_process_index, bank_request,
                 scheduled_requests, write_mode, dbus_cycle_available, waiting>>

\* process(): the scheduled request q, i is due.
MayProcess(q) ==
  /\ next_process_index[q] < SIZE[q]
  /\ queue[q][next_process_index[q]].event <= 0

BankIn(q) == BankOf(queue[q][next_process_index[q]].address)

DataReady(q) == MayProcess(q) /\ bank_request[BankIn(q)].cycle_available <= 0

\* Mutant: a write that is done returns its line to the LLC.
processAnswersWrites ==
  LET q == Active
      index == next_process_index[q]
  IN  /\ phase = "process"
      /\ phase' = "tick"
      /\ DataReady(q) /\ dbus_cycle_available <= 0
      /\ dbus_cycle_available' = DRAM_DBUS_RETURN_TIME
      /\ queue' = [queue EXCEPT ![q][index] = Empty]
      /\ waiting' =
           [a \in DOMAIN waiting \ {queue[q][index].address} |-> waiting[a]]
      /\ bank_request' = [bank_request EXCEPT ![BankIn(q)] = Idle(@)]
      /\ scheduled_requests' = [scheduled_requests EXCEPT ![q] = @ - 1]
      /\ next_process_index' =
           [next_process_index EXCEPT ![q] = update_process_cycle(q, queue'[q])]
      /\ UNCHANGED <<next_schedule_index, write_mode>>

\* The data goes over the bus: a read returns to the LLC, the bank is free again,
\* the request leaves the queue.
process ==
  LET q == Active
      index == next_process_index[q]
  IN  /\ phase = "process"
      /\ phase' = "tick"
      /\ DataReady(q) /\ dbus_cycle_available <= 0
      /\ dbus_cycle_available' = DRAM_DBUS_RETURN_TIME
      /\ queue' = [queue EXCEPT ![q][index] = Empty]
      /\ waiting' =
           IF q = "RQ"
           THEN [a \in DOMAIN waiting \ {queue[q][index].address} |-> waiting[a]]
           ELSE waiting
      /\ bank_request' = [bank_request EXCEPT ![BankIn(q)] = Idle(@)]
      /\ scheduled_requests' = [scheduled_requests EXCEPT ![q] = @ - 1]
      /\ next_process_index' =
           [next_process_index EXCEPT ![q] = update_process_cycle(q, queue'[q])]
      /\ UNCHANGED <<next_schedule_index, write_mode>>

\* The data bus is busy: the bank waits for it.
BusBusy ==
  /\ phase = "process"
  /\ phase' = "tick"
  /\ DataReady(Active) /\ dbus_cycle_available > 0
  /\ bank_request' = [bank_request EXCEPT ![BankIn(Active)].cycle_available =
                        dbus_cycle_available]
  /\ UNCHANGED <<queue, next_schedule_index, next_process_index, scheduled_requests,
                 write_mode, dbus_cycle_available, waiting>>

NothingToProcess ==
  /\ phase = "process"
  /\ phase' = "tick"
  /\ ~DataReady(Active)
  /\ UNCHANGED <<queue, next_schedule_index, next_process_index, bank_request,
                 scheduled_requests, write_mode, dbus_cycle_available, waiting>>

\* current_core_cycle++.  A bus that is long free stays as free as a turn-around
\* can tell.
Tick ==
  /\ phase = "tick"
  /\ phase' = "arrive"
  /\ queue' = [q \in Queues |-> Aged(queue[q])]
  /\ bank_request' =
       [b \in Banks |-> [bank_request[b] EXCEPT !.cycle_available =
                           IF @ > 0 THEN @ - 1 ELSE 0]]
  /\ dbus_cycle_available' =
       IF dbus_cycle_available > -DRAM_DBUS_TURN_AROUND_TIME
       THEN dbus_cycle_available - 1 ELSE -DRAM_DBUS_TURN_AROUND_TIME
  /\ UNCHANGED <<next_schedule_index, next_process_index, scheduled_requests,
                 write_mode, waiting>>

Next ==
  \/ \E a \in Addresses, age \in 0 .. MaxAge : add_rq(a, age) \/ add_wq(a, age)
  \/ \E a \in Addresses : add_rqForwarded(a)
  \/ Arrived
  \/ SwitchMode \/ KeepMode
  \/ schedule \/ NothingToSchedule
  \/ process \/ BusBusy \/ NothingToProcess
  \/ Tick

\* The simulation loop keeps turning.
Spec == Init /\ [][Next]_vars /\ WF_vars(Next)
-----------------------------------------------------------------------------
Entry(q) ==
  [address : Addresses \cup {0}, scheduled : BOOLEAN,
   event : -SIZE[q] - MaxAge .. tRP + tRCD + tCAS]

(***************************************************************************)
(* The type of the state: indices lie in their queues (SIZE meaning none), *)
(* times within what latencies and turn-arounds can add up to.             *)
(***************************************************************************)
TypeOK ==
  /\ \A q \in Queues : queue[q] \in [Slots(q) -> Entry(q)]
  /\ \A q \in Queues : /\ next_schedule_index[q] \in 0 .. SIZE[q]
                       /\ next_process_index[q] \in 0 .. SIZE[q]
                       /\ scheduled_requests[q] \in 0 .. SIZE[q]
  /\ \A b \in Banks :
       LET bank == bank_request[b] IN
       /\ bank.request_index \in {NoRequest} \cup Slots("RQ") \cup Slots("WQ")
       /\ bank.open_row \in {NoRow} \cup 0 .. DRAM_ROWS - 1
       /\ bank.working \in BOOLEAN /\ bank.is_read \in BOOLEAN /\ bank.is_write \in BOOLEAN
       /\ bank.cycle_available \in Nat
  /\ write_mode \in BOOLEAN
  /\ dbus_cycle_available \in Int /\ dbus_cycle_available >= -DRAM_DBUS_TURN_AROUND_TIME
  /\ phase \in {"arrive", "mode", "schedule", "process", "tick"}
  /\ DOMAIN waiting \subseteq Addresses
  /\ \A a \in DOMAIN waiting : waiting[a] \in 0 .. Window

(***************************************************************************)
(* Bank reservations and scheduled requests match one to one, and only the *)
(* queue whose turn it is has any, whatever is scheduled, processed and    *)
(* taken back at a switch.  So process() finds its request_index and the   *)
(* counters are 0 after reset_remain_requests: its asserts never fail.     *)
(***************************************************************************)
BankReservation ==
  /\ \A q \in Queues : \A i \in Scheduled(queue[q]) :
       /\ q = Active
       /\ bank_request[BankOf(queue[q][i].address)] =
            [working |-> TRUE, request_index |-> i,
             is_read |-> q = "RQ", is_write |-> q = "WQ",
             open_row |-> dram_get_row(queue[q][i].address),
             cycle_available |->
               bank_request[BankOf(queue[q][i].address)].cycle_available]
  /\ \A b \in Banks :
       IF bank_request[b].working
       THEN \E i \in Scheduled(queue[Active]) : BankOf(queue[Active][i].address) = b
       ELSE bank_request[b] = Idle(bank_request[b])
  /\ \A q \in Queues : scheduled_requests[q] = Cardinality(Scheduled(queue[q]))

(***************************************************************************)
(* The cached indices are what a new search would find: every path through *)
(* add_rq, add_wq, schedule(), process() and a switch that changes who is  *)
(* due first recomputes them, although none recomputes all of them.        *)
(***************************************************************************)
NextIndicesFresh ==
  \A q \in Queues :
    /\ next_schedule_index[q] = update_schedule_cycle(q, queue[q])
    /\ next_process_index[q] = update_process_cycle(q, queue[q])

(***************************************************************************)
(* The LLC waits exactly for the lines in the read queue, each there once: *)
(* add_rq drops none although it has no refusal, and no read is returned   *)
(* that nobody waits for, which would stop the LLC at its assert.          *)
(***************************************************************************)
EveryMissQueued ==
  /\ DOMAIN waiting = {queue["RQ"][i].address : i \in Used(queue["RQ"])}
  /\ \A q \in Queues : \A i, j \in Used(queue[q]) :
       queue[q][i].address = queue[q][j].address => i = j

(***************************************************************************)
(* Every read is answered, although requests to open rows overtake it,     *)
(* bursts of writes hold it up and a switch takes it back from its bank.   *)
(***************************************************************************)
EveryReadAnswered ==
  \A a \in Addresses : a \in DOMAIN waiting ~> a \notin DOMAIN waiting

(***************************************************************************)
(* A full write queue gets room again, so that an LLC that waits with a    *)
(* dirty victim can go on.                                                 *)
(***************************************************************************)
WritesDrain ==
  Occupancy("WQ") = DRAM_WQ_SIZE ~> Occupancy("WQ") < DRAM_WQ_SIZE
=============================================================================
