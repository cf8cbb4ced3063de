----------------------------- MODULE DramProofs -----------------------------
(***************************************************************************)
(* Proofs about one channel of the memory controller, for every geometry,  *)
(* every size of the queues and every timing: bank reservations match the  *)
(* scheduled requests, the cached indices are never stale, and the LLC     *)
(* waits for exactly the reads that are queued.                            *)
(***************************************************************************)
EXTENDS Dram, CommonLemmas

(***************************************************************************)
(* The sizes of the queues are positive, and their slots are finitely many.*)
(***************************************************************************)
LEMMA SlotsFinite ==
  ASSUME NEW q \in Queues
  PROVE  /\ SIZE[q] \in Nat \ {0}
         /\ \A S \in SUBSET Slots(q) :
              /\ IsFiniteSet(S)
              /\ Cardinality(S) \in 0 .. SIZE[q]
              /\ Cardinality(S) = SIZE[q] => S = Slots(q)
<1>1. SIZE[q] \in Nat \ {0}
  BY SizeAssumption DEF Queues, SIZE
<1>2. IsFiniteSet(Slots(q)) /\ Cardinality(Slots(q)) = SIZE[q]
  <2>1. 0 \in Int /\ SIZE[q] - 1 \in Int /\ ~(0 > SIZE[q] - 1)
    BY <1>1
  <2>2. IsFiniteSet(0 .. SIZE[q] - 1) /\ Cardinality(0 .. SIZE[q] - 1) = (SIZE[q] - 1) - 0 + 1
    BY <2>1, FS_Interval
  <2> QED
    BY <1>1, <2>2 DEF Slots
<1>3. ASSUME NEW S \in SUBSET Slots(q)
      PROVE  /\ IsFiniteSet(S)
             /\ Cardinality(S) \in 0 .. SIZE[q]
             /\ Cardinality(S) = SIZE[q] => S = Slots(q)
  <2>1. IsFiniteSet(S) /\ Cardinality(S) <= SIZE[q]
    BY <1>2, FS_Subset
  <2>2. Cardinality(S) = SIZE[q] => S = Slots(q)
    BY <1>2, FS_Subset
  <2>3. Cardinality(S) \in Nat
    BY <2>1, FS_CardinalityType
  <2> QED
    BY <1>1, <2>1, <2>2, <2>3
<1> QED
  BY <1>1, <1>3

(***************************************************************************)
(* A search among some requests of a queue finds one of them.              *)
(***************************************************************************)
LEMMA EarliestFound ==
  ASSUME NEW q \in Queues, NEW entries \in [Slots(q) -> Entry(q)],
         NEW found \in SUBSET Slots(q), found # {}
  PROVE  Earliest(entries, found) \in found
<1> DEFINE base == SIZE[q] + MaxAge
           shifted(i) == entries[i].event + base
<1>1. base \in Nat
  BY SlotsFinite, TimeAssumption
<1>2. \A i \in found : entries[i].event \in Int /\ shifted(i) \in Nat
  <2>1. \A i \in found : entries[i].event \in -SIZE[q] - MaxAge .. tRP + tRCD + tCAS
    BY DEF Entry
  <2> QED
    BY <2>1, SlotsFinite, TimeAssumption
<1>3. PICK i \in found : \A j \in found : shifted(i) <= shifted(j)
  <2>1. {shifted(i) : i \in found} \in SUBSET Nat /\ {shifted(i) : i \in found} # {}
    BY <1>2
  <2>2. PICK least \in {shifted(i) : i \in found} :
          \A other \in {shifted(i) : i \in found} : least <= other
    <3> HIDE DEF shifted
    <3> QED
      BY <2>1, NatLeast
  <2> QED
    BY <2>2
<1> DEFINE ties == {j \in found : entries[j].event = entries[i].event}
<1>4. ties \in SUBSET Nat /\ ties # {}
  <2>1. Slots(q) \subseteq Nat
    BY SlotsFinite DEF Slots
  <2> QED
    BY <1>3, <2>1
<1>5. PICK n \in ties : \A m \in ties : n <= m
  <2> HIDE DEF ties
  <2> QED
    BY <1>4, NatLeast
<1>6. n \in First(entries, found)
  <2>1. \A j \in found : entries[n].event <= entries[j].event
    BY <1>1, <1>2, <1>3, <1>5
  <2>2. \A j \in found : entries[n].event = entries[j].event => n <= j
    BY <1>5
  <2> QED
    BY <1>2, <1>5, <2>1, <2>2 DEF First
<1> QED
  BY <1>6 DEF Earliest, First

(***************************************************************************)
(* A search depends on the order of the candidates' times only.            *)
(***************************************************************************)
LEMMA EarliestSame ==
  ASSUME NEW entries, NEW other, NEW found,
         \A i, j \in found :
           /\ entries[i].event < entries[j].event <=> other[i].event < other[j].event
           /\ entries[i].event = entries[j].event <=> other[i].event = other[j].event
  PROVE  Earliest(entries, found) = Earliest(other, found)
<1>1. First(entries, found) = First(other, found)
  BY DEF First
<1> QED
  BY <1>1 DEF Earliest

(***************************************************************************)
(* A cycle keeps the type of the requests and the order of their times     *)
(* among requests of one kind: of those that are due, an earlier one has   *)
(* strictly more distinct times from its own to now.                       *)
(***************************************************************************)
LEMMA AgedKeepsOrder ==
  ASSUME NEW q \in Queues, NEW entries \in [Slots(q) -> Entry(q)]
  PROVE  /\ Aged(entries) \in [Slots(q) -> Entry(q)]
         /\ \A i \in Slots(q) : /\ Aged(entries)[i].address = entries[i].address
                                /\ Aged(entries)[i].scheduled = entries[i].scheduled
         /\ \A i, j \in Used(entries) :
              entries[i].scheduled = entries[j].scheduled =>
                /\ entries[i].event < entries[j].event
                     <=> Aged(entries)[i].event < Aged(entries)[j].event
                /\ entries[i].event = entries[j].event
                     <=> Aged(entries)[i].event = Aged(entries)[j].event
<1> DEFINE candidates(i) == {k \in Used(entries) :
                               /\ entries[k].scheduled = entries[i].scheduled
                               /\ entries[i].event <= entries[k].event
                               /\ entries[k].event <= 0}
           past(i) == {entries[k].event : k \in candidates(i)}
           longest == tRP + tRCD + tCAS
<1>1. /\ longest \in Nat /\ MaxAge \in Nat /\ SIZE[q] \in Nat
      /\ Used(entries) \subseteq Slots(q)
  BY SlotsFinite, TimeAssumption DEF Used
<1>2. \A i \in Slots(q) : /\ entries[i].event \in Int
                          /\ entries[i].event >= -SIZE[q] - MaxAge
                          /\ entries[i].event <= longest
                          /\ entries[i] \in Entry(q)
  BY <1>1 DEF Entry
<1>3. ASSUME NEW i \in Used(entries), entries[i].event <= 0
      PROVE  /\ IsFiniteSet(past(i))
             /\ Cardinality(past(i)) \in 1 .. SIZE[q]
  <2> DEFINE f == [k \in candidates(i) |-> entries[k].event]
  <2>1. IsFiniteSet(candidates(i)) /\ Cardinality(candidates(i)) <= SIZE[q]
    <3>1. candidates(i) \in SUBSET Slots(q)
      BY <1>1
    <3> QED
      BY <3>1, SlotsFinite
  <2>2. f \in Surjection(candidates(i), past(i))
    BY DEF Surjection
  <2>3. /\ IsFiniteSet(past(i))
        /\ Cardinality(past(i)) <= Cardinality(candidates(i))
    <3> HIDE DEF f, past, candidates
    <3> QED
      BY <2>1, <2>2, FS_Surjection
  <2>4. past(i) # {}
    <3>1. entries[i].event \in Int /\ entries[i].event <= entries[i].event
      BY <1>1, <1>2
    <3>2. i \in candidates(i)
      BY <1>3, <3>1
    <3> QED
      BY <3>2
  <2>5. Cardinality(past(i)) \in Nat /\ Cardinality(past(i)) # 0
    BY <2>3, <2>4, FS_CardinalityType, FS_EmptySet
  <2>6. Cardinality(candidates(i)) \in Nat
    BY <2>1, FS_CardinalityType
  <2> QED
    BY <1>1, <2>1, <2>3, <2>5, <2>6
<1>4. ASSUME NEW i \in Used(entries), NEW j \in Used(entries),
             entries[i].scheduled = entries[j].scheduled,
             entries[i].event < entries[j].event, entries[j].event <= 0
      PROVE  Cardinality(past(j)) < Cardinality(past(i))
  <2>1. entries[i].event <= 0
    BY <1>1, <1>2, <1>4
  <2>2. past(j) \subseteq past(i)
    BY <1>1, <1>2, <1>4
  <2>3. entries[i].event \in past(i) /\ entries[i].event \notin past(j)
    BY <1>1, <1>2, <1>4, <2>1
  <2> HIDE DEF past
  <2>4. IsFiniteSet(past(i)) /\ Cardinality(past(i)) \in Nat /\ Cardinality(past(j)) \in Nat
    BY <1>1, <1>3, <1>4, <2>1
  <2>5. /\ Cardinality(past(j)) <= Cardinality(past(i))
        /\ Cardinality(past(i)) = Cardinality(past(j)) => past(i) = past(j)
    BY <2>2, <2>4, FS_Subset
  <2> QED
    BY <2>3, <2>4, <2>5
<1>5. ASSUME NEW i \in Used(entries), NEW j \in Used(entries),
             entries[i].scheduled = entries[j].scheduled,
             entries[i].event = entries[j].event
      PROVE  past(i) = past(j)
  BY <1>5
<1> DEFINE aged(i) == IF entries[i].event > 0 THEN entries[i].event - 1
                      ELSE -Cardinality(past(i))
<1>6. /\ DOMAIN Aged(entries) = Slots(q)
      /\ Aged(entries) = [i \in Slots(q) |-> Aged(entries)[i]]
      /\ \A i \in Slots(q) :
           Aged(entries)[i] = IF entries[i].address = 0 THEN entries[i]
                              ELSE [entries[i] EXCEPT !.event = aged(i)]
  BY DEF Aged
<1>7. \A i \in Used(entries) :
        IF entries[i].event > 0 THEN aged(i) \in 0 .. longest - 1
        ELSE aged(i) \in -SIZE[q] .. -1
  <2> SUFFICES ASSUME NEW i \in Used(entries)
               PROVE  IF entries[i].event > 0 THEN aged(i) \in 0 .. longest - 1
                      ELSE aged(i) \in -SIZE[q] .. -1
    OBVIOUS
  <2> HIDE DEF past, longest
  <2>1. CASE entries[i].event > 0
    BY <1>1, <1>2, <2>1
  <2>2. CASE ~(entries[i].event > 0)
    <3>1. Cardinality(past(i)) \in 1 .. SIZE[q]
      BY <1>1, <1>2, <1>3, <2>2
    <3> QED
      BY <1>1, <2>2, <3>1
  <2> QED
    BY <2>1, <2>2
<1> HIDE DEF past, candidates, longest, aged
<1>8. ASSUME NEW i \in Slots(q)
      PROVE  /\ Aged(entries)[i] \in Entry(q)
             /\ Aged(entries)[i].address = entries[i].address
             /\ Aged(entries)[i].scheduled = entries[i].scheduled
             /\ i \in Used(entries) => Aged(entries)[i].event = aged(i)
  <2>1. CASE entries[i].address = 0
    BY <1>2, <1>6, <2>1 DEF Used
  <2>2. CASE entries[i].address # 0
    <3>1. aged(i) \in -SIZE[q] - MaxAge .. longest
      <4>1. i \in Used(entries)
        BY <2>2 DEF Used
      <4> QED
        BY <1>1, <1>7, <4>1
    <3> QED
      BY <1>2, <1>6, <2>2, <3>1 DEF Entry, longest
  <2> QED
    BY <2>1, <2>2
<1>9. ASSUME NEW i \in Used(entries), NEW j \in Used(entries),
             entries[i].scheduled = entries[j].scheduled
      PROVE  /\ entries[i].event < entries[j].event => aged(i) < aged(j)
             /\ entries[i].event = entries[j].event => aged(i) = aged(j)
  <2>1. entries[i].event = entries[j].event => aged(i) = aged(j)
    BY <1>5, <1>9 DEF aged
  <2>2. ASSUME entries[i].event < entries[j].event PROVE aged(i) < aged(j)
    <3>1. CASE entries[j].event > 0 /\ entries[i].event > 0
      BY <1>1, <1>2, <2>2, <3>1 DEF aged
    <3>2. CASE entries[j].event > 0 /\ ~(entries[i].event > 0)
      BY <1>1, <1>7, <3>2
    <3>3. CASE ~(entries[j].event > 0)
      <4>1. Cardinality(past(j)) < Cardinality(past(i)) /\ ~(entries[i].event > 0)
        BY <1>1, <1>2, <1>4, <1>9, <2>2, <3>3
      <4>2. Cardinality(past(j)) \in Int /\ Cardinality(past(i)) \in Int
        BY <1>1, <1>2, <1>3, <3>3, <4>1
      <4> QED
        BY <3>3, <4>1, <4>2 DEF aged
    <3> QED
      BY <3>1, <3>2, <3>3
  <2> QED
    BY <2>1, <2>2
<1>10. ASSUME NEW i \in Used(entries), NEW j \in Used(entries),
              entries[i].scheduled = entries[j].scheduled
       PROVE  /\ entries[i].event < entries[j].event
                    <=> Aged(entries)[i].event < Aged(entries)[j].event
              /\ entries[i].event = entries[j].event
                    <=> Aged(entries)[i].event = Aged(entries)[j].event
  <2>1. aged(i) \in Int /\ aged(j) \in Int
    BY <1>1, <1>7
  <2>2. entries[i].event \in Int /\ entries[j].event \in Int
    BY <1>1, <1>2
  <2>3. Aged(entries)[i].event = aged(i) /\ Aged(entries)[j].event = aged(j)
    BY <1>1, <1>8
  <2>4. /\ entries[i].event < entries[j].event => aged(i) < aged(j)
        /\ entries[j].event < entries[i].event => aged(j) < aged(i)
        /\ entries[i].event = entries[j].event => aged(i) = aged(j)
    BY <1>9, <1>10
  <2> QED
    BY <2>1, <2>2, <2>3, <2>4
<1> QED
  BY <1>6, <1>8, <1>10
-----------------------------------------------------------------------------
\* The inductive invariant, in parts.

BankType ==
  [working : BOOLEAN, request_index : {NoRequest} \cup Slots("RQ") \cup Slots("WQ"),
   is_read : BOOLEAN, is_write : BOOLEAN,
   open_row : {NoRow} \cup 0 .. DRAM_ROWS - 1, cycle_available : Nat]

QueueTypes ==
  /\ queue = [q \in Queues |-> queue[q]]
  /\ \A q \in Queues : /\ queue[q] \in [Slots(q) -> Entry(q)]
                       /\ Scheduled(queue[q]) \subseteq Used(queue[q])

BankTypes == bank_request \in [Banks -> BankType]

OtherTypes ==
  /\ write_mode \in BOOLEAN
  /\ dbus_cycle_available \in Int
  /\ dbus_cycle_available >= -DRAM_DBUS_TURN_AROUND_TIME
  /\ phase \in {"arrive", "mode", "schedule", "process", "tick"}
  /\ DOMAIN waiting \subseteq Addresses
  /\ \A a \in DOMAIN waiting : waiting[a] \in 0 .. Window

Indices ==
  /\ next_schedule_index = [q \in Queues |-> update_schedule_cycle(q, queue[q])]
  /\ next_process_index = [q \in Queues |-> update_process_cycle(q, queue[q])]

Counters == scheduled_requests = [q \in Queues |-> Cardinality(Scheduled(queue[q]))]

\* BankReservation, field by field.
Reserved(b, q, i) ==
  /\ bank_request[b].working = TRUE
  /\ bank_request[b].request_index = i
  /\ bank_request[b].is_read = (q = "RQ")
  /\ bank_request[b].is_write = (q = "WQ")
  /\ bank_request[b].open_row = dram_get_row(queue[q][i].address)

Free(b) ==
  /\ bank_request[b].working = FALSE
  /\ bank_request[b].request_index = NoRequest
  /\ bank_request[b].is_read = FALSE
  /\ bank_request[b].is_write = FALSE

Reservations ==
  /\ \A q \in Queues : \A i \in Scheduled(queue[q]) :
       q = Active /\ Reserved(BankOf(queue[q][i].address), q, i)
  /\ \A b \in Banks :
       \/ \E i \in Scheduled(queue[Active]) : BankOf(queue[Active][i].address) = b
       \/ Free(b)

IInv ==
  /\ QueueTypes /\ BankTypes /\ OtherTypes
  /\ Indices /\ Counters
  /\ Reservations /\ EveryMissQueued

(***************************************************************************)
(* The decoding of an address names a bank and a row of the channel.       *)
(***************************************************************************)
LEMMA Decoding ==
  ASSUME NEW a \in Addresses
  PROVE  BankOf(a) \in Banks /\ dram_get_row(a) \in 0 .. DRAM_ROWS - 1
<1>1. /\ a \in Nat /\ CHANNEL_SPAN \in Nat \ {0} /\ DRAM_BANKS \in Nat \ {0}
      /\ DRAM_COLUMNS \in Nat \ {0} /\ DRAM_RANKS \in Nat \ {0} /\ DRAM_ROWS \in Nat \ {0}
  BY AddressAssumption, GeometryAssumption
<1>2. \A m, n \in Nat \ {0} : m * n \in Nat \ {0}
  OBVIOUS
<1>3. \A x, n \in Nat \ {0} : a \div x \in Nat /\ (a \div x) % n \in 0 .. n - 1
  BY <1>1
<1>4. /\ CHANNEL_SPAN * DRAM_BANKS * DRAM_COLUMNS \in Nat \ {0}
      /\ CHANNEL_SPAN * DRAM_BANKS * DRAM_COLUMNS * DRAM_RANKS \in Nat \ {0}
  BY <1>1, <1>2
<1> QED
  BY <1>1, <1>3, <1>4 DEF BankOf, Banks, dram_get_bank, dram_get_rank, dram_get_row

(***************************************************************************)
(* Replacing the requests of one queue leaves the other queue alone.       *)
(***************************************************************************)
LEMMA Replaced ==
  ASSUME QueueTypes, NEW q \in Queues, NEW entries \in [Slots(q) -> Entry(q)],
         Scheduled(entries) \subseteq Used(entries),
         queue' = [queue EXCEPT ![q] = entries]
  PROVE  /\ QueueTypes'
         /\ queue'[q] = entries
         /\ \A p \in Queues \ {q} : queue'[p] = queue[p]
<1>1. /\ queue'[q] = entries
      /\ \A p \in Queues \ {q} : queue'[p] = queue[p]
      /\ queue' = [p \in Queues |-> queue'[p]]
  BY DEF QueueTypes
<1>2. \A p \in Queues : /\ queue'[p] \in [Slots(p) -> Entry(p)]
                        /\ Scheduled(queue'[p]) \subseteq Used(queue'[p])
  BY <1>1 DEF QueueTypes
<1> QED
  BY <1>1, <1>2 DEF QueueTypes

(***************************************************************************)
(* What a call of add_rq or add_wq does: nothing, or a request of the line *)
(* in an empty slot, when the queue has no other one.                      *)
(***************************************************************************)
LEMMA InsertedOne ==
  ASSUME QueueTypes, NEW q \in Queues, NEW a \in Addresses, NEW age \in 0 .. MaxAge,
         Inserted(q, a, age)
  PROVE  \/ /\ Holds(q, a) \/ Used(queue[q]) = Slots(q)
            /\ UNCHANGED <<queue, next_schedule_index>>
         \/ /\ ~Holds(q, a)
            /\ \E index \in Slots(q) \ Used(queue[q]) :
                 LET entry == [address |-> a, scheduled |-> FALSE, event |-> -age]
                     entries == [queue[q] EXCEPT ![index] = entry]
                 IN  /\ queue' = [queue EXCEPT ![q] = entries]
                     /\ entries \in [Slots(q) -> Entry(q)]
                     /\ Used(entries) = Used(queue[q]) \cup {index}
                     /\ Scheduled(entries) = Scheduled(queue[q])
                     /\ index \notin Scheduled(queue[q])
            /\ next_schedule_index' =
                 [next_schedule_index EXCEPT ![q] = update_schedule_cycle(q, queue'[q])]
<1>1. CASE Holds(q, a) \/ Used(queue[q]) = Slots(q)
  BY <1>1 DEF Inserted
<1>2. CASE ~(Holds(q, a) \/ Used(queue[q]) = Slots(q))
  <2> DEFINE free == Slots(q) \ Used(queue[q])
             index == CHOOSE i \in free : \A j \in free : i <= j
             entry == [address |-> a, scheduled |-> FALSE, event |-> -age]
             entries == [queue[q] EXCEPT ![index] = entry]
  <2>1. /\ queue' = [queue EXCEPT ![q][index] = entry]
        /\ next_schedule_index' =
             [next_schedule_index EXCEPT ![q] = update_schedule_cycle(q, queue'[q])]
    BY <1>2 DEF Inserted
  <2>2. index \in free
    <3>1. Used(queue[q]) \subseteq Slots(q)
      BY DEF Used, QueueTypes
    <3>2. free \in SUBSET Nat /\ free # {}
      <4>1. Slots(q) \subseteq Nat
        BY SlotsFinite DEF Slots
      <4> QED
        BY <1>2, <3>1, <4>1
    <3>3. \E i \in free : \A j \in free : i <= j
      <4> HIDE DEF free
      <4> QED
        BY <3>2, NatLeast
    <3> QED
      BY <3>3
  <2> HIDE DEF index
  <2>3. entry \in Entry(q)
    <3>1. -age \in -SIZE[q] - MaxAge .. tRP + tRCD + tCAS
      BY SlotsFinite, TimeAssumption
    <3> QED
      BY <3>1 DEF Entry
  <2>4. queue[q] \in [Slots(q) -> Entry(q)]
        /\ Scheduled(queue[q]) \subseteq Used(queue[q])
    BY DEF QueueTypes
  <2>5. /\ entries \in [Slots(q) -> Entry(q)]
        /\ entries[index] = entry
        /\ \A i \in Slots(q) \ {index} : entries[i] = queue[q][i]
    BY <2>2, <2>3, <2>4
  <2>6. queue' = [queue EXCEPT ![q] = entries]
    BY <2>1
  <2>7. a # 0
    BY AddressAssumption
  <2> HIDE DEF entries
  <2>8. /\ Used(entries) = Used(queue[q]) \cup {index}
        /\ Scheduled(entries) = Scheduled(queue[q])
        /\ index \notin Scheduled(queue[q])
    BY <2>2, <2>4, <2>5, <2>7 DEF Used, Scheduled
  <2> QED
    BY <1>2, <2>1, <2>2, <2>5, <2>6, <2>8 DEF entries
<1> QED
  BY <1>1, <1>2

(***************************************************************************)
(* The cached index of the next request to process is a scheduled request. *)
(***************************************************************************)
LEMMA NextIsScheduled ==
  ASSUME QueueTypes, Indices, NEW q \in Queues, next_process_index[q] < SIZE[q]
  PROVE  next_process_index[q] \in Scheduled(queue[q])
<1>1. /\ queue[q] \in [Slots(q) -> Entry(q)]
      /\ Scheduled(queue[q]) \subseteq Slots(q)
  BY DEF QueueTypes, Scheduled
<1>2. next_process_index[q] = EarliestOr(queue[q], Scheduled(queue[q]), SIZE[q])
  BY DEF Indices, update_process_cycle
<1>3. Scheduled(queue[q]) # {}
  BY <1>2, SlotsFinite DEF EarliestOr
<1> QED
  BY <1>1, <1>2, <1>3, EarliestFound DEF EarliestOr

(***************************************************************************)
(* schedule() marks one request whose bank is free.                        *)
(***************************************************************************)
LEMMA ScheduledOne ==
  ASSUME QueueTypes, schedule
  PROVE  \E index \in Schedulable(Active), latency \in 0 .. tRP + tRCD + tCAS :
           LET a == queue[Active][index].address
               entries == [queue[Active] EXCEPT ![index] =
                             [address |-> a, scheduled |-> TRUE, event |-> latency]]
           IN  /\ queue' = [queue EXCEPT ![Active] = entries]
               /\ entries \in [Slots(Active) -> Entry(Active)]
               /\ Used(entries) = Used(queue[Active])
               /\ Scheduled(entries) = Scheduled(queue[Active]) \cup {index}
               /\ \A i \in Slots(Active) : entries[i].address = queue[Active][i].address
               /\ index \in Slots(Active) \ Scheduled(queue[Active])
               /\ a \in Addresses
               /\ bank_request' =
                    [bank_request EXCEPT ![BankOf(a)] =
                       [working |-> TRUE, request_index |-> index,
                        is_read |-> Active = "RQ", is_write |-> Active = "WQ",
                        open_row |-> dram_get_row(a), cycle_available |-> latency]]
<1> DEFINE q == Active
           hit == RowHits(q) # {}
           index == Earliest(queue[q], IF hit THEN RowHits(q) ELSE Schedulable(q))
           a == queue[q][index].address
           latency == IF hit THEN tCAS ELSE tRP + tRCD + tCAS
           entry == [address |-> a, scheduled |-> TRUE, event |-> latency]
           entries == [queue[q] EXCEPT ![index] = entry]
<1>1. q \in Queues
  BY DEF Active, Queues
<1>2. /\ Schedulable(q) # {}
      /\ queue' = [queue EXCEPT ![q][index].scheduled = TRUE, ![q][index].event = latency]
      /\ bank_request' =
           [bank_request EXCEPT ![BankOf(a)] =
              [working |-> TRUE, request_index |-> index,
               is_read |-> q = "RQ", is_write |-> q = "WQ",
               open_row |-> dram_get_row(a), cycle_available |-> latency]]
  BY DEF schedule
<1>3. /\ queue[q] \in [Slots(q) -> Entry(q)]
      /\ Scheduled(queue[q]) \subseteq Used(queue[q])
  BY <1>1 DEF QueueTypes
<1>4. /\ RowHits(q) \subseteq Schedulable(q)
      /\ Schedulable(q) \subseteq Slots(q)
      /\ Schedulable(q) \subseteq Used(queue[q]) \ Scheduled(queue[q])
  BY <1>3 DEF RowHits, Schedulable, Unscheduled, Used
<1>5. index \in Schedulable(q)
  <2>1. CASE hit
    BY <1>1, <1>3, <1>4, <2>1, EarliestFound
  <2>2. CASE ~hit
    BY <1>1, <1>2, <1>3, <1>4, <2>2, EarliestFound
  <2> QED
    BY <2>1, <2>2
<1>6. latency \in 0 .. tRP + tRCD + tCAS
  <2>1. tRP \in Nat /\ tRCD \in Nat /\ tCAS \in Nat
    BY TimeAssumption
  <2> QED
    BY <2>1
<1> HIDE DEF index, latency, q, hit
<1>7. queue[q][index] \in Entry(q) /\ a # 0 /\ index \in Slots(q)
  BY <1>3, <1>4, <1>5 DEF Used
<1>8. a \in Addresses
  BY <1>7 DEF Entry
<1>9. entry \in Entry(q)
  <2>1. latency \in -SIZE[q] - MaxAge .. tRP + tRCD + tCAS
    BY <1>1, <1>6, SlotsFinite, TimeAssumption
  <2> QED
    BY <1>8, <2>1 DEF Entry
<1>10. queue' = [queue EXCEPT ![q] = entries]
  <2>1. ASSUME NEW r \in Entry(q), NEW x, NEW y
        PROVE  [[r EXCEPT !.scheduled = x] EXCEPT !.event = y] =
                 [address |-> r.address, scheduled |-> x, event |-> y]
    <3> DEFINE marked == [r EXCEPT !.scheduled = x]
    <3>1. r = [address |-> r.address, scheduled |-> r.scheduled, event |-> r.event]
      BY DEF Entry
    <3>2. marked = [address |-> r.address, scheduled |-> x, event |-> r.event]
      BY <3>1
    <3> HIDE DEF marked
    <3>3. [marked EXCEPT !.event = y] =
            [address |-> r.address, scheduled |-> x, event |-> y]
      BY <3>2
    <3> QED
      BY <3>3 DEF marked
  <2>2. [queue[q][index] EXCEPT !.scheduled = TRUE, !.event = latency] = entry
    BY <1>7, <2>1
  <2>3. queue' = [queue EXCEPT ![q] =
          [queue[q] EXCEPT ![index] =
             [queue[q][index] EXCEPT !.scheduled = TRUE, !.event = latency]]]
    BY <1>1, <1>2, <1>3, <1>7 DEF QueueTypes
  <2> QED
    BY <2>2, <2>3
<1>11. /\ entries \in [Slots(q) -> Entry(q)]
       /\ entries[index] = entry
       /\ \A i \in Slots(q) \ {index} : entries[i] = queue[q][i]
  BY <1>3, <1>7, <1>9
<1> HIDE DEF entries
<1>12. /\ Used(entries) = Used(queue[q])
       /\ Scheduled(entries) = Scheduled(queue[q]) \cup {index}
       /\ \A i \in Slots(q) : entries[i].address = queue[q][i].address
  <2>1. /\ DOMAIN entries = Slots(q) /\ DOMAIN queue[q] = Slots(q)
        /\ entries[index].scheduled = TRUE /\ entries[index].address = a
    BY <1>3, <1>11
  <2> QED
    BY <1>3, <1>7, <1>11, <2>1 DEF Used, Scheduled
<1> QED
  BY <1>2, <1>4, <1>5, <1>6, <1>7, <1>8, <1>10, <1>11, <1>12 DEF q, entries

(***************************************************************************)
(* process() removes the scheduled request that is due first.              *)
(***************************************************************************)
LEMMA ProcessedOne ==
  ASSUME QueueTypes, Indices, process
  PROVE  LET index == next_process_index[Active]
             entries == [queue[Active] EXCEPT ![index] = Empty]
         IN  /\ index \in Scheduled(queue[Active]) /\ index \in Slots(Active)
             /\ queue' = [queue EXCEPT ![Active] = entries]
             /\ entries \in [Slots(Active) -> Entry(Active)]
             /\ Used(entries) = Used(queue[Active]) \ {index}
             /\ Scheduled(entries) = Scheduled(queue[Active]) \ {index}
             /\ \A i \in Slots(Active) \ {index} : entries[i] = queue[Active][i]
             /\ queue[Active][index].address \in Addresses
<1> DEFINE q == Active
           index == next_process_index[q]
           entries == [queue[q] EXCEPT ![index] = Empty]
<1>1. q \in Queues
  BY DEF Active, Queues
<1>2. index < SIZE[q] /\ queue' = [queue EXCEPT ![q] = [queue[q] EXCEPT ![index] = Empty]]
  BY <1>1 DEF process, DataReady, MayProcess, QueueTypes
<1>3. /\ queue[q] \in [Slots(q) -> Entry(q)]
      /\ Scheduled(queue[q]) \subseteq Used(queue[q])
  BY <1>1 DEF QueueTypes
<1>4. index \in Scheduled(queue[q])
  BY <1>1, <1>2, NextIsScheduled
<1> HIDE DEF index, q
<1>5. index \in Slots(q) /\ queue[q][index].address \in Addresses
  BY <1>3, <1>4 DEF Scheduled, Used, Entry
<1>6. Empty \in Entry(q)
  <2>1. 0 \in -SIZE[q] - MaxAge .. tRP + tRCD + tCAS
    BY <1>1, SlotsFinite, TimeAssumption
  <2> QED
    BY <2>1 DEF Empty, Entry
<1>7. /\ entries \in [Slots(q) -> Entry(q)]
      /\ entries[index] = Empty
      /\ \A i \in Slots(q) \ {index} : entries[i] = queue[q][i]
  BY <1>3, <1>5, <1>6
<1>8. entries[index].address = 0 /\ entries[index].scheduled = FALSE
  BY <1>7 DEF Empty
<1> HIDE DEF entries
<1>9. /\ Used(entries) = Used(queue[q]) \ {index}
      /\ Scheduled(entries) = Scheduled(queue[q]) \ {index}
  <2>1. DOMAIN entries = Slots(q) /\ DOMAIN queue[q] = Slots(q)
    BY <1>3, <1>7
  <2> QED
    BY <1>5, <1>7, <1>8, <2>1 DEF Used, Scheduled
<1> QED
  BY <1>2, <1>4, <1>5, <1>7, <1>9 DEF q, index, entries

(***************************************************************************)
(* A switch leaves no scheduled request in the queue it turns away from.   *)
(***************************************************************************)
LEMMA WithdrawnAll ==
  ASSUME QueueTypes, NEW q \in Queues
  PROVE  LET entries == Withdrawn(queue[q])
         IN  /\ entries \in [Slots(q) -> Entry(q)]
             /\ Used(entries) = Used(queue[q])
             /\ Scheduled(entries) = {}
             /\ \A i \in Slots(q) : entries[i].address = queue[q][i].address
<1> DEFINE entries == Withdrawn(queue[q])
<1>1. queue[q] \in [Slots(q) -> Entry(q)]
  BY DEF QueueTypes
<1>2. 0 \in -SIZE[q] - MaxAge .. tRP + tRCD + tCAS
  BY SlotsFinite, TimeAssumption
<1>3. ASSUME NEW i \in Slots(q)
      PROVE  /\ entries[i] \in Entry(q)
             /\ entries[i].scheduled = FALSE
             /\ entries[i].address = queue[q][i].address
  <2>1. queue[q][i] \in Entry(q)
    BY <1>1
  <2>2. entries[i] = IF queue[q][i].scheduled
                     THEN [queue[q][i] EXCEPT !.scheduled = FALSE, !.event = 0]
                     ELSE queue[q][i]
    BY <1>1 DEF Withdrawn
  <2> QED
    BY <1>2, <2>1, <2>2 DEF Entry
<1>4. entries \in [Slots(q) -> Entry(q)]
  BY <1>1, <1>3 DEF Withdrawn
<1> HIDE DEF entries
<1>5. Used(entries) = Used(queue[q]) /\ Scheduled(entries) = {}
  BY <1>1, <1>3, <1>4 DEF Used, Scheduled
<1> QED
  BY <1>3, <1>4, <1>5 DEF entries

(***************************************************************************)
(* A cycle changes nothing about the requests but their times.             *)
(***************************************************************************)
LEMMA AgedAll ==
  ASSUME QueueTypes, NEW q \in Queues
  PROVE  LET entries == Aged(queue[q])
         IN  /\ entries \in [Slots(q) -> Entry(q)]
             /\ Used(entries) = Used(queue[q])
             /\ Scheduled(entries) = Scheduled(queue[q])
             /\ \A i \in Slots(q) : entries[i].address = queue[q][i].address
             /\ update_schedule_cycle(q, entries) = update_schedule_cycle(q, queue[q])
             /\ update_process_cycle(q, entries) = update_process_cycle(q, queue[q])
<1> DEFINE entries == Aged(queue[q])
<1>1. /\ queue[q] \in [Slots(q) -> Entry(q)]
      /\ Scheduled(queue[q]) \subseteq Used(queue[q])
  BY DEF QueueTypes
<1>2. /\ entries \in [Slots(q) -> Entry(q)]
      /\ \A i \in Slots(q) : /\ entries[i].address = queue[q][i].address
                             /\ entries[i].scheduled = queue[q][i].scheduled
  BY <1>1, AgedKeepsOrder
<1>3. \A i, j \in Used(queue[q]) :
        queue[q][i].scheduled = queue[q][j].scheduled =>
          /\ queue[q][i].event < queue[q][j].event <=> entries[i].event < entries[j].event
          /\ queue[q][i].event = queue[q][j].event <=> entries[i].event = entries[j].event
  BY <1>1, AgedKeepsOrder
<1> HIDE DEF entries
<1>4. Used(entries) = Used(queue[q]) /\ Scheduled(entries) = Scheduled(queue[q])
  BY <1>1, <1>2 DEF Used, Scheduled
<1>5. Unscheduled(entries) = Unscheduled(queue[q])
  BY <1>4 DEF Unscheduled
<1>6. \A i, j \in Unscheduled(queue[q]) :
        /\ i \in Used(queue[q]) /\ j \in Used(queue[q])
        /\ queue[q][i].scheduled = queue[q][j].scheduled
  BY <1>1 DEF Unscheduled, Scheduled, Used, Entry
<1>7. \A i, j \in Scheduled(queue[q]) :
        /\ i \in Used(queue[q]) /\ j \in Used(queue[q])
        /\ queue[q][i].scheduled = queue[q][j].scheduled
  BY <1>1 DEF Scheduled, Used, Entry
<1>8. Earliest(entries, Unscheduled(queue[q])) = Earliest(queue[q], Unscheduled(queue[q]))
  BY <1>3, <1>6, EarliestSame
<1>9. Earliest(entries, Scheduled(queue[q])) = Earliest(queue[q], Scheduled(queue[q]))
  BY <1>3, <1>7, EarliestSame
<1> QED
  BY <1>2, <1>4, <1>5, <1>8, <1>9
     DEF update_schedule_cycle, update_process_cycle, EarliestOr, entries

-----------------------------------------------------------------------------
\* Every step preserves every part of the invariant.

(***************************************************************************)
(* The requests keep their type, and only used slots are scheduled.        *)
(***************************************************************************)
LEMMA QueueTypesStep ==
  ASSUME IInv, [Next]_vars
  PROVE  QueueTypes'
<1> USE DEF IInv
<1>1. CASE UNCHANGED queue
  BY <1>1 DEF QueueTypes
<1>2. ASSUME NEW q \in Queues, NEW a \in Addresses, NEW age \in 0 .. MaxAge,
             Inserted(q, a, age)
      PROVE  QueueTypes'
  <2>1. CASE UNCHANGED queue
    BY <2>1, <1>1
  <2>2. CASE ~UNCHANGED queue
    <3>1. PICK index \in Slots(q) \ Used(queue[q]) :
            LET entry == [address |-> a, scheduled |-> FALSE, event |-> -age]
                entries == [queue[q] EXCEPT ![index] = entry]
            IN  /\ queue' = [queue EXCEPT ![q] = entries]
                /\ entries \in [Slots(q) -> Entry(q)]
                /\ Used(entries) = Used(queue[q]) \cup {index}
                /\ Scheduled(entries) = Scheduled(queue[q])
                /\ index \notin Scheduled(queue[q])
      <4>1. ~UNCHANGED <<queue, next_schedule_index>>
        BY <2>2
      <4> QED
        BY <1>2, <4>1, InsertedOne
    <3>2. Scheduled(queue[q]) \subseteq Used(queue[q])
      BY DEF QueueTypes
    <3> QED
      BY <3>1, <3>2, Replaced
  <2> QED
    BY <2>1, <2>2
<1>3. ASSUME NEW q \in Queues, reset_remain_requests(q)
      PROVE  QueueTypes'
  <2>1. queue' = [queue EXCEPT ![q] = Withdrawn(queue[q])]
    BY <1>3 DEF reset_remain_requests, QueueTypes
  <2> QED
    BY <2>1, WithdrawnAll, Replaced
<1>4. Active \in Queues
  BY DEF Active, Queues
<1>5. CASE schedule
  <2>1. Scheduled(queue[Active]) \subseteq Used(queue[Active])
    BY <1>4 DEF QueueTypes
  <2>2. Schedulable(Active) \subseteq Used(queue[Active])
    BY DEF Schedulable, Unscheduled
  <2>3. PICK entries \in [Slots(Active) -> Entry(Active)] :
          /\ queue' = [queue EXCEPT ![Active] = entries]
          /\ Scheduled(entries) \subseteq Used(entries)
    BY <1>5, <2>1, <2>2, ScheduledOne
  <2> QED
    BY <1>4, <2>3, Replaced
<1>6. CASE process
  <2>1. Scheduled(queue[Active]) \subseteq Used(queue[Active])
    BY <1>4 DEF QueueTypes
  <2> DEFINE entries == [queue[Active] EXCEPT ![next_process_index[Active]] = Empty]
  <2>2. /\ queue' = [queue EXCEPT ![Active] = entries]
        /\ entries \in [Slots(Active) -> Entry(Active)]
        /\ Scheduled(entries) \subseteq Used(entries)
    BY <1>6, <2>1, ProcessedOne
  <2> HIDE DEF entries
  <2> QED
    BY <1>4, <2>2, Replaced
<1>7. CASE Tick
  <2>1. queue' = [q \in Queues |-> Aged(queue[q])]
    BY <1>7 DEF Tick
  <2>2. \A q \in Queues : /\ queue'[q] \in [Slots(q) -> Entry(q)]
                          /\ Scheduled(queue'[q]) \subseteq Used(queue'[q])
    BY <2>1, AgedAll DEF QueueTypes
  <2> QED
    BY <2>1, <2>2 DEF QueueTypes
<1>8. "RQ" \in Queues /\ "WQ" \in Queues
  BY DEF Queues
<1> QED
  BY <1>1, <1>2, <1>3, <1>5, <1>6, <1>7, <1>8
     DEF Next, vars, add_rq, add_rqForwarded, add_wq, Arrived, SwitchMode, KeepMode,
         NothingToSchedule, BusBusy, NothingToProcess

(***************************************************************************)
(* The cached indices are those of a new search.                           *)
(***************************************************************************)
LEMMA IndicesStep ==
  ASSUME IInv, [Next]_vars
  PROVE  Indices'
<1> USE DEF IInv
<1>1. CASE UNCHANGED <<queue, next_schedule_index, next_process_index>>
  BY <1>1 DEF Indices
<1>2. ASSUME NEW q \in Queues, NEW a \in Addresses, NEW age \in 0 .. MaxAge,
             Inserted(q, a, age), UNCHANGED next_process_index
      PROVE  Indices'
  <2>1. CASE UNCHANGED <<queue, next_schedule_index>>
    BY <1>2, <2>1, <1>1
  <2>2. CASE ~UNCHANGED <<queue, next_schedule_index>>
    <3>1. PICK index \in Slots(q) \ Used(queue[q]) :
            LET entry == [address |-> a, scheduled |-> FALSE, event |-> -age]
                entries == [queue[q] EXCEPT ![index] = entry]
            IN  /\ queue' = [queue EXCEPT ![q] = entries]
                /\ entries \in [Slots(q) -> Entry(q)]
                /\ Scheduled(entries) = Scheduled(queue[q])
                /\ index \notin Scheduled(queue[q])
                /\ next_schedule_index' =
                     [next_schedule_index EXCEPT ![q] = update_schedule_cycle(q, queue'[q])]
      BY <1>2, <2>2, InsertedOne
    <3> DEFINE entries == queue'[q]
    <3>2. /\ queue[q] \in [Slots(q) -> Entry(q)]
          /\ queue = [p \in Queues |-> queue[p]]
      BY DEF QueueTypes
    <3>3. /\ Scheduled(entries) = Scheduled(queue[q])
          /\ \A i \in Scheduled(queue[q]) : entries[i] = queue[q][i]
          /\ \A p \in Queues \ {q} : queue'[p] = queue[p]
      BY <3>1, <3>2 DEF Scheduled
    <3> HIDE DEF entries
    <3>4. Earliest(entries, Scheduled(queue[q])) = Earliest(queue[q], Scheduled(queue[q]))
      BY <3>3, EarliestSame
    <3>5. update_process_cycle(q, entries) = update_process_cycle(q, queue[q])
      BY <3>3, <3>4 DEF update_process_cycle, EarliestOr
    <3>6. next_schedule_index' = [p \in Queues |-> update_schedule_cycle(p, queue'[p])]
      <4>1. next_schedule_index' =
              [next_schedule_index EXCEPT ![q] = update_schedule_cycle(q, queue'[q])]
        BY <3>1
      <4>2. \A p \in Queues \ {q} :
              update_schedule_cycle(p, queue'[p]) = update_schedule_cycle(p, queue[p])
        BY <3>3
      <4> QED
        BY <4>1, <4>2 DEF Indices
    <3>7. next_process_index' = [p \in Queues |-> update_process_cycle(p, queue'[p])]
      <4>1. \A p \in Queues :
              update_process_cycle(p, queue'[p]) = update_process_cycle(p, queue[p])
        BY <3>3, <3>5 DEF entries
      <4> QED
        BY <1>2, <4>1 DEF Indices
    <3> QED
      BY <3>6, <3>7 DEF Indices
  <2> QED
    BY <2>1, <2>2
<1>3. ASSUME NEW q \in Queues, reset_remain_requests(q)
      PROVE  Indices'
  BY <1>3 DEF reset_remain_requests, Indices
<1>4. Active \in Queues
  BY DEF Active, Queues
<1>5. CASE schedule
  <2>1. /\ next_schedule_index' =
             [next_schedule_index EXCEPT ![Active] = update_schedule_cycle(Active, queue'[Active])]
        /\ next_process_index' =
             [next_process_index EXCEPT ![Active] = update_process_cycle(Active, queue'[Active])]
    BY <1>5 DEF schedule
  <2>2. \A p \in Queues \ {Active} : queue'[p] = queue[p]
    <3>1. \E entries : queue' = [queue EXCEPT ![Active] = entries]
      BY <1>5, ScheduledOne
    <3> QED
      BY <3>1 DEF QueueTypes
  <2> QED
    BY <1>4, <2>1, <2>2 DEF Indices
<1>6. CASE process
  <2> DEFINE q == Active
             index == next_process_index[q]
             entries == [queue[q] EXCEPT ![index] = Empty]
  <2>1. /\ index \in Scheduled(queue[q])
        /\ queue' = [queue EXCEPT ![q] = entries]
        /\ entries \in [Slots(q) -> Entry(q)]
        /\ Used(entries) = Used(queue[q]) \ {index}
        /\ Scheduled(entries) = Scheduled(queue[q]) \ {index}
        /\ \A i \in Slots(q) \ {index} : entries[i] = queue[q][i]
    BY <1>6, ProcessedOne
  <2>2. /\ next_schedule_index' = next_schedule_index
        /\ next_process_index' =
             [next_process_index EXCEPT ![q] = update_process_cycle(q, queue'[q])]
    BY <1>6 DEF process
  <2>3. queue[q] \in [Slots(q) -> Entry(q)] /\ queue = [p \in Queues |-> queue[p]]
    BY <1>4 DEF QueueTypes
  <2> HIDE DEF q, index, entries
  <2>4. /\ queue'[q] = entries
        /\ \A p \in Queues \ {q} : queue'[p] = queue[p]
    BY <1>4, <2>1, <2>3 DEF q
  <2>5. /\ Unscheduled(entries) = Unscheduled(queue[q])
        /\ \A i \in Unscheduled(queue[q]) : entries[i] = queue[q][i]
    BY <2>1, <2>3 DEF Unscheduled, Used
  <2>6. Earliest(entries, Unscheduled(queue[q])) = Earliest(queue[q], Unscheduled(queue[q]))
    BY <2>5, EarliestSame
  <2>7. update_schedule_cycle(q, entries) = update_schedule_cycle(q, queue[q])
    BY <2>5, <2>6 DEF update_schedule_cycle, EarliestOr
  <2> QED
    BY <1>4, <2>2, <2>4, <2>7 DEF Indices, q
<1>7. CASE Tick
  <2>1. /\ queue' = [q \in Queues |-> Aged(queue[q])]
        /\ UNCHANGED <<next_schedule_index, next_process_index>>
    BY <1>7 DEF Tick
  <2>2. \A q \in Queues :
          /\ update_schedule_cycle(q, queue'[q]) = update_schedule_cycle(q, queue[q])
          /\ update_process_cycle(q, queue'[q]) = update_process_cycle(q, queue[q])
    BY <2>1, AgedAll
  <2> QED
    BY <2>1, <2>2 DEF Indices
<1>8. "RQ" \in Queues /\ "WQ" \in Queues
  BY DEF Queues
<1> QED
  BY <1>1, <1>2, <1>3, <1>5, <1>6, <1>7, <1>8
     DEF Next, vars, add_rq, add_rqForwarded, add_wq, Arrived, SwitchMode, KeepMode,
         NothingToSchedule, BusBusy, NothingToProcess

(***************************************************************************)
(* Addresses of queued requests can be decoded.                            *)
(***************************************************************************)
LEMMA QueuedAddress ==
  ASSUME QueueTypes, NEW q \in Queues
  PROVE  /\ Used(queue[q]) \subseteq Slots(q)
         /\ Scheduled(queue[q]) \subseteq Used(queue[q])
         /\ \A i \in Used(queue[q]) :
              /\ queue[q][i].address \in Addresses
              /\ BankOf(queue[q][i].address) \in Banks
              /\ dram_get_row(queue[q][i].address) \in 0 .. DRAM_ROWS - 1
<1>1. /\ queue[q] \in [Slots(q) -> Entry(q)]
      /\ Scheduled(queue[q]) \subseteq Used(queue[q])
  BY DEF QueueTypes
<1>2. \A i \in Used(queue[q]) : i \in Slots(q) /\ queue[q][i].address \in Addresses
  BY <1>1 DEF Used, Entry
<1> QED
  BY <1>1, <1>2, Decoding

(***************************************************************************)
(* The banks keep their type.                                              *)
(***************************************************************************)
LEMMA BankTypesStep ==
  ASSUME IInv, [Next]_vars
  PROVE  BankTypes'
<1> USE DEF IInv
<1>1. CASE UNCHANGED bank_request
  BY <1>1 DEF BankTypes
<1>2. Active \in Queues
  BY DEF Active, Queues
<1>3. ASSUME NEW bank \in BankType, NEW row \in {NoRow} \cup 0 .. DRAM_ROWS - 1,
             NEW cycle \in Nat
      PROVE  /\ [bank EXCEPT !.cycle_available = cycle] \in BankType
             /\ Idle(bank) \in BankType
             /\ [Idle(bank) EXCEPT !.cycle_available = cycle, !.open_row = row] \in BankType
  <2>1. Idle(bank) \in BankType
    BY DEF Idle, BankType
  <2> QED
    BY <2>1 DEF BankType
<1>4. ASSUME NEW q \in Queues, reset_remain_requests(q)
      PROVE  BankTypes'
  <2> DEFINE banks == {BankOf(queue[q][i].address) : i \in Scheduled(queue[q])}
             row(b) == IF bank_request[b].cycle_available - tCAS <= 0
                       THEN dram_get_row(RequestOn(q, b).address) ELSE NoRow
             freed(b) == [Idle(bank_request[b]) EXCEPT !.cycle_available = 0,
                                                       !.open_row = row(b)]
  <2>1. bank_request' = [b \in Banks |-> IF b \in banks THEN freed(b) ELSE bank_request[b]]
    BY <1>4 DEF reset_remain_requests
  <2>2. ASSUME NEW b \in banks
        PROVE  row(b) \in {NoRow} \cup 0 .. DRAM_ROWS - 1
    <3> DEFINE i == CHOOSE i \in Scheduled(queue[q]) : BankOf(queue[q][i].address) = b
    <3>1. i \in Scheduled(queue[q])
      BY <2>2
    <3>2. RequestOn(q, b) = queue[q][i]
      BY DEF RequestOn
    <3> HIDE DEF i
    <3> QED
      BY <3>1, <3>2, QueuedAddress
  <2> HIDE DEF row
  <2>3. ASSUME NEW b \in banks, b \in Banks
        PROVE  freed(b) \in BankType
    BY <1>3, <2>2, <2>3 DEF BankTypes
  <2> HIDE DEF freed, banks
  <2> QED
    BY <2>1, <2>3 DEF BankTypes
<1>5. CASE schedule
  <2>1. PICK index \in Schedulable(Active), latency \in 0 .. tRP + tRCD + tCAS :
          LET a == queue[Active][index].address
          IN  /\ a \in Addresses
              /\ bank_request' =
                   [bank_request EXCEPT ![BankOf(a)] =
                      [working |-> TRUE, request_index |-> index,
                       is_read |-> Active = "RQ", is_write |-> Active = "WQ",
                       open_row |-> dram_get_row(a), cycle_available |-> latency]]
    <3> DEFINE a(index) == queue[Active][index].address
               bank(index, latency) ==
                 [working |-> TRUE, request_index |-> index,
                  is_read |-> Active = "RQ", is_write |-> Active = "WQ",
                  open_row |-> dram_get_row(a(index)), cycle_available |-> latency]
    <3> QED
      BY <1>5, ScheduledOne
  <2> DEFINE a == queue[Active][index].address
             bank == [working |-> TRUE, request_index |-> index,
                      is_read |-> Active = "RQ", is_write |-> Active = "WQ",
                      open_row |-> dram_get_row(a), cycle_available |-> latency]
  <2>2. index \in Slots("RQ") \cup Slots("WQ")
    <3>1. index \in Slots(Active)
      BY <1>2, QueuedAddress DEF Schedulable, Unscheduled
    <3> QED
      BY <1>2, <3>1 DEF Queues
  <2>3. BankOf(a) \in Banks /\ dram_get_row(a) \in 0 .. DRAM_ROWS - 1
    BY <2>1, Decoding
  <2>4. latency \in Nat
    <3>1. tRP + tRCD + tCAS \in Nat
      BY TimeAssumption
    <3> QED
      BY <3>1
  <2>5. bank \in BankType
    BY <2>2, <2>3, <2>4 DEF BankType
  <2>6. bank_request' = [bank_request EXCEPT ![BankOf(a)] = bank]
    BY <2>1
  <2> HIDE DEF a, bank
  <2> QED
    BY <2>5, <2>6 DEF BankTypes
<1>6. CASE process
  <2>1. bank_request' = [bank_request EXCEPT ![BankIn(Active)] = Idle(@)]
    BY <1>6 DEF process
  <2>2. 0 \in Nat /\ NoRow \in {NoRow} \cup 0 .. DRAM_ROWS - 1
    OBVIOUS
  <2>3. \A b \in Banks : Idle(bank_request[b]) \in BankType
    BY <1>3, <2>2 DEF BankTypes
  <2> QED
    BY <2>1, <2>3 DEF BankTypes
<1>7. CASE BusBusy
  <2>1. /\ bank_request' = [bank_request EXCEPT ![BankIn(Active)] =
                              [bank_request[BankIn(Active)] EXCEPT
                                 !.cycle_available = dbus_cycle_available]]
        /\ dbus_cycle_available \in Nat
    BY <1>7 DEF BusBusy, OtherTypes, BankTypes
  <2>2. \A b \in Banks :
          [bank_request[b] EXCEPT !.cycle_available = dbus_cycle_available] \in BankType
    BY <1>3, <2>1 DEF BankTypes
  <2> QED
    BY <2>1, <2>2 DEF BankTypes
<1>8. CASE Tick
  <2> DEFINE cycle(b) == IF bank_request[b].cycle_available > 0
                         THEN bank_request[b].cycle_available - 1 ELSE 0
  <2>1. bank_request' =
          [b \in Banks |-> [bank_request[b] EXCEPT !.cycle_available = cycle(b)]]
    BY <1>8 DEF Tick
  <2>2. ASSUME NEW b \in Banks
        PROVE  cycle(b) \in Nat /\ bank_request[b] \in BankType
    BY DEF BankTypes, BankType
  <2> HIDE DEF cycle
  <2>3. \A b \in Banks : [bank_request[b] EXCEPT !.cycle_available = cycle(b)] \in BankType
    BY <1>3, <2>2
  <2> QED
    BY <2>1, <2>3 DEF BankTypes
<1>9. "RQ" \in Queues /\ "WQ" \in Queues
  BY DEF Queues
<1> QED
  BY <1>1, <1>4, <1>5, <1>6, <1>7, <1>8, <1>9
     DEF Next, vars, add_rq, add_rqForwarded, add_wq, Arrived, SwitchMode, KeepMode,
         NothingToSchedule, NothingToProcess

(***************************************************************************)
(* The mode, the data bus, the phase and the LLC's misses keep their type. *)
(***************************************************************************)
LEMMA OtherTypesStep ==
  ASSUME IInv, [Next]_vars
  PROVE  OtherTypes'
<1> USE DEF IInv
<1>1. DRAM_DBUS_RETURN_TIME \in Nat /\ DRAM_DBUS_TURN_AROUND_TIME \in Nat /\ Window \in Nat
  BY TimeAssumption
<1>2. ASSUME NEW S \in SUBSET Addresses, DOMAIN waiting' = S,
             \A b \in S : waiting'[b] = 0 \/ (b \in DOMAIN waiting /\ waiting'[b] = waiting[b] + 1),
             Accepting, UNCHANGED <<write_mode, dbus_cycle_available, phase>>
      PROVE  OtherTypes'
  <2>1. \A a \in DOMAIN waiting : waiting[a] \in 0 .. Window /\ waiting[a] < Window
    BY <1>2 DEF OtherTypes, Accepting
  <2>2. \A a \in S : waiting'[a] \in 0 .. Window
    BY <1>1, <1>2, <2>1
  <2> QED
    BY <1>2, <2>2 DEF OtherTypes
<1>3. ASSUME NEW a \in Addresses, NEW age, add_rq(a, age)
      PROVE  OtherTypes'
  <2>1. /\ waiting' = [b \in DOMAIN waiting \cup {a} |-> IF b = a THEN 0 ELSE Overtaken[b]]
        /\ Accepting /\ UNCHANGED <<write_mode, dbus_cycle_available, phase>>
    BY <1>3 DEF add_rq
  <2> DEFINE S == DOMAIN waiting \cup {a}
  <2>2. S \in SUBSET Addresses /\ DOMAIN waiting' = S
    BY <2>1 DEF OtherTypes
  <2>3. \A b \in S : waiting'[b] = 0 \/ (b \in DOMAIN waiting /\ waiting'[b] = waiting[b] + 1)
    <3>1. \A b \in DOMAIN waiting : Overtaken[b] = waiting[b] + 1
      BY DEF Overtaken
    <3>2. \A b \in S : waiting'[b] = IF b = a THEN 0 ELSE Overtaken[b]
      BY <2>1
    <3> QED
      BY <3>1, <3>2
  <2> HIDE DEF S
  <2> QED
    BY <1>2, <2>1, <2>2, <2>3
<1>4. ASSUME waiting' = Overtaken, Accepting,
             UNCHANGED <<write_mode, dbus_cycle_available, phase>>
      PROVE  OtherTypes'
  <2>1. DOMAIN waiting \in SUBSET Addresses /\ DOMAIN waiting' = DOMAIN waiting
    BY <1>4 DEF OtherTypes, Overtaken
  <2>2. \A b \in DOMAIN waiting : waiting'[b] = waiting[b] + 1
    BY <1>4 DEF Overtaken
  <2> QED
    BY <1>2, <1>4, <2>1, <2>2
<1>5. CASE process
  <2> DEFINE a == queue[Active][next_process_index[Active]].address
  <2>1. \/ waiting' = waiting
        \/ waiting' = [b \in DOMAIN waiting \ {a} |-> waiting[b]]
    BY <1>5 DEF process
  <2> HIDE DEF a
  <2>2. DOMAIN waiting' \subseteq DOMAIN waiting /\ \A b \in DOMAIN waiting' : waiting'[b] = waiting[b]
    BY <2>1
  <2>3. /\ phase' = "tick" /\ dbus_cycle_available' = DRAM_DBUS_RETURN_TIME
        /\ write_mode' = write_mode
    BY <1>5 DEF process
  <2> QED
    BY <1>1, <2>2, <2>3 DEF OtherTypes
<1>6. CASE UNCHANGED <<write_mode, dbus_cycle_available, waiting>>
           /\ phase' \in {phase, "mode", "schedule", "process", "tick"}
  BY <1>6 DEF OtherTypes
<1>7. CASE SwitchMode
  <2>1. /\ write_mode' \in BOOLEAN /\ phase' = "schedule" /\ waiting' = waiting
        /\ dbus_cycle_available' = dbus_cycle_available + DRAM_DBUS_TURN_AROUND_TIME
    BY <1>7 DEF SwitchMode
  <2>2. /\ dbus_cycle_available' \in Int
        /\ dbus_cycle_available' >= -DRAM_DBUS_TURN_AROUND_TIME
    BY <1>1, <2>1 DEF OtherTypes
  <2> QED
    BY <2>1, <2>2 DEF OtherTypes
<1>8. CASE Tick
  BY <1>1, <1>8 DEF Tick, OtherTypes
<1>9. ASSUME NEW a \in Addresses, NEW age \in 0 .. MaxAge,
             add_wq(a, age) \/ add_rqForwarded(a)
      PROVE  OtherTypes'
  BY <1>4, <1>9 DEF add_wq, add_rqForwarded
<1>10. 0 \in 0 .. MaxAge
  BY TimeAssumption
<1> QED
  BY <1>3, <1>5, <1>6, <1>7, <1>8, <1>9, <1>10
     DEF Next, vars, Arrived, KeepMode, schedule, NothingToSchedule, BusBusy,
         NothingToProcess

(***************************************************************************)
(* The counters count the scheduled requests.  At a switch every bank of   *)
(* a scheduled request counts down once, because requests that are         *)
(* scheduled have different banks.                                         *)
(***************************************************************************)
LEMMA CountersStep ==
  ASSUME IInv, [Next]_vars
  PROVE  Counters'
<1> USE DEF IInv
<1>1. CASE UNCHANGED <<queue, scheduled_requests>>
  BY <1>1 DEF Counters
<1>2. ASSUME NEW q \in Queues, NEW entries, queue' = [queue EXCEPT ![q] = entries],
             scheduled_requests' = [scheduled_requests EXCEPT
                                      ![q] = Cardinality(Scheduled(entries))]
      PROVE  Counters'
  <2>1. /\ queue'[q] = entries
        /\ \A p \in Queues \ {q} : queue'[p] = queue[p]
    BY <1>2 DEF QueueTypes
  <2>2. \A p \in Queues \ {q} :
          Cardinality(Scheduled(queue'[p])) = Cardinality(Scheduled(queue[p]))
    BY <2>1
  <2>3. Cardinality(Scheduled(queue'[q])) = Cardinality(Scheduled(entries))
    BY <2>1
  <2> QED
    BY <1>2, <2>2, <2>3 DEF Counters
<1>3. Active \in Queues
  BY DEF Active, Queues
<1>4. \A q \in Queues : /\ IsFiniteSet(Scheduled(queue[q]))
                        /\ Cardinality(Scheduled(queue[q])) \in Nat
                        /\ scheduled_requests[q] = Cardinality(Scheduled(queue[q]))
  <2>1. ASSUME NEW q \in Queues
        PROVE  IsFiniteSet(Scheduled(queue[q])) /\ Cardinality(Scheduled(queue[q])) \in Nat
    <3>1. Scheduled(queue[q]) \in SUBSET Slots(q)
      BY QueuedAddress
    <3>2. IsFiniteSet(Scheduled(queue[q]))
      BY <3>1, SlotsFinite
    <3> QED
      BY <3>2, FS_CardinalityType
  <2> QED
    BY <2>1 DEF Counters
<1>5. ASSUME NEW q \in Queues, NEW a \in Addresses, NEW age \in 0 .. MaxAge,
             Inserted(q, a, age), UNCHANGED scheduled_requests
      PROVE  Counters'
  <2>1. CASE UNCHANGED <<queue, next_schedule_index>>
    BY <1>1, <1>5, <2>1
  <2>2. CASE ~UNCHANGED <<queue, next_schedule_index>>
    <3>1. PICK index \in Slots(q) \ Used(queue[q]) :
            LET entry == [address |-> a, scheduled |-> FALSE, event |-> -age]
                entries == [queue[q] EXCEPT ![index] = entry]
            IN  /\ queue' = [queue EXCEPT ![q] = entries]
                /\ entries \in [Slots(q) -> Entry(q)]
                /\ Used(entries) = Used(queue[q]) \cup {index}
                /\ Scheduled(entries) = Scheduled(queue[q])
                /\ index \notin Scheduled(queue[q])
      BY <1>5, <2>2, InsertedOne
    <3>2. PICK entries : /\ queue' = [queue EXCEPT ![q] = entries]
                         /\ Scheduled(entries) = Scheduled(queue[q])
      BY <3>1
    <3>3. scheduled_requests' = [scheduled_requests EXCEPT
                                   ![q] = Cardinality(Scheduled(entries))]
      BY <1>4, <1>5, <3>2 DEF Counters
    <3> QED
      BY <1>2, <3>2, <3>3
  <2> QED
    BY <2>1, <2>2
<1>6. ASSUME NEW q \in Queues, reset_remain_requests(q), q = Active
      PROVE  Counters'
  <2> DEFINE banks == {BankOf(queue[q][i].address) : i \in Scheduled(queue[q])}
             entries == Withdrawn(queue[q])
             bankOf == [i \in Scheduled(queue[q]) |-> BankOf(queue[q][i].address)]
  <2>1. /\ queue' = [queue EXCEPT ![q] = entries]
        /\ scheduled_requests' =
             [scheduled_requests EXCEPT
                !["WQ"] = @ - Cardinality({b \in banks : bank_request[b].is_write}),
                !["RQ"] = @ - Cardinality({b \in banks : /\ bank_request[b].is_read
                                                         /\ ~bank_request[b].is_write})]
    BY <1>6 DEF reset_remain_requests, QueueTypes
  <2>2. Cardinality(Scheduled(entries)) = 0
    BY WithdrawnAll, FS_EmptySet
  <2>3. \A i \in Scheduled(queue[q]) :
          /\ bank_request[BankOf(queue[q][i].address)].request_index = i
          /\ bank_request[BankOf(queue[q][i].address)].is_read = (q = "RQ")
          /\ bank_request[BankOf(queue[q][i].address)].is_write = (q = "WQ")
    BY DEF Reservations, Reserved
  <2>4. Cardinality(banks) = scheduled_requests[q]
    <3>1. banks = {bankOf[i] : i \in Scheduled(queue[q])}
      OBVIOUS
    <3>2. \A i, j \in Scheduled(queue[q]) : bankOf[i] = bankOf[j] => i = j
      BY <2>3
    <3>3. bankOf = [i \in Scheduled(queue[q]) |-> bankOf[i]]
      OBVIOUS
    <3> HIDE DEF bankOf, banks
    <3>4. Cardinality({bankOf[i] : i \in Scheduled(queue[q])}) = Cardinality(Scheduled(queue[q]))
      BY <1>4, <3>2, <3>3, ImageSize
    <3> QED
      BY <1>4, <3>1, <3>4
  <2>5. \A b \in banks : /\ bank_request[b].is_read = (q = "RQ")
                         /\ bank_request[b].is_write = (q = "WQ")
    BY <2>3
  <2>6. scheduled_requests' = [scheduled_requests EXCEPT ![q] = 0]
    <3>1. scheduled_requests[q] - scheduled_requests[q] = 0
      BY <1>4
    <3>2. \A p \in Queues : scheduled_requests[p] - 0 = scheduled_requests[p]
      BY <1>4
    <3> HIDE DEF banks
    <3>3. CASE q = "RQ"
      <4>1. {b \in banks : bank_request[b].is_write} = {}
        BY <2>5, <3>3
      <4>2. {b \in banks : bank_request[b].is_read /\ ~bank_request[b].is_write} = banks
        BY <2>5, <3>3
      <4>3. scheduled_requests' =
              [scheduled_requests EXCEPT !["WQ"] = @ - 0, !["RQ"] = @ - scheduled_requests["RQ"]]
        BY <2>1, <2>4, <3>3, <4>1, <4>2, FS_EmptySet
      <4>4. DOMAIN scheduled_requests = Queues /\ Queues = {"RQ", "WQ"}
        BY DEF Counters, Queues
      <4> QED
        BY <3>1, <3>2, <3>3, <4>3, <4>4 DEF Counters
    <3>4. CASE q = "WQ"
      <4>1. {b \in banks : bank_request[b].is_write} = banks
        BY <2>5, <3>4
      <4>2. {b \in banks : bank_request[b].is_read /\ ~bank_request[b].is_write} = {}
        BY <2>5, <3>4
      <4>3. scheduled_requests' =
              [scheduled_requests EXCEPT !["WQ"] = @ - scheduled_requests["WQ"], !["RQ"] = @ - 0]
        BY <2>1, <2>4, <3>4, <4>1, <4>2, FS_EmptySet
      <4>4. DOMAIN scheduled_requests = Queues /\ Queues = {"RQ", "WQ"}
        BY DEF Counters, Queues
      <4> QED
        BY <3>1, <3>2, <3>4, <4>3, <4>4, ZenonT(60) DEF Counters
    <3> QED
      BY <1>6, <3>3, <3>4 DEF Queues
  <2> HIDE DEF banks, entries
  <2> QED
    BY <1>2, <2>1, <2>2, <2>6
<1>7. CASE schedule
  <2>1. PICK index, entries :
          /\ queue' = [queue EXCEPT ![Active] = entries]
          /\ Scheduled(entries) = Scheduled(queue[Active]) \cup {index}
          /\ index \notin Scheduled(queue[Active])
    BY <1>7, ScheduledOne
  <2>2. Cardinality(Scheduled(entries)) = Cardinality(Scheduled(queue[Active])) + 1
    BY <1>3, <1>4, <2>1, FS_AddElement
  <2>3. scheduled_requests' =
          [scheduled_requests EXCEPT ![Active] = scheduled_requests[Active] + 1]
    BY <1>7 DEF schedule
  <2> QED
    BY <1>2, <1>3, <1>4, <2>1, <2>2, <2>3
<1>8. CASE process
  <2> DEFINE index == next_process_index[Active]
             entries == [queue[Active] EXCEPT ![index] = Empty]
  <2>1. /\ queue' = [queue EXCEPT ![Active] = entries]
        /\ Scheduled(entries) = Scheduled(queue[Active]) \ {index}
        /\ index \in Scheduled(queue[Active])
    BY <1>8, ProcessedOne
  <2> HIDE DEF entries, index
  <2>2. Cardinality(Scheduled(entries)) = Cardinality(Scheduled(queue[Active])) - 1
    BY <1>3, <1>4, <2>1, FS_RemoveElement
  <2>3. scheduled_requests' =
          [scheduled_requests EXCEPT ![Active] = scheduled_requests[Active] - 1]
    BY <1>8 DEF process
  <2> QED
    BY <1>2, <1>3, <1>4, <2>1, <2>2, <2>3
<1>9. CASE Tick
  <2>1. queue' = [q \in Queues |-> Aged(queue[q])] /\ UNCHANGED scheduled_requests
    BY <1>9 DEF Tick
  <2>2. \A q \in Queues : Scheduled(queue'[q]) = Scheduled(queue[q])
    BY <2>1, AgedAll
  <2> QED
    BY <2>1, <2>2 DEF Counters
<1>10. "RQ" \in Queues /\ "WQ" \in Queues
  BY DEF Queues
<1>11. CASE SwitchMode
  BY <1>6, <1>10, <1>11 DEF SwitchMode, WritesPressing, WritesDone, Active
<1> QED
  BY <1>1, <1>5, <1>7, <1>8, <1>9, <1>10, <1>11
     DEF Next, vars, add_rq, add_rqForwarded, add_wq, Arrived, KeepMode,
         NothingToSchedule, BusBusy, NothingToProcess

(***************************************************************************)
(* Reservations depend on which requests are scheduled for which line, not *)
(* on the times of requests and banks.                                     *)
(***************************************************************************)
LEMMA SameReservations ==
  ASSUME QueueTypes, Reservations, UNCHANGED write_mode,
         \A q \in Queues :
           /\ Scheduled(queue'[q]) = Scheduled(queue[q])
           /\ \A i \in Scheduled(queue[q]) : queue'[q][i].address = queue[q][i].address,
         \A b \in Banks :
           /\ bank_request'[b].working = bank_request[b].working
           /\ bank_request'[b].request_index = bank_request[b].request_index
           /\ bank_request'[b].is_read = bank_request[b].is_read
           /\ bank_request'[b].is_write = bank_request[b].is_write
           /\ bank_request'[b].open_row = bank_request[b].open_row
  PROVE  Reservations'
<1>1. Active' = Active /\ Active \in Queues
  BY DEF Active, Queues
<1>2. ASSUME NEW q \in Queues, NEW i \in Scheduled(queue'[q])
      PROVE  (q = Active /\ Reserved(BankOf(queue[q][i].address), q, i))'
  <2>1. /\ i \in Scheduled(queue[q])
        /\ queue'[q][i].address = queue[q][i].address
        /\ BankOf(queue[q][i].address) \in Banks
    BY <1>2, QueuedAddress
  <2>2. q = Active /\ Reserved(BankOf(queue[q][i].address), q, i)
    BY <2>1 DEF Reservations
  <2> QED
    BY <1>1, <2>1, <2>2 DEF Reserved
<1>3. ASSUME NEW b \in Banks
      PROVE  \/ \E i \in Scheduled(queue'[Active']) : BankOf(queue'[Active'][i].address) = b
             \/ Free(b)'
  <2>1. CASE Free(b)
    BY <2>1 DEF Free
  <2>2. CASE \E i \in Scheduled(queue[Active]) : BankOf(queue[Active][i].address) = b
    BY <1>1, <2>2
  <2> QED
    BY <2>1, <2>2 DEF Reservations
<1> QED
  BY <1>2, <1>3 DEF Reservations

(***************************************************************************)
(* Bank reservations go with the scheduled requests: schedule() takes a    *)
(* bank that no scheduled request has, process() frees the bank of one     *)
(* request only, and a switch frees every bank that is reserved.           *)
(***************************************************************************)
LEMMA ReservationsStep ==
  ASSUME IInv, [Next]_vars
  PROVE  Reservations'
<1> USE DEF IInv
<1>1. CASE UNCHANGED <<queue, bank_request, write_mode>>
  BY <1>1, SameReservations
<1>2. Active \in Queues
  BY DEF Active, Queues
<1>3. ASSUME NEW q \in Queues, NEW a \in Addresses, NEW age \in 0 .. MaxAge,
             Inserted(q, a, age), UNCHANGED <<bank_request, write_mode>>
      PROVE  Reservations'
  <2>1. CASE UNCHANGED <<queue, next_schedule_index>>
    BY <1>1, <1>3, <2>1
  <2>2. CASE ~UNCHANGED <<queue, next_schedule_index>>
    <3>1. PICK index \in Slots(q) \ Used(queue[q]) :
            LET entry == [address |-> a, scheduled |-> FALSE, event |-> -age]
                entries == [queue[q] EXCEPT ![index] = entry]
            IN  /\ queue' = [queue EXCEPT ![q] = entries]
                /\ entries \in [Slots(q) -> Entry(q)]
                /\ Used(entries) = Used(queue[q]) \cup {index}
                /\ Scheduled(entries) = Scheduled(queue[q])
                /\ index \notin Scheduled(queue[q])
      BY <1>3, <2>2, InsertedOne
    <3>2. queue = [p \in Queues |-> queue[p]] /\ queue[q] \in [Slots(q) -> Entry(q)]
      BY DEF QueueTypes
    <3>3. /\ \A p \in Queues : Scheduled(queue'[p]) = Scheduled(queue[p])
          /\ \A i \in Scheduled(queue[q]) : queue'[q][i] = queue[q][i]
          /\ \A p \in Queues \ {q} : queue'[p] = queue[p]
      BY <3>1, <3>2 DEF Scheduled
    <3>4. \A p \in Queues : \A i \in Scheduled(queue[p]) :
            queue'[p][i].address = queue[p][i].address
      BY <3>3
    <3> QED
      BY <1>3, <3>3, <3>4, SameReservations
  <2> QED
    BY <2>1, <2>2
<1>4. ASSUME NEW q \in Queues, q = Active, write_mode' = ~write_mode,
             reset_remain_requests(q)
      PROVE  Reservations'
  <2> DEFINE banks == {BankOf(queue[q][i].address) : i \in Scheduled(queue[q])}
             row(b) == IF bank_request[b].cycle_available - tCAS <= 0
                       THEN dram_get_row(RequestOn(q, b).address) ELSE NoRow
             freed(b) == [Idle(bank_request[b]) EXCEPT !.cycle_available = 0,
                                                       !.open_row = row(b)]
  <2>1. /\ queue' = [queue EXCEPT ![q] = Withdrawn(queue[q])]
        /\ bank_request' = [b \in Banks |-> IF b \in banks THEN freed(b) ELSE bank_request[b]]
    BY <1>4 DEF reset_remain_requests, QueueTypes
  <2>2. \A p \in Queues : Scheduled(queue'[p]) = {}
    <3>1. Scheduled(queue'[q]) = {}
      BY <2>1, WithdrawnAll DEF QueueTypes
    <3>2. ASSUME NEW p \in Queues \ {q}
          PROVE  Scheduled(queue'[p]) = {}
      <4>1. Scheduled(queue[p]) = {}
        BY <1>4 DEF Reservations
      <4>2. queue'[p] = queue[p]
        BY <2>1 DEF QueueTypes
      <4> QED
        BY <4>1, <4>2
    <3> QED
      BY <3>1, <3>2
  <2>3. ASSUME NEW b \in Banks
        PROVE  Free(b)'
    <3>1. CASE b \in banks
      <4>1. bank_request'[b] = freed(b) /\ bank_request[b] \in BankType
        BY <2>1, <3>1 DEF BankTypes
      <4> HIDE DEF row
      <4> QED
        BY <4>1 DEF Free, Idle, BankType
    <3>2. CASE b \notin banks
      <4>1. bank_request'[b] = bank_request[b]
        BY <2>1, <3>2
      <4>2. Free(b)
        BY <1>4, <3>2 DEF Reservations
      <4> QED
        BY <4>1, <4>2 DEF Free
    <3> QED
      BY <3>1, <3>2
  <2> QED
    BY <2>2, <2>3 DEF Reservations
<1>5. ASSUME NEW q \in Queues, q = Active, schedule
      PROVE  Reservations'
  <2>1. PICK index \in Schedulable(q), latency \in 0 .. tRP + tRCD + tCAS :
          LET a == queue[q][index].address
              entries == [queue[q] EXCEPT ![index] =
                            [address |-> a, scheduled |-> TRUE, event |-> latency]]
          IN  /\ queue' = [queue EXCEPT ![q] = entries]
              /\ entries \in [Slots(q) -> Entry(q)]
              /\ Used(entries) = Used(queue[q])
              /\ Scheduled(entries) = Scheduled(queue[q]) \cup {index}
              /\ \A i \in Slots(q) : entries[i].address = queue[q][i].address
              /\ index \in Slots(q) \ Scheduled(queue[q])
              /\ a \in Addresses
              /\ bank_request' =
                   [bank_request EXCEPT ![BankOf(a)] =
                      [working |-> TRUE, request_index |-> index,
                       is_read |-> q = "RQ", is_write |-> q = "WQ",
                       open_row |-> dram_get_row(a), cycle_available |-> latency]]
    BY <1>5, ScheduledOne, ZenonT(60)
  <2>2. PICK a \in Addresses, here \in Banks :
          a = queue[q][index].address /\ here = BankOf(a)
    BY <2>1, Decoding
  <2>3. /\ \A i \in Slots(q) : queue'[q][i].address = queue[q][i].address
        /\ Scheduled(queue'[q]) = Scheduled(queue[q]) \cup {index}
        /\ \A p \in Queues \ {q} : queue'[p] = queue[p]
    BY <2>1 DEF QueueTypes
  <2>4. /\ Active' = q
        /\ Scheduled(queue[q]) \subseteq Slots(q) /\ index \in Slots(q)
    BY <1>5, <2>1, QueuedAddress DEF schedule, Active
  <2>5. /\ bank_request'[here].working = TRUE
        /\ bank_request'[here].request_index = index
        /\ bank_request'[here].is_read = (q = "RQ")
        /\ bank_request'[here].is_write = (q = "WQ")
        /\ bank_request'[here].open_row = dram_get_row(a)
        /\ \A b \in Banks \ {here} : bank_request'[b] = bank_request[b]
    BY <2>1, <2>2 DEF BankTypes
  <2>6. ASSUME NEW i \in Scheduled(queue[q])
        PROVE  /\ BankOf(queue[q][i].address) \in Banks \ {here}
               /\ Reserved(BankOf(queue[q][i].address), q, i)
    <3>1. ~bank_request[here].working
      BY <2>2 DEF Schedulable
    <3>2. Reserved(BankOf(queue[q][i].address), q, i)
      BY DEF Reservations
    <3> QED
      BY <3>1, <3>2, QueuedAddress DEF Reserved
  <2>7. \A p \in Queues \ {q} : Scheduled(queue'[p]) = {}
    BY <1>5, <2>3 DEF Reservations
  <2>8. Reserved(BankOf(queue[q][index].address), q, index)'
    <3>1. queue'[q][index].address = a
      BY <2>2, <2>3, <2>4
    <3> QED
      BY <2>2, <2>5, <3>1 DEF Reserved
  <2>9. ASSUME NEW i \in Scheduled(queue[q])
        PROVE  Reserved(BankOf(queue[q][i].address), q, i)'
    <3>1. queue'[q][i].address = queue[q][i].address
      BY <2>3, <2>4
    <3>2. PICK b \in Banks \ {here} : /\ b = BankOf(queue[q][i].address)
                                     /\ b = BankOf(queue'[q][i].address)
      BY <2>6, <3>1
    <3>3. Reserved(b, q, i) /\ bank_request'[b] = bank_request[b]
      BY <2>5, <2>6, <3>2
    <3>4. Reserved(b, q, i)'
      BY <3>1, <3>3 DEF Reserved
    <3> QED
      BY <3>2, <3>4
  <2>10. ASSUME NEW b \in Banks
         PROVE  \/ \E i \in Scheduled(queue'[q]) : BankOf(queue'[q][i].address) = b
                \/ Free(b)'
    <3>1. CASE b = here
      <4>1. BankOf(queue'[q][index].address) = b
        BY <2>2, <2>3, <2>4, <3>1
      <4> QED
        BY <2>3, <4>1
    <3>2. CASE b # here /\ Free(b)
      BY <2>5, <3>2 DEF Free
    <3>3. CASE \E i \in Scheduled(queue[q]) : BankOf(queue[q][i].address) = b
      BY <2>3, <2>4, <3>3
    <3> QED
      BY <1>5, <3>1, <3>2, <3>3 DEF Reservations
  <2> QED
    BY <2>3, <2>4, <2>7, <2>8, <2>9, <2>10 DEF Reservations
<1>6. ASSUME NEW q \in Queues, q = Active, process
      PROVE  Reservations'
  <2>1. PICK index \in Scheduled(queue[q]) :
          /\ queue' = [queue EXCEPT ![q] = [queue[q] EXCEPT ![index] = Empty]]
          /\ Scheduled([queue[q] EXCEPT ![index] = Empty]) = Scheduled(queue[q]) \ {index}
          /\ index = next_process_index[q]
    BY <1>6, ProcessedOne
  <2>2. PICK a \in Addresses, here \in Banks :
          /\ a = queue[q][index].address /\ here = BankOf(a)
          /\ bank_request' = [bank_request EXCEPT ![here] = Idle(bank_request[here])]
          /\ UNCHANGED write_mode
    BY <1>6, <2>1, QueuedAddress DEF process, BankIn, BankTypes
  <2>3. queue[q] \in [Slots(q) -> Entry(q)] /\ queue = [p \in Queues |-> queue[p]]
    BY DEF QueueTypes
  <2>4. /\ Scheduled(queue'[q]) = Scheduled(queue[q]) \ {index}
        /\ \A i \in Scheduled(queue[q]) \ {index} : queue'[q][i] = queue[q][i]
        /\ \A p \in Queues \ {q} : queue'[p] = queue[p]
        /\ Active' = q
    BY <1>6, <2>1, <2>2, <2>3 DEF Active, Scheduled
  <2>5. Free(here)' /\ \A b \in Banks \ {here} : bank_request'[b] = bank_request[b]
    <3>1. bank_request[here] \in BankType /\ bank_request'[here] = Idle(bank_request[here])
      BY <2>2 DEF BankTypes
    <3> QED
      BY <2>2, <3>1 DEF BankTypes, Free, Idle, BankType
  <2>6. ASSUME NEW i \in Scheduled(queue[q]) \ {index}
        PROVE  /\ BankOf(queue[q][i].address) \in Banks \ {here}
               /\ Reserved(BankOf(queue[q][i].address), q, i)
    <3>1. /\ Reserved(BankOf(queue[q][i].address), q, i)
          /\ Reserved(here, q, index)
      BY <2>2 DEF Reservations
    <3>2. BankOf(queue[q][i].address) # here
      BY <3>1 DEF Reserved
    <3> QED
      BY <3>1, <3>2, QueuedAddress
  <2>7. ASSUME NEW i \in Scheduled(queue[q]) \ {index}
        PROVE  Reserved(BankOf(queue[q][i].address), q, i)'
    <3>1. queue'[q][i].address = queue[q][i].address
      BY <2>4
    <3>2. PICK b \in Banks \ {here} : /\ b = BankOf(queue[q][i].address)
                                     /\ b = BankOf(queue'[q][i].address)
      BY <2>6, <3>1
    <3>3. Reserved(b, q, i) /\ bank_request'[b] = bank_request[b]
      BY <2>5, <2>6, <3>2
    <3>4. Reserved(b, q, i)'
      BY <3>1, <3>3 DEF Reserved
    <3> QED
      BY <3>2, <3>4
  <2>8. ASSUME NEW b \in Banks
        PROVE  \/ \E i \in Scheduled(queue'[q]) : BankOf(queue'[q][i].address) = b
               \/ Free(b)'
    <3>1. CASE b # here /\ Free(b)
      BY <2>5, <3>1 DEF Free
    <3>2. CASE b # here /\ \E i \in Scheduled(queue[q]) : BankOf(queue[q][i].address) = b
      BY <2>2, <2>4, <3>2
    <3> QED
      BY <1>6, <2>5, <3>1, <3>2 DEF Reservations
  <2>9. \A p \in Queues \ {q} : Scheduled(queue'[p]) = {}
    BY <1>6, <2>4 DEF Reservations
  <2> QED
    BY <2>4, <2>7, <2>8, <2>9 DEF Reservations
<1>7. CASE BusBusy
  <2>1. /\ bank_request' = [bank_request EXCEPT ![BankIn(Active)] =
                              [bank_request[BankIn(Active)] EXCEPT
                                 !.cycle_available = dbus_cycle_available]]
        /\ UNCHANGED <<queue, write_mode>>
    BY <1>7 DEF BusBusy, BankTypes
  <2>2. ASSUME NEW b \in Banks
        PROVE  /\ bank_request[b] \in BankType
               /\ \/ bank_request'[b] = bank_request[b]
                  \/ bank_request'[b] = [bank_request[b] EXCEPT
                                           !.cycle_available = dbus_cycle_available]
    BY <2>1 DEF BankTypes
  <2>3. \A b \in Banks :
          /\ bank_request'[b].working = bank_request[b].working
          /\ bank_request'[b].request_index = bank_request[b].request_index
          /\ bank_request'[b].is_read = bank_request[b].is_read
          /\ bank_request'[b].is_write = bank_request[b].is_write
          /\ bank_request'[b].open_row = bank_request[b].open_row
    BY <2>2 DEF BankType
  <2> QED
    BY <2>1, <2>3, SameReservations
<1>8. CASE Tick
  <2> DEFINE cycle(b) == IF bank_request[b].cycle_available > 0
                         THEN bank_request[b].cycle_available - 1 ELSE 0
  <2>1. /\ bank_request' =
             [b \in Banks |-> [bank_request[b] EXCEPT !.cycle_available = cycle(b)]]
        /\ queue' = [q \in Queues |-> Aged(queue[q])]
        /\ UNCHANGED write_mode
    BY <1>8 DEF Tick
  <2> HIDE DEF cycle
  <2>2. \A b \in Banks :
          /\ bank_request'[b].working = bank_request[b].working
          /\ bank_request'[b].request_index = bank_request[b].request_index
          /\ bank_request'[b].is_read = bank_request[b].is_read
          /\ bank_request'[b].is_write = bank_request[b].is_write
          /\ bank_request'[b].open_row = bank_request[b].open_row
    <3>1. \A b \in Banks : bank_request[b] \in BankType
      BY DEF BankTypes
    <3> QED
      BY <2>1, <3>1 DEF BankType
  <2>3. \A q \in Queues :
          /\ Scheduled(queue'[q]) = Scheduled(queue[q])
          /\ \A i \in Scheduled(queue[q]) : queue'[q][i].address = queue[q][i].address
    BY <2>1, AgedAll, QueuedAddress
  <2> QED
    BY <2>1, <2>2, <2>3, SameReservations
<1>9. "RQ" \in Queues /\ "WQ" \in Queues
  BY DEF Queues
<1>10. CASE SwitchMode
  <2>1. \/ Active = "RQ" /\ write_mode' = ~write_mode /\ reset_remain_requests("RQ")
        \/ Active = "WQ" /\ write_mode' = ~write_mode /\ reset_remain_requests("WQ")
    BY <1>10 DEF SwitchMode, WritesPressing, WritesDone, Active, OtherTypes
  <2> QED
    BY <1>4, <1>9, <2>1
<1> QED
  BY <1>1, <1>2, <1>3, <1>5, <1>6, <1>7, <1>8, <1>9, <1>10
     DEF Next, vars, add_rq, add_rqForwarded, add_wq, Arrived, KeepMode,
         NothingToSchedule, NothingToProcess

\* Every line is at most once in a queue.
Distinct(entries) ==
  \A i, j \in Used(entries) : entries[i].address = entries[j].address => i = j

Lines(entries) == {entries[i].address : i \in Used(entries)}

(***************************************************************************)
(* The read queue has a slot for every miss: with distinct lines it is as  *)
(* full as the LLC has misses, and that is less than its size.             *)
(***************************************************************************)
LEMMA RoomForMiss ==
  ASSUME QueueTypes, EveryMissQueued, Cardinality(DOMAIN waiting) < LLC_MSHR_SIZE
  PROVE  Used(queue["RQ"]) # Slots("RQ")
<1> DEFINE used == Used(queue["RQ"])
           line == [i \in used |-> queue["RQ"][i].address]
<1>1. "RQ" \in Queues /\ SIZE["RQ"] = DRAM_RQ_SIZE
  BY DEF Queues, SIZE
<1>2. used \in SUBSET Slots("RQ")
  BY <1>1, QueuedAddress
<1>3. IsFiniteSet(used) /\ Cardinality(used) \in Nat
  <2>1. IsFiniteSet(used)
    BY <1>1, <1>2, SlotsFinite
  <2> QED
    BY <2>1, FS_CardinalityType
<1>4. DOMAIN waiting = {line[i] : i \in used}
  BY DEF EveryMissQueued
<1>5. /\ line = [i \in used |-> line[i]]
      /\ \A i, j \in used : line[i] = line[j] => i = j
  BY <1>1 DEF EveryMissQueued
<1> HIDE DEF used, line
<1>6. Cardinality(DOMAIN waiting) = Cardinality(used)
  BY <1>3, <1>4, <1>5, ImageSize
<1>7. Cardinality(used) < SIZE["RQ"]
  BY <1>1, <1>3, <1>6, MissesFit, SizeAssumption
<1>8. Cardinality(Slots("RQ")) = SIZE["RQ"]
  <2>1. SIZE["RQ"] \in Nat \ {0} /\ 0 \in Int /\ SIZE["RQ"] - 1 \in Int
        /\ ~(0 > SIZE["RQ"] - 1)
    BY <1>1, SlotsFinite
  <2>2. Cardinality(0 .. SIZE["RQ"] - 1) = (SIZE["RQ"] - 1) - 0 + 1
    BY <2>1, FS_Interval
  <2> QED
    BY <2>1, <2>2 DEF Slots
<1>9. Cardinality(used) # SIZE["RQ"]
  BY <1>1, <1>3, <1>7, SizeAssumption
<1> QED
  BY <1>8, <1>9 DEF used

(***************************************************************************)
(* The LLC waits for the lines of the read queue: add_rq finds a slot for  *)
(* its miss, a read that is processed takes its line along, and nothing    *)
(* else adds or removes one.                                               *)
(***************************************************************************)
LEMMA MissesStep ==
  ASSUME IInv, [Next]_vars
  PROVE  EveryMissQueued'
<1> USE DEF IInv
<1>1. "RQ" \in Queues /\ "WQ" \in Queues
  BY DEF Queues
<1>2. /\ DOMAIN waiting = Lines(queue["RQ"])
      /\ \A q \in Queues : Distinct(queue[q])
  BY DEF EveryMissQueued, Lines, Distinct
<1>3. ASSUME DOMAIN waiting' = Lines(queue'["RQ"]),
             \A q \in Queues : Distinct(queue'[q])
      PROVE  EveryMissQueued'
  BY <1>3 DEF EveryMissQueued, Lines, Distinct
<1>4. ASSUME DOMAIN waiting' = DOMAIN waiting,
             \A q \in Queues :
               /\ Used(queue'[q]) = Used(queue[q])
               /\ \A i \in Used(queue[q]) : queue'[q][i].address = queue[q][i].address
      PROVE  EveryMissQueued'
  <2>1. Lines(queue'["RQ"]) = Lines(queue["RQ"])
    BY <1>1, <1>4 DEF Lines
  <2>2. \A q \in Queues : Distinct(queue'[q])
    BY <1>2, <1>4 DEF Distinct
  <2> QED
    BY <1>2, <1>3, <1>4, <2>1, <2>2
<1>5. CASE UNCHANGED <<queue, waiting>>
  BY <1>4, <1>5
<1>6. \A q \in Queues : /\ queue[q] \in [Slots(q) -> Entry(q)]
                        /\ Used(queue[q]) \subseteq Slots(q)
  BY QueuedAddress DEF QueueTypes
<1>7. ASSUME NEW q \in Queues, NEW a \in Addresses, NEW age \in 0 .. MaxAge,
             Inserted(q, a, age), ~(Holds(q, a) \/ Used(queue[q]) = Slots(q))
      PROVE  /\ Lines(queue'[q]) = Lines(queue[q]) \cup {a}
             /\ Distinct(queue'[q])
             /\ \A p \in Queues \ {q} : queue'[p] = queue[p]
  <2>1. PICK index \in Slots(q) \ Used(queue[q]) :
          LET entry == [address |-> a, scheduled |-> FALSE, event |-> -age]
              entries == [queue[q] EXCEPT ![index] = entry]
          IN  /\ ~Holds(q, a)
              /\ queue' = [queue EXCEPT ![q] = entries]
              /\ entries \in [Slots(q) -> Entry(q)]
              /\ Used(entries) = Used(queue[q]) \cup {index}
              /\ Scheduled(entries) = Scheduled(queue[q])
              /\ index \notin Scheduled(queue[q])
    BY <1>7, InsertedOne
  <2>2. /\ Used(queue'[q]) = Used(queue[q]) \cup {index}
        /\ queue'[q][index].address = a
        /\ \A i \in Used(queue[q]) : queue'[q][i].address = queue[q][i].address
        /\ \A p \in Queues \ {q} : queue'[p] = queue[p]
    BY <1>6, <2>1 DEF QueueTypes
  <2>3. \A i \in Used(queue[q]) : queue[q][i].address # a
    BY <1>6, <2>1 DEF Holds
  <2>4. Lines(queue'[q]) = Lines(queue[q]) \cup {a}
    BY <2>2 DEF Lines
  <2>5. Distinct(queue'[q])
    BY <1>2, <2>2, <2>3 DEF Distinct
  <2> QED
    BY <2>2, <2>4, <2>5
<1>8. ASSUME NEW a \in Addresses, NEW age \in 0 .. MaxAge, add_rq(a, age)
      PROVE  EveryMissQueued'
  <2>1. /\ Inserted("RQ", a, age) /\ a \notin DOMAIN waiting
        /\ Cardinality(DOMAIN waiting) < LLC_MSHR_SIZE
        /\ DOMAIN waiting' = DOMAIN waiting \cup {a}
    BY <1>8 DEF add_rq
  <2>2. a # 0 /\ a \notin Lines(queue["RQ"])
    BY <1>2, <2>1, AddressAssumption
  <2>3. ~Holds("RQ", a)
    BY <1>1, <1>6, <2>2 DEF Holds, Lines, Used
  <2>4. Used(queue["RQ"]) # Slots("RQ")
    BY <2>1, RoomForMiss
  <2>5. /\ Lines(queue'["RQ"]) = Lines(queue["RQ"]) \cup {a}
        /\ \A q \in Queues : Distinct(queue'[q])
    <3>1. /\ Lines(queue'["RQ"]) = Lines(queue["RQ"]) \cup {a}
          /\ Distinct(queue'["RQ"])
          /\ \A p \in Queues \ {"RQ"} : queue'[p] = queue[p]
      BY <1>1, <1>7, <2>1, <2>3, <2>4
    <3> QED
      BY <1>2, <3>1
  <2> QED
    BY <1>2, <1>3, <2>1, <2>5
<1>9. ASSUME NEW a \in Addresses, NEW age \in 0 .. MaxAge, add_wq(a, age)
      PROVE  EveryMissQueued'
  <2>1. Inserted("WQ", a, age) /\ DOMAIN waiting' = DOMAIN waiting
    BY <1>9 DEF add_wq, Overtaken
  <2>2. CASE Holds("WQ", a) \/ Used(queue["WQ"]) = Slots("WQ")
    <3>1. UNCHANGED queue
      BY <2>1, <2>2 DEF Inserted
    <3> QED
      BY <1>4, <2>1, <3>1
  <2>3. CASE ~(Holds("WQ", a) \/ Used(queue["WQ"]) = Slots("WQ"))
    <3>1. /\ Distinct(queue'["WQ"])
          /\ \A p \in Queues \ {"WQ"} : queue'[p] = queue[p]
      BY <1>1, <1>7, <2>1, <2>3
    <3>2. queue'["RQ"] = queue["RQ"] /\ \A q \in Queues : Distinct(queue'[q])
      BY <1>1, <1>2, <3>1
    <3> QED
      BY <1>2, <1>3, <2>1, <3>2
  <2> QED
    BY <2>2, <2>3
<1>10. ASSUME NEW a \in Addresses, add_rqForwarded(a)
       PROVE  EveryMissQueued'
  <2>1. UNCHANGED queue /\ DOMAIN waiting' = DOMAIN waiting
    BY <1>10 DEF add_rqForwarded, Overtaken
  <2> QED
    BY <1>4, <2>1
<1>11. ASSUME NEW q \in Queues, reset_remain_requests(q), UNCHANGED waiting
       PROVE  EveryMissQueued'
  <2>1. queue' = [queue EXCEPT ![q] = Withdrawn(queue[q])]
    BY <1>11 DEF reset_remain_requests, QueueTypes
  <2>2. /\ queue'[q] = Withdrawn(queue[q])
        /\ \A p \in Queues \ {q} : queue'[p] = queue[p]
    BY <2>1 DEF QueueTypes
  <2>3. \A p \in Queues :
          /\ Used(queue'[p]) = Used(queue[p])
          /\ \A i \in Used(queue[p]) : queue'[p][i].address = queue[p][i].address
    BY <1>6, <2>2, WithdrawnAll
  <2> QED
    BY <1>4, <1>11, <2>3
<1>12. ASSUME NEW q \in Queues, q = Active, schedule
       PROVE  EveryMissQueued'
  <2>1. PICK entries :
          /\ queue' = [queue EXCEPT ![q] = entries]
          /\ Used(entries) = Used(queue[q])
          /\ \A i \in Slots(q) : entries[i].address = queue[q][i].address
    BY <1>12, ScheduledOne
  <2>2. /\ queue'[q] = entries
        /\ \A p \in Queues \ {q} : queue'[p] = queue[p]
    BY <2>1 DEF QueueTypes
  <2>3. \A p \in Queues :
          /\ Used(queue'[p]) = Used(queue[p])
          /\ \A i \in Used(queue[p]) : queue'[p][i].address = queue[p][i].address
    BY <1>6, <2>1, <2>2
  <2>4. UNCHANGED waiting
    BY <1>12 DEF schedule
  <2> QED
    BY <1>4, <2>3, <2>4
<1>13. ASSUME NEW q \in Queues, q = Active, process
       PROVE  EveryMissQueued'
  <2>1. PICK index, entries :
          /\ index = next_process_index[q]
          /\ index \in Scheduled(queue[q])
          /\ queue' = [queue EXCEPT ![q] = entries]
          /\ Used(entries) = Used(queue[q]) \ {index}
          /\ \A i \in Slots(q) \ {index} : entries[i] = queue[q][i]
    BY <1>13, ProcessedOne
  <2>2. PICK a \in Addresses : a = queue[q][index].address
    BY <2>1, QueuedAddress
  <2>3. /\ queue'[q] = entries
        /\ \A p \in Queues \ {q} : queue'[p] = queue[p]
        /\ \A i \in Used(entries) : entries[i].address = queue[q][i].address
        /\ index \in Used(queue[q])
    BY <1>6, <2>1, QueuedAddress DEF QueueTypes
  <2>4. \A p \in Queues : Distinct(queue'[p])
    BY <1>2, <2>1, <2>3 DEF Distinct
  <2>5. Lines(entries) = Lines(queue[q]) \ {a}
    BY <1>2, <2>1, <2>2, <2>3 DEF Lines, Distinct
  <2>6. CASE q = "RQ"
    <3>1. DOMAIN waiting' = DOMAIN waiting \ {a}
      BY <1>13, <2>1, <2>2, <2>6 DEF process
    <3> QED
      BY <1>2, <1>3, <2>3, <2>4, <2>5, <2>6, <3>1
  <2>7. CASE q = "WQ"
    <3>1. DOMAIN waiting' = DOMAIN waiting
      BY <1>13, <2>7 DEF process
    <3>2. queue'["RQ"] = queue["RQ"]
      BY <1>1, <2>3, <2>7
    <3> QED
      BY <1>2, <1>3, <2>4, <3>1, <3>2
  <2> QED
    BY <2>6, <2>7 DEF Queues
<1>14. CASE Tick
  <2>1. queue' = [q \in Queues |-> Aged(queue[q])] /\ UNCHANGED waiting
    BY <1>14 DEF Tick
  <2>2. \A q \in Queues :
          /\ Used(queue'[q]) = Used(queue[q])
          /\ \A i \in Used(queue[q]) : queue'[q][i].address = queue[q][i].address
    BY <1>6, <2>1, AgedAll
  <2> QED
    BY <1>4, <2>1, <2>2
<1>15. CASE SwitchMode
  BY <1>1, <1>11, <1>15 DEF SwitchMode
<1>16. Active \in Queues
  BY DEF Active, Queues
<1> QED
  BY <1>5, <1>8, <1>9, <1>10, <1>12, <1>13, <1>14, <1>15, <1>16
     DEF Next, vars, Arrived, KeepMode, NothingToSchedule, BusBusy, NothingToProcess
-----------------------------------------------------------------------------
(***************************************************************************)
(* Empty queues, free banks and no misses satisfy the invariant.           *)
(***************************************************************************)
LEMMA InitIInv ==
  ASSUME Init
  PROVE  IInv
<1> USE DEF Init
<1>1. \A q \in Queues : /\ queue[q] \in [Slots(q) -> Entry(q)]
                        /\ Used(queue[q]) = {} /\ Scheduled(queue[q]) = {}
  <2>1. ASSUME NEW q \in Queues
        PROVE  /\ queue[q] = [i \in Slots(q) |-> Empty]
               /\ Empty \in Entry(q)
    <3>1. 0 \in -SIZE[q] - MaxAge .. tRP + tRCD + tCAS
      BY SlotsFinite, TimeAssumption
    <3> QED
      BY <3>1 DEF Empty, Entry
  <2> QED
    BY <2>1 DEF Used, Scheduled, Empty
<1>2. QueueTypes
  BY <1>1 DEF QueueTypes
<1>3. BankTypes
  BY DEF BankTypes, BankType
<1>4. OtherTypes
  <2>1. 0 \in Int /\ 0 >= -DRAM_DBUS_TURN_AROUND_TIME
    BY TimeAssumption
  <2>2. DOMAIN waiting = {}
    OBVIOUS
  <2> QED
    BY <2>1, <2>2 DEF OtherTypes
<1>5. Indices
  <2>1. \A q \in Queues : /\ update_schedule_cycle(q, queue[q]) = SIZE[q]
                          /\ update_process_cycle(q, queue[q]) = SIZE[q]
    BY <1>1 DEF update_schedule_cycle, update_process_cycle, EarliestOr, Unscheduled
  <2>2. next_schedule_index = [q \in Queues |-> SIZE[q]]
        /\ next_process_index = [q \in Queues |-> SIZE[q]]
    BY DEF SIZE, Queues
  <2> QED
    BY <2>1, <2>2 DEF Indices
<1>6. Counters
  BY <1>1, FS_EmptySet DEF Counters
<1>7. Reservations
  <2>1. \A b \in Banks : Free(b)
    BY DEF Free
  <2> QED
    BY <1>1, <2>1 DEF Reservations
<1>8. EveryMissQueued
  <2>1. DOMAIN waiting = {}
    OBVIOUS
  <2> QED
    BY <1>1, <2>1 DEF EveryMissQueued, Queues
<1> QED
  BY <1>2, <1>3, <1>4, <1>5, <1>6, <1>7, <1>8 DEF IInv

(***************************************************************************)
(* Every step preserves the invariant.                                     *)
(***************************************************************************)
LEMMA NextIInv ==
  ASSUME IInv, [Next]_vars
  PROVE  IInv'
<1>1. QueueTypes' /\ BankTypes' /\ OtherTypes'
  BY QueueTypesStep, BankTypesStep, OtherTypesStep
<1>2. Indices' /\ Counters' /\ Reservations' /\ EveryMissQueued'
  BY IndicesStep, CountersStep, ReservationsStep, MissesStep
<1> QED
  BY <1>1, <1>2 DEF IInv

(***************************************************************************)
(* The invariant holds in every reachable state.                           *)
(***************************************************************************)
LEMMA Invariance == Spec => []IInv
<1>1. Init => IInv
  BY InitIInv
<1>2. IInv /\ [Next]_vars => IInv'
  BY NextIInv
<1> QED
  BY <1>1, <1>2, PTL DEF Spec

(***************************************************************************)
(* The state of the channel always has its type: an index that was found   *)
(* by a search lies in its queue, a counter is at most the queue's size.   *)
(***************************************************************************)
THEOREM DramTypeOK == Spec => []TypeOK
<1>1. IInv => TypeOK
  <2> SUFFICES ASSUME IInv PROVE TypeOK
    OBVIOUS
  <2> USE DEF IInv
  <2>1. \A q \in Queues : queue[q] \in [Slots(q) -> Entry(q)]
    BY DEF QueueTypes
  <2>2. ASSUME NEW q \in Queues, NEW found \in SUBSET Slots(q)
        PROVE  EarliestOr(queue[q], found, SIZE[q]) \in 0 .. SIZE[q]
    <3>1. CASE found = {}
      BY <3>1, SlotsFinite DEF EarliestOr
    <3>2. CASE found # {}
      <4>1. Earliest(queue[q], found) \in Slots(q)
        BY <2>1, <3>2, EarliestFound
      <4>2. Slots(q) \subseteq 0 .. SIZE[q]
        BY SlotsFinite DEF Slots
      <4> QED
        BY <3>2, <4>1, <4>2 DEF EarliestOr
    <3> QED
      BY <3>1, <3>2
  <2>3. \A q \in Queues : /\ next_schedule_index[q] \in 0 .. SIZE[q]
                          /\ next_process_index[q] \in 0 .. SIZE[q]
    <3>1. \A q \in Queues : /\ Scheduled(queue[q]) \in SUBSET Slots(q)
                            /\ Unscheduled(queue[q]) \in SUBSET Slots(q)
      BY QueuedAddress DEF Unscheduled
    <3> QED
      BY <2>2, <3>1 DEF Indices, update_schedule_cycle, update_process_cycle
  <2>4. \A q \in Queues : scheduled_requests[q] \in 0 .. SIZE[q]
    <3>1. \A q \in Queues : Scheduled(queue[q]) \in SUBSET Slots(q)
      BY QueuedAddress
    <3> QED
      BY <3>1, SlotsFinite DEF Counters
  <2>5. \A b \in Banks :
          /\ bank_request[b].request_index \in {NoRequest} \cup Slots("RQ") \cup Slots("WQ")
          /\ bank_request[b].open_row \in {NoRow} \cup 0 .. DRAM_ROWS - 1
          /\ bank_request[b].working \in BOOLEAN
          /\ bank_request[b].is_read \in BOOLEAN /\ bank_request[b].is_write \in BOOLEAN
          /\ bank_request[b].cycle_available \in Nat
    BY DEF BankTypes, BankType
  <2> QED
    BY <2>1, <2>3, <2>4, <2>5 DEF TypeOK, OtherTypes
<1> QED
  BY <1>1, Invariance, PTL

(***************************************************************************)
(* Bank reservations and scheduled requests match one to one: no assert of *)
(* process() or of the switch can fail, for any geometry and any timing.   *)
(***************************************************************************)
THEOREM DramBankReservation == Spec => []BankReservation
<1>1. IInv => BankReservation
  <2> SUFFICES ASSUME IInv PROVE BankReservation
    OBVIOUS
  <2> USE DEF IInv
  <2>1. ASSUME NEW q \in Queues, NEW i \in Scheduled(queue[q])
        PROVE  /\ q = Active
               /\ bank_request[BankOf(queue[q][i].address)] =
                    [working |-> TRUE, request_index |-> i,
                     is_read |-> q = "RQ", is_write |-> q = "WQ",
                     open_row |-> dram_get_row(queue[q][i].address),
                     cycle_available |->
                       bank_request[BankOf(queue[q][i].address)].cycle_available]
    <3>1. PICK b \in Banks : b = BankOf(queue[q][i].address)
      BY QueuedAddress
    <3>2. q = Active /\ Reserved(b, q, i)
      BY <3>1 DEF Reservations
    <3>3. bank_request[b] \in BankType
      BY DEF BankTypes
    <3>4. bank_request[b] =
            [working |-> bank_request[b].working,
             request_index |-> bank_request[b].request_index,
             is_read |-> bank_request[b].is_read, is_write |-> bank_request[b].is_write,
             open_row |-> bank_request[b].open_row,
             cycle_available |-> bank_request[b].cycle_available]
      BY <3>3 DEF BankType
    <3> QED
      BY <3>1, <3>2, <3>4 DEF Reserved
  <2>2. ASSUME NEW b \in Banks
        PROVE  IF bank_request[b].working
               THEN \E i \in Scheduled(queue[Active]) : BankOf(queue[Active][i].address) = b
               ELSE bank_request[b] = Idle(bank_request[b])
    <3>1. CASE Free(b)
      <4>1. bank_request[b] \in BankType
        BY DEF BankTypes
      <4>2. bank_request[b] = Idle(bank_request[b])
        BY <3>1, <4>1 DEF Free, Idle, BankType
      <4> QED
        BY <3>1, <4>2 DEF Free
    <3>2. CASE \E i \in Scheduled(queue[Active]) : BankOf(queue[Active][i].address) = b
      <4>1. bank_request[b].working
        BY <3>2 DEF Reservations, Reserved, Active, Queues
      <4> QED
        BY <3>2, <4>1
    <3> QED
      BY <3>1, <3>2 DEF Reservations
  <2>3. \A q \in Queues : scheduled_requests[q] = Cardinality(Scheduled(queue[q]))
    BY DEF Counters
  <2> QED
    BY <2>1, <2>2, <2>3 DEF BankReservation
<1> QED
  BY <1>1, Invariance, PTL

(***************************************************************************)
(* The indices that add_rq, add_wq, schedule(), process() and a switch     *)
(* leave behind are those of a new search, for any number of requests.     *)
(***************************************************************************)
THEOREM DramNextIndicesFresh == Spec => []NextIndicesFresh
<1>1. IInv => NextIndicesFresh
  BY DEF IInv, Indices, NextIndicesFresh
<1> QED
  BY <1>1, Invariance, PTL

(***************************************************************************)
(* The LLC waits for exactly the lines of the read queue: add_rq drops no  *)
(* miss, as long as the read queue has a slot for every LLC register.      *)
(***************************************************************************)
THEOREM DramEveryMissQueued == Spec => []EveryMissQueued
<1>1. IInv => EveryMissQueued
  BY DEF IInv
<1> QED
  BY <1>1, Invariance, PTL
=============================================================================
