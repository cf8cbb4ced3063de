---------------------------- MODULE BoundedFifo ----------------------------
(***************************************************************************)
(* What the simulator expects of a PACKET_QUEUE: a first-in first-out      *)
(* buffer that never holds more than Capacity packets.  The ring buffer of *)
(* module PacketQueue is shown to implement this specification.            *)
(***************************************************************************)
EXTENDS Naturals, Sequences

CONSTANTS
  Capacity,  \* the most packets the buffer holds
  Values     \* the packets

VARIABLE queue

Init == queue = << >>

\* A packet enters at the back, if there is room.
Enqueue(v) ==
  /\ Len(queue) < Capacity
  /\ queue' = Append(queue, v)

\* The oldest packet leaves.
Dequeue ==
  /\ queue # << >>
  /\ queue' = Tail(queue)

Next == Dequeue \/ \E v \in Values : Enqueue(v)

Spec == Init /\ [][Next]_queue

=============================================================================
