--------------------------- MODULE DataCacheProofs ---------------------------
(***************************************************************************)
(* Proofs about the data caches for every geometry, every size of queues   *)
(* and registers and every set of loads: queues keep within their sizes,   *)
(* every miss is answered exactly once, no load is lost or duplicated, and *)
(* no modification disappears.                                             *)
(***************************************************************************)
EXTENDS DataCache, CommonLemmas, SequenceTheorems

\* What a write queue holds.
Written(c) == IF c = "L1D" THEN Addresses ELSE Lines

\* A block is empty or holds a line; only the latter can be dirty.
Block == {NoBlock} \cup [line : Lines, dirty : BOOLEAN]

\* The state by component, with what the sizes of the queues permit.
Types ==
  /\ load \in [Loads -> [waiting : BOOLEAN, overtaken : 0 .. Window]]
  /\ RQ \in [Caches -> Seq(Packet)] /\ PQ \in [Caches -> Seq(Packet)]
  /\ DOMAIN WQ = Caches /\ returned \in [Caches -> Seq(Lines)]
  /\ \A c \in Caches : /\ WQ[c] \in Seq(Written(c)) /\ Len(WQ[c]) <= WQ_SIZE[c]
                       /\ Len(RQ[c]) <= RQ_SIZE[c] /\ Len(PQ[c]) <= PQ_SIZE[c]
  /\ LLC \in [WQ : SUBSET Lines, reading : SUBSET Lines]
  /\ IsFiniteSet(LLC.WQ) /\ Cardinality(LLC.WQ) <= LLC_WQ_SIZE

\* The registers, each about its own line.
Registers ==
  /\ DOMAIN MSHR = Caches
  /\ \A c \in Caches :
       /\ DOMAIN MSHR[c] \subseteq Lines
       /\ MSHR[c] \in [DOMAIN MSHR[c] -> Packet]
       /\ \A line \in DOMAIN MSHR[c] : MSHR[c][line].line = line
       /\ IsFiniteSet(DOMAIN MSHR[c]) /\ Cardinality(DOMAIN MSHR[c]) <= MSHR_SIZE[c]

\* The blocks and their ranking.
Storage ==
  /\ DOMAIN block = Caches /\ DOMAIN lru = Caches
  /\ \A c \in Caches :
       /\ block[c] \in [Sets(c) -> [Ways(c) -> Block]]
       /\ DOMAIN lru[c] = Sets(c)
       /\ \A set \in Sets(c) : IsRanking(NUM_WAY[c], lru[c][set])

Distinct(seq) == \A i, j \in DOMAIN seq : seq[i] = seq[j] => i = j
LinesOf(queue) == {queue[i].line : i \in DOMAIN queue}
DistinctLines(queue) == \A i, j \in DOMAIN queue : queue[i].line = queue[j].line => i = j

\* The lines of a queue that are to fill level 1.
UpwardLines(queue) == {queue[i].line : i \in {j \in DOMAIN queue : queue[j].fill = 1}}

\* The lines in the registers of the L2C that are to fill level 1.
UpwardMisses == {line \in DOMAIN MSHR["L2C"] : MSHR["L2C"][line].fill = 1}

\* A miss of the L1D is at exactly one of four places below, and there once: a read, a
\* prefetch to level 1 or such a miss of the L2C, or it has returned.
MissesOfL1D ==
  /\ DOMAIN MSHR["L1D"] = LinesOf(RQ["L2C"]) \cup UpwardLines(PQ["L2C"])
                            \cup UpwardMisses \cup Elements(returned["L1D"])
  /\ LinesOf(RQ["L2C"]) \cap UpwardLines(PQ["L2C"]) = {}
  /\ LinesOf(RQ["L2C"]) \cap UpwardMisses = {}
  /\ UpwardLines(PQ["L2C"]) \cap UpwardMisses = {}
  /\ Elements(returned["L1D"])
       \cap (LinesOf(RQ["L2C"]) \cup UpwardLines(PQ["L2C"]) \cup UpwardMisses) = {}

\* The queues this takes have no line twice, and reads are all to fill level 1.
Once ==
  /\ \A i \in DOMAIN RQ["L1D"] : RQ["L1D"][i].fill = 1
  /\ \A i \in DOMAIN RQ["L2C"] : RQ["L2C"][i].fill = 1
  /\ DistinctLines(RQ["L2C"]) /\ DistinctLines(PQ["L2C"])
  /\ \A c \in Caches : Distinct(returned[c])

\* A miss of the L2C is being read or has returned, not both.
MissesOfL2C ==
  /\ DOMAIN MSHR["L2C"] = LLC.reading \cup Elements(returned["L2C"])
  /\ LLC.reading \cap Elements(returned["L2C"]) = {}

\* The L1D reads loads only, and prefetches carry no load.
NoLoadPrefetched ==
  /\ \A i \in DOMAIN RQ["L1D"] : RQ["L1D"][i].type = "LOAD"
  /\ \A i \in DOMAIN PQ["L1D"] : PQ["L1D"][i].waiters = {}
  /\ \A line \in DOMAIN MSHR["L1D"] :
       MSHR["L1D"][line].type = "PREFETCH" => MSHR["L1D"][line].waiters = {}

\* A load waits exactly if some read or register of the L1D has it, and only one does.
LoadsPlaced ==
  \A d \in Loads :
    /\ load[d].waiting <=> \/ \E i \in DOMAIN RQ["L1D"] : d \in RQ["L1D"][i].waiters
                           \/ \E line \in DOMAIN MSHR["L1D"] : d \in MSHR["L1D"][line].waiters
    /\ \A i, j \in DOMAIN RQ["L1D"] :
         d \in RQ["L1D"][i].waiters /\ d \in RQ["L1D"][j].waiters => i = j
    /\ \A l, m \in DOMAIN MSHR["L1D"] :
         d \in MSHR["L1D"][l].waiters /\ d \in MSHR["L1D"][m].waiters => l = m
    /\ \A i \in DOMAIN RQ["L1D"], l \in DOMAIN MSHR["L1D"] :
         ~(d \in RQ["L1D"][i].waiters /\ d \in MSHR["L1D"][l].waiters)

\* What ModificationKept says of a step.
Kept == Modified \ Modified' \subseteq LLC.WQ \ LLC.WQ'

IInv ==
  /\ Types /\ Registers /\ Storage
  /\ Once /\ MissesOfL1D /\ MissesOfL2C
  /\ NoLoadPrefetched /\ LoadsPlaced

-----------------------------------------------------------------------------
(***************************************************************************)
(* What Tail does to a sequence, index by index.                           *)
(***************************************************************************)
LEMMA TailFacts ==
  ASSUME NEW S, NEW q \in Seq(S), q # << >>
  PROVE  /\ Tail(q) \in Seq(S) /\ Head(q) \in S /\ Head(q) = q[1]
         /\ Len(q) \in Nat \ {0} /\ DOMAIN q = 1 .. Len(q)
         /\ Len(Tail(q)) = Len(q) - 1 /\ DOMAIN Tail(q) = 1 .. Len(q) - 1
         /\ \A i \in 1 .. Len(q) - 1 : Tail(q)[i] = q[i + 1]
OBVIOUS

(***************************************************************************)
(* What Append does to a sequence, index by index.                         *)
(***************************************************************************)
LEMMA AppendFacts ==
  ASSUME NEW S, NEW q \in Seq(S), NEW x \in S
  PROVE  /\ Append(q, x) \in Seq(S)
         /\ Len(q) \in Nat /\ DOMAIN q = 1 .. Len(q)
         /\ Len(Append(q, x)) = Len(q) + 1 /\ DOMAIN Append(q, x) = 1 .. Len(q) + 1
         /\ \A i \in 1 .. Len(q) : Append(q, x)[i] = q[i]
         /\ Append(q, x)[Len(q) + 1] = x
OBVIOUS

(***************************************************************************)
(* The elements of a sequence without its head: if they are distinct, all  *)
(* but the head.                                                           *)
(***************************************************************************)
LEMMA TailElements ==
  ASSUME NEW S, NEW q \in Seq(S), q # << >>
  PROVE  /\ Elements(q) = Elements(Tail(q)) \cup {Head(q)}
         /\ Distinct(q) => /\ Distinct(Tail(q))
                           /\ Elements(Tail(q)) = Elements(q) \ {Head(q)}
<1> DEFINE t == Tail(q)
<1>1. /\ Len(q) \in Nat \ {0} /\ DOMAIN q = 1 .. Len(q) /\ DOMAIN t = 1 .. Len(q) - 1
      /\ \A i \in 1 .. Len(q) - 1 : t[i] = q[i + 1]
      /\ Head(q) = q[1]
  BY TailFacts
<1> HIDE DEF t
<1>2. \A i \in DOMAIN q : i = 1 \/ (i - 1 \in DOMAIN t /\ t[i - 1] = q[i])
  BY <1>1
<1>3. \A i \in DOMAIN t : i + 1 \in DOMAIN q /\ i + 1 # 1 /\ t[i] = q[i + 1]
  BY <1>1
<1>4. 1 \in DOMAIN q
  BY <1>1
<1>5. Elements(q) = Elements(t) \cup {Head(q)}
  BY <1>1, <1>2, <1>3, <1>4 DEF Elements
<1>6. ASSUME Distinct(q)
      PROVE  Distinct(t) /\ Elements(t) = Elements(q) \ {Head(q)}
  <2>1. ASSUME NEW i \in DOMAIN t, NEW j \in DOMAIN t, t[i] = t[j]
        PROVE  i = j
    <3>1. i + 1 = j + 1
      BY <1>3, <1>6, <2>1 DEF Distinct
    <3> QED
      BY <1>1, <3>1
  <2>2. \A i \in DOMAIN t : t[i] # Head(q)
    BY <1>1, <1>3, <1>4, <1>6 DEF Distinct
  <2> QED
    BY <1>5, <2>1, <2>2 DEF Distinct, Elements
<1> QED
  BY <1>5, <1>6 DEF t

(***************************************************************************)
(* The elements of a sequence with a new one at its end.                   *)
(***************************************************************************)
LEMMA AppendElements ==
  ASSUME NEW S, NEW q \in Seq(S), NEW x \in S
  PROVE  /\ Elements(Append(q, x)) = Elements(q) \cup {x}
         /\ Distinct(q) /\ x \notin Elements(q) => Distinct(Append(q, x))
<1> DEFINE a == Append(q, x)
<1>1. /\ Len(q) \in Nat /\ DOMAIN q = 1 .. Len(q) /\ DOMAIN a = 1 .. Len(q) + 1
      /\ \A i \in 1 .. Len(q) : a[i] = q[i]
      /\ a[Len(q) + 1] = x
  BY AppendFacts
<1> HIDE DEF a
<1>2. \A i \in DOMAIN a : (i \in DOMAIN q /\ a[i] = q[i]) \/ (i = Len(q) + 1 /\ a[i] = x)
  BY <1>1
<1>3. \A i \in DOMAIN q : i \in DOMAIN a /\ a[i] = q[i]
  BY <1>1
<1>4. Len(q) + 1 \in DOMAIN a
  BY <1>1
<1>5. Elements(a) = Elements(q) \cup {x}
  BY <1>1, <1>2, <1>3, <1>4 DEF Elements
<1>6. ASSUME Distinct(q), x \notin Elements(q)
      PROVE  Distinct(a)
  BY <1>1, <1>2, <1>6 DEF Distinct, Elements
<1> QED
  BY <1>5, <1>6 DEF a

(***************************************************************************)
(* The lines of a queue of packets without its head.                       *)
(***************************************************************************)
LEMMA TailLines ==
  ASSUME NEW q \in Seq(Packet), q # << >>, DistinctLines(q)
  PROVE  /\ DistinctLines(Tail(q))
         /\ LinesOf(Tail(q)) = LinesOf(q) \ {Head(q).line}
         /\ UpwardLines(Tail(q)) = UpwardLines(q) \ {Head(q).line}
         /\ Head(q).line \in LinesOf(q)
         /\ Head(q).fill = 1 <=> Head(q).line \in UpwardLines(q)
<1> DEFINE t == Tail(q)
<1>1. /\ Len(q) \in Nat \ {0} /\ DOMAIN q = 1 .. Len(q) /\ DOMAIN t = 1 .. Len(q) - 1
      /\ \A i \in 1 .. Len(q) - 1 : t[i] = q[i + 1]
      /\ Head(q) = q[1]
  BY TailFacts
<1> HIDE DEF t
<1>2. \A i \in DOMAIN q : i = 1 \/ (i - 1 \in DOMAIN t /\ t[i - 1] = q[i])
  BY <1>1
<1>3. \A i \in DOMAIN t : i + 1 \in DOMAIN q /\ i + 1 # 1 /\ t[i] = q[i + 1]
  BY <1>1
<1>4. 1 \in DOMAIN q
  BY <1>1
<1>5. ASSUME NEW i \in DOMAIN t, NEW j \in DOMAIN t, t[i].line = t[j].line
      PROVE  i = j
  <2>1. i + 1 = j + 1
    BY <1>3, <1>5 DEF DistinctLines
  <2> QED
    BY <1>1, <2>1
<1>6. \A i \in DOMAIN q : q[i].line = Head(q).line => i = 1
  BY <1>1, <1>4 DEF DistinctLines
<1>7. LinesOf(t) = LinesOf(q) \ {Head(q).line} /\ Head(q).line \in LinesOf(q)
  BY <1>1, <1>2, <1>3, <1>4, <1>6 DEF LinesOf
<1>8. UpwardLines(t) = UpwardLines(q) \ {Head(q).line}
  <2>1. ASSUME NEW line
        PROVE  line \in UpwardLines(t) <=> line \in UpwardLines(q) \ {Head(q).line}
    <3>1. line \in UpwardLines(t) <=> \E i \in DOMAIN t : t[i].fill = 1 /\ t[i].line = line
      BY DEF UpwardLines
    <3>2. line \in UpwardLines(q) <=> \E i \in DOMAIN q : q[i].fill = 1 /\ q[i].line = line
      BY DEF UpwardLines
    <3>3. ASSUME NEW i \in DOMAIN q, q[i].fill = 1, q[i].line = line, line # Head(q).line
          PROVE  \E j \in DOMAIN t : t[j].fill = 1 /\ t[j].line = line
      BY <1>1, <1>2, <3>3
    <3>4. ASSUME NEW i \in DOMAIN t, t[i].fill = 1, t[i].line = line
          PROVE  line # Head(q).line /\ \E j \in DOMAIN q : q[j].fill = 1 /\ q[j].line = line
      BY <1>3, <1>6, <3>4
    <3> QED
      BY <3>1, <3>2, <3>3, <3>4
  <2> QED
    BY <2>1
<1>9. Head(q).fill = 1 <=> Head(q).line \in UpwardLines(q)
  BY <1>1, <1>4, <1>6 DEF UpwardLines
<1> QED
  BY <1>5, <1>7, <1>8, <1>9 DEF t, DistinctLines

(***************************************************************************)
(* The lines of a queue of packets with a new packet at its end.           *)
(***************************************************************************)
LEMMA AppendLines ==
  ASSUME NEW q \in Seq(Packet), NEW packet \in Packet,
         DistinctLines(q), packet.line \notin LinesOf(q)
  PROVE  /\ DistinctLines(Append(q, packet))
         /\ LinesOf(Append(q, packet)) = LinesOf(q) \cup {packet.line}
         /\ UpwardLines(Append(q, packet))
              = UpwardLines(q) \cup (IF packet.fill = 1 THEN {packet.line} ELSE {})
<1> DEFINE a == Append(q, packet)
<1>1. /\ Len(q) \in Nat /\ DOMAIN q = 1 .. Len(q) /\ DOMAIN a = 1 .. Len(q) + 1
      /\ \A i \in 1 .. Len(q) : a[i] = q[i]
      /\ a[Len(q) + 1] = packet
  BY AppendFacts
<1> HIDE DEF a
<1>2. \A i \in DOMAIN a :
        (i \in DOMAIN q /\ a[i] = q[i]) \/ (i = Len(q) + 1 /\ a[i] = packet)
  BY <1>1
<1>3. \A i \in DOMAIN q : i \in DOMAIN a /\ a[i] = q[i]
  BY <1>1
<1>4. Len(q) + 1 \in DOMAIN a
  BY <1>1
<1>5. LinesOf(a) = LinesOf(q) \cup {packet.line}
  BY <1>1, <1>2, <1>3, <1>4 DEF LinesOf
<1>6. DistinctLines(a)
  BY <1>1, <1>2 DEF DistinctLines, LinesOf
<1>7. UpwardLines(a) = UpwardLines(q) \cup (IF packet.fill = 1 THEN {packet.line} ELSE {})
  BY <1>1, <1>2, <1>3, <1>4 DEF UpwardLines
<1> QED
  BY <1>5, <1>6, <1>7 DEF a

(***************************************************************************)
(* A packet with another level, or with other loads, is a packet about the *)
(* same line.                                                              *)
(***************************************************************************)
LEMMA PacketUpdates ==
  ASSUME NEW old \in Packet, NEW fill \in {1, 2}, NEW waiters \in SUBSET Loads
  PROVE  /\ LET new == [old EXCEPT !.fill = Lowest(@, fill)]
            IN  /\ new \in Packet
                /\ new.line = old.line /\ new.type = old.type /\ new.waiters = old.waiters
                /\ new.fill = 1 <=> old.fill = 1 \/ fill = 1
         /\ LET new == [old EXCEPT !.waiters = waiters]
            IN  /\ new \in Packet
                /\ new.line = old.line /\ new.type = old.type /\ new.fill = old.fill
                /\ new.waiters = waiters
<1>1. /\ old = [line |-> old.line, type |-> old.type, fill |-> old.fill,
                waiters |-> old.waiters]
      /\ old.line \in Lines /\ old.type \in {"LOAD", "RFO", "PREFETCH"}
      /\ old.fill \in {1, 2} /\ old.waiters \in SUBSET Loads
  BY DEF Packet
<1> DEFINE level == Lowest(old.fill, fill)
<1>2. level \in {1, 2} /\ (level = 1 <=> old.fill = 1 \/ fill = 1)
  BY <1>1 DEF Lowest
<1>3. [old EXCEPT !.fill = Lowest(@, fill)]
        = [line |-> old.line, type |-> old.type, fill |-> level, waiters |-> old.waiters]
  BY <1>1
<1>4. [old EXCEPT !.waiters = waiters]
        = [line |-> old.line, type |-> old.type, fill |-> old.fill, waiters |-> waiters]
  BY <1>1
<1> HIDE DEF level
<1>5. [line |-> old.line, type |-> old.type, fill |-> level, waiters |-> old.waiters]
        \in Packet
  BY <1>1, <1>2 DEF Packet
<1>6. [line |-> old.line, type |-> old.type, fill |-> old.fill, waiters |-> waiters]
        \in Packet
  BY <1>1 DEF Packet
<1> QED
  BY <1>2, <1>3, <1>4, <1>5, <1>6

(***************************************************************************)
(* Position finds a packet about the line if there is one.                 *)
(***************************************************************************)
LEMMA PositionFacts ==
  ASSUME NEW q \in Seq(Packet), NEW line
  PROVE  /\ Position(q, line) = 0 <=> line \notin LinesOf(q)
         /\ Position(q, line) # 0 =>
              Position(q, line) \in DOMAIN q /\ q[Position(q, line)].line = line
<1>1. DOMAIN q = 1 .. Len(q)
  OBVIOUS
<1> QED
  BY <1>1 DEF Position, LinesOf

(***************************************************************************)
(* add_pq, merged or added: the queue grows by at most one packet and      *)
(* stays without double lines; the line is now to fill level 1 if either   *)
(* packet was.                                                             *)
(***************************************************************************)
LEMMA PrefetchingFacts ==
  ASSUME NEW q \in Seq(Packet), NEW packet \in Packet
  PROVE  LET new == Prefetching(q, packet)
         IN  /\ new \in Seq(Packet) /\ Len(new) \in {Len(q), Len(q) + 1}
             /\ DistinctLines(q) => DistinctLines(new)
             /\ DistinctLines(q) =>
                  UpwardLines(new)
                    = UpwardLines(q) \cup (IF packet.fill = 1 THEN {packet.line} ELSE {})
             /\ (\A i \in DOMAIN q : q[i].waiters = {}) /\ packet.waiters = {} =>
                  \A i \in DOMAIN new : new[i].waiters = {}
<1> DEFINE at == Position(q, packet.line)
           new == Prefetching(q, packet)
<1>1. CASE at = 0
  <2>1. packet.line \notin LinesOf(q)
    BY <1>1, PositionFacts
  <2>2. new = Append(q, packet)
    BY <1>1 DEF Prefetching
  <2>3. /\ new \in Seq(Packet) /\ Len(new) = Len(q) + 1
        /\ DOMAIN new = 1 .. Len(q) + 1 /\ DOMAIN q = 1 .. Len(q) /\ Len(q) \in Nat
        /\ \A i \in 1 .. Len(q) : new[i] = q[i]
        /\ new[Len(q) + 1] = packet
    BY <2>2, AppendFacts
  <2>4. \A i \in DOMAIN new : (i \in DOMAIN q /\ new[i] = q[i]) \/ new[i] = packet
    BY <2>3
  <2>5. DistinctLines(q) =>
          /\ DistinctLines(new)
          /\ UpwardLines(new)
               = UpwardLines(q) \cup (IF packet.fill = 1 THEN {packet.line} ELSE {})
    BY <2>1, <2>2, AppendLines
  <2> HIDE DEF new
  <2>6. (\A i \in DOMAIN q : q[i].waiters = {}) /\ packet.waiters = {} =>
          \A i \in DOMAIN new : new[i].waiters = {}
    BY <2>4
  <2>7. Len(new) \in {Len(q), Len(q) + 1}
    BY <2>3
  <2> QED
    BY <2>3, <2>5, <2>6, <2>7 DEF new
<1>2. CASE at # 0
  <2>1. at \in DOMAIN q /\ q[at].line = packet.line
    BY <1>2, PositionFacts
  <2> DEFINE lowered == [q[at] EXCEPT !.fill = Lowest(@, packet.fill)]
  <2>2. new = [q EXCEPT ![at] = lowered]
    BY <1>2 DEF Prefetching
  <2>3. packet.fill \in {1, 2} /\ q[at] \in Packet
    <3>1. packet.fill \in {1, 2}
      BY DEF Packet
    <3>2. q[at] \in Packet
      BY <2>1
    <3> QED
      BY <3>1, <3>2
  <2>4. /\ lowered \in Packet /\ lowered.line = packet.line
        /\ lowered.waiters = q[at].waiters
        /\ lowered.fill = 1 <=> q[at].fill = 1 \/ packet.fill = 1
    BY <2>1, <2>3, PacketUpdates
  <2> HIDE DEF lowered, at, new
  <2>5. /\ new \in Seq(Packet) /\ Len(new) = Len(q) /\ DOMAIN new = DOMAIN q
        /\ \A i \in DOMAIN q : new[i] = IF i = at THEN lowered ELSE q[i]
    BY <2>1, <2>2, <2>4
  <2>6. \A i \in DOMAIN q : new[i].line = q[i].line /\ new[i].waiters = q[i].waiters
    BY <2>1, <2>4, <2>5
  <2>7. DistinctLines(q) => DistinctLines(new)
    BY <2>5, <2>6 DEF DistinctLines
  <2>8. ASSUME DistinctLines(q), NEW line
        PROVE  line \in UpwardLines(new)
                 <=> line \in UpwardLines(q) \/ (packet.fill = 1 /\ line = packet.line)
    <3>1. line \in UpwardLines(new) <=> \E i \in DOMAIN q : new[i].fill = 1 /\ q[i].line = line
      BY <2>5, <2>6 DEF UpwardLines
    <3>2. line \in UpwardLines(q) <=> \E i \in DOMAIN q : q[i].fill = 1 /\ q[i].line = line
      BY DEF UpwardLines
    <3>3. \A i \in DOMAIN q : new[i].fill = 1 <=> q[i].fill = 1 \/ (i = at /\ packet.fill = 1)
      BY <2>4, <2>5
    <3> QED
      BY <2>1, <3>1, <3>2, <3>3
  <2>9. DistinctLines(q) =>
          UpwardLines(new) = UpwardLines(q) \cup (IF packet.fill = 1 THEN {packet.line} ELSE {})
    BY <2>8
  <2> QED
    BY <2>5, <2>6, <2>7, <2>9 DEF new
<1> QED
  BY <1>1, <1>2

-----------------------------------------------------------------------------
(***************************************************************************)
(* The sizes of a cache, and the set a line falls in.                      *)
(***************************************************************************)
LEMMA Geometry ==
  ASSUME NEW c \in Caches
  PROVE  /\ NUM_SET[c] \in Nat \ {0} /\ NUM_WAY[c] \in Nat \ {0}
         /\ RQ_SIZE[c] \in Nat \ {0} /\ WQ_SIZE[c] \in Nat \ {0}
         /\ PQ_SIZE[c] \in Nat /\ MSHR_SIZE[c] \in Nat \ {0}
         /\ Lines \subseteq Nat /\ None \notin Lines
         /\ \A line \in Lines : get_set(c, line) \in Sets(c)
         /\ \A a \in Addresses : LineOf(a) \in Lines
<1>1. {NUM_SET[c], NUM_WAY[c], RQ_SIZE[c], WQ_SIZE[c], MSHR_SIZE[c]} \subseteq Nat \ {0}
      /\ PQ_SIZE[c] \in Nat
  BY GeometryAssumption
<1>2. Lines \subseteq Nat /\ None \notin Lines
  <2>1. \A a \in Addresses : a \div WORDS \in Nat
    BY AddressAssumption
  <2> QED
    BY <2>1 DEF Lines, LineOf, None
<1>3. \A line \in Lines : get_set(c, line) \in Sets(c)
  BY <1>1, <1>2 DEF get_set, Sets
<1> QED
  BY <1>1, <1>2, <1>3 DEF Lines

(***************************************************************************)
(* Taking a register, or giving one to another packet, keeps the registers *)
(* in order.                                                               *)
(***************************************************************************)
LEMMA WithRegisterFacts ==
  ASSUME Registers, NEW c \in Caches, NEW packet \in Packet,
         InFlight(c, packet.line) \/ ~MshrFull(c),
         MSHR' = WithRegister(c, packet)
  PROVE  /\ Registers'
         /\ DOMAIN MSHR'[c] = DOMAIN MSHR[c] \cup {packet.line}
         /\ MSHR'[c][packet.line] = packet
         /\ \A line \in DOMAIN MSHR[c] : line # packet.line => MSHR'[c][line] = MSHR[c][line]
         /\ \A other \in Caches : other # c => MSHR'[other] = MSHR[other]
<1> DEFINE new == [line \in DOMAIN MSHR[c] \cup {packet.line} |->
                     IF line = packet.line THEN packet ELSE MSHR[c][line]]
<1>1. DOMAIN MSHR = Caches
  BY DEF Registers
<1>2. MSHR' = [MSHR EXCEPT ![c] = new]
  BY <1>1 DEF WithRegister
<1>3. /\ DOMAIN new = DOMAIN MSHR[c] \cup {packet.line}
      /\ new[packet.line] = packet
      /\ \A line \in DOMAIN MSHR[c] : line # packet.line => new[line] = MSHR[c][line]
      /\ new = [line \in DOMAIN new |-> new[line]]
  OBVIOUS
<1> HIDE DEF new
<1>4. /\ DOMAIN MSHR' = Caches /\ MSHR'[c] = new
      /\ \A other \in Caches : other # c => MSHR'[other] = MSHR[other]
  BY <1>1, <1>2
<1>5. packet.line \in Lines
  BY DEF Packet
<1>6. IsFiniteSet(DOMAIN new) /\ Cardinality(DOMAIN new) <= MSHR_SIZE[c]
  <2>1. /\ IsFiniteSet(DOMAIN MSHR[c]) /\ Cardinality(DOMAIN MSHR[c]) <= MSHR_SIZE[c]
        /\ Cardinality(DOMAIN MSHR[c]) \in Nat /\ MSHR_SIZE[c] \in Nat
    BY FS_CardinalityType, Geometry DEF Registers
  <2>2. CASE packet.line \in DOMAIN MSHR[c]
    <3>1. DOMAIN new = DOMAIN MSHR[c]
      BY <1>3, <2>2
    <3> QED
      BY <2>1, <3>1
  <2>3. CASE packet.line \notin DOMAIN MSHR[c]
    <3>1. /\ IsFiniteSet(DOMAIN new)
          /\ Cardinality(DOMAIN new) = Cardinality(DOMAIN MSHR[c]) + 1
      BY <1>3, <2>1, <2>3, FS_AddElement
    <3>2. Cardinality(DOMAIN MSHR[c]) # MSHR_SIZE[c]
      BY <2>3 DEF InFlight, MshrFull
    <3> QED
      BY <2>1, <3>1, <3>2
  <2> QED
    BY <2>2, <2>3
<1>7. DOMAIN new \subseteq Lines
  BY <1>3, <1>5 DEF Registers
<1>8. \A line \in DOMAIN new : new[line] \in Packet /\ new[line].line = line
  BY <1>3 DEF Registers
<1>9. new \in [DOMAIN new -> Packet]
  BY <1>3, <1>8
<1>10. Registers'
  BY <1>4, <1>6, <1>7, <1>8, <1>9 DEF Registers
<1> QED
  BY <1>3, <1>4, <1>10

(***************************************************************************)
(* A prefetch that joins a register only lowers its level.                 *)
(***************************************************************************)
LEMMA LoweredRegister ==
  ASSUME Registers, NEW c \in Caches, NEW line \in DOMAIN MSHR[c], NEW fill \in {1, 2},
         MSHR' = [MSHR EXCEPT ![c][line].fill = Lowest(@, fill)]
  PROVE  /\ Registers'
         /\ \A other \in Caches : DOMAIN MSHR'[other] = DOMAIN MSHR[other]
         /\ \A other \in Caches : other # c => MSHR'[other] = MSHR[other]
         /\ \A l \in DOMAIN MSHR[c] :
              /\ MSHR'[c][l].type = MSHR[c][l].type
              /\ MSHR'[c][l].waiters = MSHR[c][l].waiters
              /\ MSHR'[c][l].fill = 1 <=> MSHR[c][l].fill = 1 \/ (l = line /\ fill = 1)
<1> DEFINE packet == [MSHR[c][line] EXCEPT !.fill = Lowest(@, fill)]
<1>1. /\ DOMAIN MSHR = Caches /\ MSHR[c][line] \in Packet /\ MSHR[c][line].line = line
      /\ MSHR[c] = [l \in DOMAIN MSHR[c] |-> MSHR[c][l]]
  <2>1. MSHR[c] \in [DOMAIN MSHR[c] -> Packet]
    BY DEF Registers
  <2> QED
    BY <2>1 DEF Registers
<1>2. /\ packet \in Packet /\ packet.line = line /\ packet.type = MSHR[c][line].type
      /\ packet.waiters = MSHR[c][line].waiters
      /\ packet.fill = 1 <=> MSHR[c][line].fill = 1 \/ fill = 1
  <2> DEFINE old == MSHR[c][line]
  <2>1. old \in Packet /\ old.line = line /\ {} \in SUBSET Loads
    BY <1>1
  <2> HIDE DEF old
  <2>2. LET new == [old EXCEPT !.fill = Lowest(@, fill)]
        IN  /\ new \in Packet
            /\ new.line = old.line /\ new.type = old.type /\ new.waiters = old.waiters
            /\ new.fill = 1 <=> old.fill = 1 \/ fill = 1
    BY <2>1, PacketUpdates
  <2> QED
    BY <2>1, <2>2 DEF old
<1>3. MSHR' = [MSHR EXCEPT ![c] = [MSHR[c] EXCEPT ![line] = packet]]
  BY <1>1
<1> HIDE DEF packet
<1>4. [MSHR[c] EXCEPT ![line] = packet]
        = [l \in DOMAIN MSHR[c] \cup {packet.line} |->
             IF l = packet.line THEN packet ELSE MSHR[c][l]]
  BY <1>1, <1>2
<1>5. MSHR' = WithRegister(c, packet)
  <2>1. WithRegister(c, packet)
          = [MSHR EXCEPT ![c] = [l \in DOMAIN MSHR[c] \cup {packet.line} |->
               IF l = packet.line THEN packet ELSE MSHR[c][l]]]
    BY DEF WithRegister
  <2> QED
    BY <1>3, <1>4, <2>1
<1>6. InFlight(c, packet.line)
  BY <1>2 DEF InFlight
<1>7. /\ Registers'
      /\ DOMAIN MSHR'[c] = DOMAIN MSHR[c] \cup {packet.line}
      /\ MSHR'[c][packet.line] = packet
      /\ \A l \in DOMAIN MSHR[c] : l # packet.line => MSHR'[c][l] = MSHR[c][l]
      /\ \A other \in Caches : other # c => MSHR'[other] = MSHR[other]
  BY <1>2, <1>5, <1>6, WithRegisterFacts
<1>8. \A other \in Caches : DOMAIN MSHR'[other] = DOMAIN MSHR[other]
  BY <1>2, <1>7
<1>9. \A l \in DOMAIN MSHR[c] :
        /\ MSHR'[c][l].type = MSHR[c][l].type
        /\ MSHR'[c][l].waiters = MSHR[c][l].waiters
        /\ MSHR'[c][l].fill = 1 <=> MSHR[c][l].fill = 1 \/ (l = line /\ fill = 1)
  BY <1>2, <1>7
<1> QED
  BY <1>7, <1>8, <1>9

(***************************************************************************)
(* Releasing a register keeps the others.                                  *)
(***************************************************************************)
LEMMA WithoutRegisterFacts ==
  ASSUME Registers, NEW c \in Caches, NEW line \in DOMAIN MSHR[c],
         MSHR' = WithoutRegister(c, line)
  PROVE  /\ Registers'
         /\ DOMAIN MSHR'[c] = DOMAIN MSHR[c] \ {line}
         /\ \A l \in DOMAIN MSHR[c] : l # line => MSHR'[c][l] = MSHR[c][l]
         /\ \A other \in Caches : other # c => MSHR'[other] = MSHR[other]
<1> DEFINE new == [l \in DOMAIN MSHR[c] \ {line} |-> MSHR[c][l]]
<1>1. DOMAIN MSHR = Caches
  BY DEF Registers
<1>2. MSHR' = [MSHR EXCEPT ![c] = new]
  BY <1>1 DEF WithoutRegister
<1>3. /\ DOMAIN new = DOMAIN MSHR[c] \ {line}
      /\ \A l \in DOMAIN MSHR[c] : l # line => new[l] = MSHR[c][l]
      /\ new = [l \in DOMAIN new |-> new[l]]
  OBVIOUS
<1> HIDE DEF new
<1>4. /\ DOMAIN MSHR' = Caches /\ MSHR'[c] = new
      /\ \A other \in Caches : other # c => MSHR'[other] = MSHR[other]
  BY <1>1, <1>2
<1>5. IsFiniteSet(DOMAIN new) /\ Cardinality(DOMAIN new) <= MSHR_SIZE[c]
  <2>1. /\ IsFiniteSet(DOMAIN MSHR[c]) /\ Cardinality(DOMAIN MSHR[c]) <= MSHR_SIZE[c]
        /\ Cardinality(DOMAIN MSHR[c]) \in Nat /\ MSHR_SIZE[c] \in Nat
    BY FS_CardinalityType, Geometry DEF Registers
  <2>2. IsFiniteSet(DOMAIN new) /\ Cardinality(DOMAIN new) <= Cardinality(DOMAIN MSHR[c])
    BY <1>3, <2>1, FS_Subset
  <2> QED
    BY <2>1, <2>2, FS_CardinalityType
<1>6. \A l \in DOMAIN new : l \in Lines /\ new[l] \in Packet /\ new[l].line = l
  BY <1>3 DEF Registers
<1>7. new \in [DOMAIN new -> Packet]
  BY <1>3, <1>6
<1>8. Registers'
  BY <1>4, <1>5, <1>6, <1>7 DEF Registers
<1> QED
  BY <1>3, <1>4, <1>8

(***************************************************************************)
(* A read that finds a register: a prefetch is taken over, another packet  *)
(* keeps its type and takes the loads along.                               *)
(***************************************************************************)
LEMMA JoinedFacts ==
  ASSUME NEW register \in Packet, NEW packet \in Packet, register.line = packet.line
  PROVE  LET new == Joined(register, packet)
         IN  /\ new \in Packet /\ new.line = packet.line
             /\ (register.type = "PREFETCH" => register.waiters = {}) =>
                  new.waiters = register.waiters \cup packet.waiters
             /\ packet.fill = 1 => new.fill = 1
             /\ register.type # "PREFETCH" => new.type = register.type
             /\ new.type = "PREFETCH" => packet.type = "PREFETCH"
<1>1. CASE register.type = "PREFETCH"
  BY <1>1 DEF Joined
<1>2. CASE register.type # "PREFETCH"
  <2> DEFINE lowered == [register EXCEPT !.fill = Lowest(@, packet.fill)]
             waiters == register.waiters \cup packet.waiters
             new == [lowered EXCEPT !.waiters = waiters]
  <2>1. /\ packet.fill \in {1, 2} /\ waiters \in SUBSET Loads
        /\ register = [line |-> register.line, type |-> register.type,
                       fill |-> register.fill, waiters |-> register.waiters]
    BY DEF Packet
  <2>2. /\ lowered \in Packet /\ lowered.line = register.line
        /\ lowered.type = register.type
        /\ lowered.fill = 1 <=> register.fill = 1 \/ packet.fill = 1
    BY <2>1, PacketUpdates
  <2>3. Joined(register, packet) = new
    BY <1>2, <2>1 DEF Joined
  <2> HIDE DEF lowered, waiters
  <2>4. /\ new \in Packet /\ new.line = lowered.line /\ new.type = lowered.type
        /\ new.fill = lowered.fill /\ new.waiters = waiters
    BY <2>1, <2>2, PacketUpdates, ZenonT(60)
  <2> HIDE DEF new
  <2> QED
    BY <1>2, <2>2, <2>3, <2>4 DEF waiters
<1> QED
  BY <1>1, <1>2

-----------------------------------------------------------------------------
(***************************************************************************)
(* check_hit returns a way that holds the line.                            *)
(***************************************************************************)
LEMMA HitWayFacts ==
  ASSUME NEW c \in Caches, NEW line, Hits(c, line) # {}
  PROVE  HitWay(c, line) \in Ways(c)
         /\ block[c][get_set(c, line)][HitWay(c, line)].line = line
<1>1. Hits(c, line) \in SUBSET Nat
  BY Geometry DEF Hits, Ways
<1>2. \E way \in Hits(c, line) : \A other \in Hits(c, line) : way <= other
  BY <1>1, NatLeast
<1>3. HitWay(c, line) \in Hits(c, line)
  BY <1>2 DEF HitWay
<1> QED
  BY <1>3 DEF Hits

(***************************************************************************)
(* The victim search finds a way of the set.                               *)
(***************************************************************************)
LEMMA VictimFacts ==
  ASSUME Storage, NEW c \in Caches, NEW line \in Lines
  PROVE  /\ get_set(c, line) \in Sets(c) /\ Victim(c, line) \in Ways(c)
         /\ VictimBlock(c, line) \in Block
<1> DEFINE set == get_set(c, line)
           valid == [way \in Ways(c) |-> block[c][set][way] # NoBlock]
<1>1. set \in Sets(c) /\ NUM_WAY[c] \in Nat \ {0} /\ Ways(c) = 0 .. NUM_WAY[c] - 1
  BY Geometry DEF Ways
<1>2. IsRanking(NUM_WAY[c], lru[c][set]) /\ block[c][set] \in [Ways(c) -> Block]
  BY <1>1 DEF Storage
<1>3. valid \in [0 .. NUM_WAY[c] - 1 -> BOOLEAN]
  BY <1>1
<1>4. Victim(c, line) = lru_victim(NUM_WAY[c], valid, lru[c][set])
  BY DEF Victim
<1> HIDE DEF valid, set
<1>5. Victim(c, line) \in Ways(c)
  BY <1>1, <1>2, <1>3, <1>4, VictimExists, SMTT(40)
<1> QED
  BY <1>1, <1>2, <1>5 DEF VictimBlock, set

(***************************************************************************)
(* Promoting a way keeps every set ranked.                                 *)
(***************************************************************************)
LEMMA PromotedFacts ==
  ASSUME Storage, NEW c \in Caches, NEW line \in Lines, NEW way \in Ways(c),
         lru' = Promoted(c, line, way)
  PROVE  /\ DOMAIN lru' = Caches
         /\ \A k \in Caches : /\ DOMAIN lru'[k] = Sets(k)
                             /\ \A set \in Sets(k) : IsRanking(NUM_WAY[k], lru'[k][set])
<1> DEFINE set == get_set(c, line)
           new == lru_update(NUM_WAY[c], lru[c][set], way)
<1>1. set \in Sets(c) /\ NUM_WAY[c] \in Nat \ {0} /\ way \in 0 .. NUM_WAY[c] - 1
  BY Geometry DEF Ways
<1>2. IsRanking(NUM_WAY[c], new)
  BY <1>1, UpdateRanking DEF Storage
<1>3. lru' = [lru EXCEPT ![c] = [lru[c] EXCEPT ![set] = new]]
  BY DEF Promoted
<1> HIDE DEF new
<1>4. /\ DOMAIN lru = Caches
      /\ \A k \in Caches : DOMAIN lru[k] = Sets(k)
      /\ \A k \in Caches : \A s \in Sets(k) : IsRanking(NUM_WAY[k], lru[k][s])
  BY DEF Storage
<1>5. \A k \in Caches : DOMAIN lru'[k] = Sets(k)
  BY <1>1, <1>3, <1>4
<1>6. \A k \in Caches : \A s \in Sets(k) :
        lru'[k][s] = IF k = c /\ s = set THEN new ELSE lru[k][s]
  BY <1>1, <1>3, <1>4
<1>7. DOMAIN lru' = Caches
  BY <1>3, <1>4
<1>8. \A k \in Caches : \A s \in Sets(k) : IsRanking(NUM_WAY[k], lru'[k][s])
  BY <1>2, <1>4, <1>6
<1> QED
  BY <1>5, <1>7, <1>8

(***************************************************************************)
(* Writing a block keeps the type of the others; only the block that it    *)
(* replaces can cease to be dirty.                                         *)
(***************************************************************************)
LEMMA BlockFacts ==
  ASSUME Storage, NEW c \in Caches, NEW set \in Sets(c), NEW way \in Ways(c),
         NEW new \in Block, block' = [block EXCEPT ![c][set][way] = new]
  PROVE  /\ DOMAIN block' = Caches
         /\ \A k \in Caches : block'[k] \in [Sets(k) -> [Ways(k) -> Block]]
         /\ new.dirty => new.line \in DirtyIn(c)'
         /\ LET old == block[c][set][way]
            IN  DirtyIn(c) \subseteq DirtyIn(c)' \cup (IF old.dirty THEN {old.line} ELSE {})
         /\ \A k \in Caches : k # c => DirtyIn(k)' = DirtyIn(k)
<1>1. /\ DOMAIN block = Caches
      /\ \A k \in Caches : block[k] \in [Sets(k) -> [Ways(k) -> Block]]
  BY DEF Storage
<1> DEFINE row == [block[c][set] EXCEPT ![way] = new]
           column == [block[c] EXCEPT ![set] = row]
<1>2. block' = [block EXCEPT ![c] = column]
  OBVIOUS
<1>3. block[c][set] \in [Ways(c) -> Block]
  BY <1>1
<1>4. /\ row \in [Ways(c) -> Block]
      /\ \A w \in Ways(c) : row[w] = IF w = way THEN new ELSE block[c][set][w]
  BY <1>3
<1> HIDE DEF row
<1>5. /\ column \in [Sets(c) -> [Ways(c) -> Block]]
      /\ \A s \in Sets(c) : column[s] = IF s = set THEN row ELSE block[c][s]
  BY <1>1, <1>4
<1> HIDE DEF column
<1>6. /\ DOMAIN block' = Caches /\ block'[c] = column
      /\ \A k \in Caches : k # c => block'[k] = block[k]
  BY <1>1, <1>2
<1>7. \A k \in Caches : block'[k] \in [Sets(k) -> [Ways(k) -> Block]]
  BY <1>1, <1>5, <1>6
<1>8. \A s \in Sets(c), w \in Ways(c) :
        block'[c][s][w] = IF s = set /\ w = way THEN new ELSE block[c][s][w]
  BY <1>4, <1>5, <1>6
<1>9. new.dirty => new.line \in DirtyIn(c)'
  <2>1. block'[c][set][way] = new /\ <<set, way>> \in Sets(c) \X Ways(c)
    BY <1>8
  <2> QED
    BY <2>1 DEF DirtyIn, Sets, Ways
<1>10. ASSUME NEW line \in DirtyIn(c), line \notin DirtyIn(c)'
       PROVE  block[c][set][way].dirty /\ line = block[c][set][way].line
  <2>1. PICK s \in Sets(c), w \in Ways(c) : block[c][s][w].dirty /\ line = block[c][s][w].line
    BY DEF DirtyIn
  <2>2. ~(block'[c][s][w].dirty /\ line = block'[c][s][w].line)
    <3>1. <<s, w>> \in Sets(c) \X Ways(c)
      OBVIOUS
    <3> QED
      BY <1>10, <3>1 DEF DirtyIn, Sets, Ways
  <2>3. s = set /\ w = way
    BY <1>8, <2>1, <2>2
  <2> QED
    BY <2>1, <2>3
<1>11. \A k \in Caches : k # c => DirtyIn(k)' = DirtyIn(k)
  BY <1>6 DEF DirtyIn, Sets, Ways
<1> QED
  BY <1>6, <1>7, <1>9, <1>10, <1>11

-----------------------------------------------------------------------------
LoadState == [waiting : BOOLEAN, overtaken : 0 .. Window]

(***************************************************************************)
(* What the core does while loads wait is counted within the window, and   *)
(* nothing else about them changes.                                        *)
(***************************************************************************)
LEMMA OvertakenFacts ==
  ASSUME Types, Paced
  PROVE  /\ Overtaken \in [Loads -> LoadState]
         /\ \A d \in Loads : Overtaken[d].waiting = load[d].waiting
<1>1. load \in [Loads -> LoadState]
  BY DEF Types, LoadState
<1>2. ASSUME NEW d \in Loads
      PROVE  Overtaken[d] \in LoadState /\ Overtaken[d].waiting = load[d].waiting
  <2>1. /\ load[d] = [waiting |-> load[d].waiting, overtaken |-> load[d].overtaken]
        /\ load[d].waiting \in BOOLEAN /\ load[d].overtaken \in 0 .. Window
    BY <1>1 DEF LoadState
  <2>2. CASE load[d].waiting
    <3>1. load[d].overtaken + 1 \in 0 .. Window
      BY <2>1, BoundAssumption DEF Paced
    <3>2. Overtaken[d] = [load[d] EXCEPT !.overtaken = load[d].overtaken + 1]
      BY <2>2 DEF Overtaken
    <3>3. Overtaken[d] = [waiting |-> load[d].waiting, overtaken |-> load[d].overtaken + 1]
      BY <2>1, <3>2
    <3> QED
      BY <2>1, <3>1, <3>3 DEF LoadState
  <2>3. CASE ~load[d].waiting
    BY <1>1, <2>3 DEF Overtaken
  <2> QED
    BY <2>1, <2>2, <2>3
<1>3. Overtaken = [d \in Loads |-> Overtaken[d]]
  BY DEF Overtaken
<1> QED
  BY <1>2, <1>3

(***************************************************************************)
(* The loads stay where they are if no packet of the L1D changes its       *)
(* loads.                                                                  *)
(***************************************************************************)
LEMMA SamePlaces ==
  ASSUME LoadsPlaced, RQ'["L1D"] = RQ["L1D"],
         \A d \in Loads : load'[d].waiting = load[d].waiting,
         DOMAIN MSHR["L1D"] \subseteq DOMAIN MSHR'["L1D"],
         \A line \in DOMAIN MSHR["L1D"] : MSHR'["L1D"][line].waiters = MSHR["L1D"][line].waiters,
         \A line \in DOMAIN MSHR'["L1D"] \ DOMAIN MSHR["L1D"] : MSHR'["L1D"][line].waiters = {}
  PROVE  LoadsPlaced'
<1> SUFFICES ASSUME NEW d \in Loads
             PROVE  (/\ load[d].waiting <=>
                          \/ \E i \in DOMAIN RQ["L1D"] : d \in RQ["L1D"][i].waiters
                          \/ \E line \in DOMAIN MSHR["L1D"] : d \in MSHR["L1D"][line].waiters
                     /\ \A i, j \in DOMAIN RQ["L1D"] :
                          d \in RQ["L1D"][i].waiters /\ d \in RQ["L1D"][j].waiters => i = j
                     /\ \A l, m \in DOMAIN MSHR["L1D"] :
                          d \in MSHR["L1D"][l].waiters /\ d \in MSHR["L1D"][m].waiters => l = m
                     /\ \A i \in DOMAIN RQ["L1D"], l \in DOMAIN MSHR["L1D"] :
                          ~(d \in RQ["L1D"][i].waiters /\ d \in MSHR["L1D"][l].waiters))'
  BY DEF LoadsPlaced
<1>1. \A l \in DOMAIN MSHR'["L1D"] : d \in MSHR'["L1D"][l].waiters =>
        l \in DOMAIN MSHR["L1D"] /\ d \in MSHR["L1D"][l].waiters
  OBVIOUS
<1>2. \A l \in DOMAIN MSHR["L1D"] : d \in MSHR["L1D"][l].waiters =>
        l \in DOMAIN MSHR'["L1D"] /\ d \in MSHR'["L1D"][l].waiters
  OBVIOUS
<1> QED
  BY <1>1, <1>2 DEF LoadsPlaced

(***************************************************************************)
(* A read added to the L1D, or merged into one, takes a load that did not  *)
(* wait before.                                                            *)
(***************************************************************************)
LEMMA LoadPlaced ==
  ASSUME LoadsPlaced, NEW d \in Loads, ~load[d].waiting,
         load'[d].waiting,
         \A e \in Loads : e # d => load'[e].waiting = load[e].waiting,
         MSHR' = MSHR, DOMAIN RQ["L1D"] \subseteq DOMAIN RQ'["L1D"],
         NEW at \in DOMAIN RQ'["L1D"],
         \A i \in DOMAIN RQ'["L1D"] : i # at =>
           i \in DOMAIN RQ["L1D"] /\ RQ'["L1D"][i].waiters = RQ["L1D"][i].waiters,
         RQ'["L1D"][at].waiters
           = (IF at \in DOMAIN RQ["L1D"] THEN RQ["L1D"][at].waiters ELSE {}) \cup {d}
  PROVE  LoadsPlaced'
<1> SUFFICES ASSUME NEW e \in Loads
             PROVE  (/\ load[e].waiting <=>
                          \/ \E i \in DOMAIN RQ["L1D"] : e \in RQ["L1D"][i].waiters
                          \/ \E line \in DOMAIN MSHR["L1D"] : e \in MSHR["L1D"][line].waiters
                     /\ \A i, j \in DOMAIN RQ["L1D"] :
                          e \in RQ["L1D"][i].waiters /\ e \in RQ["L1D"][j].waiters => i = j
                     /\ \A l, m \in DOMAIN MSHR["L1D"] :
                          e \in MSHR["L1D"][l].waiters /\ e \in MSHR["L1D"][m].waiters => l = m
                     /\ \A i \in DOMAIN RQ["L1D"], l \in DOMAIN MSHR["L1D"] :
                          ~(e \in RQ["L1D"][i].waiters /\ e \in MSHR["L1D"][l].waiters))'
  BY DEF LoadsPlaced
<1>1. CASE e = d
  <2>1. /\ \A i \in DOMAIN RQ["L1D"] : d \notin RQ["L1D"][i].waiters
        /\ \A line \in DOMAIN MSHR["L1D"] : d \notin MSHR["L1D"][line].waiters
    BY DEF LoadsPlaced
  <2>2. \A i \in DOMAIN RQ'["L1D"] : d \in RQ'["L1D"][i].waiters <=> i = at
    BY <2>1
  <2> QED
    BY <1>1, <2>1, <2>2
<1>2. CASE e # d
  <2>1. \A i \in DOMAIN RQ'["L1D"] : e \in RQ'["L1D"][i].waiters =>
          i \in DOMAIN RQ["L1D"] /\ e \in RQ["L1D"][i].waiters
    BY <1>2
  <2>2. \A i \in DOMAIN RQ["L1D"] : e \in RQ["L1D"][i].waiters =>
          i \in DOMAIN RQ'["L1D"] /\ e \in RQ'["L1D"][i].waiters
    BY <1>2
  <2> QED
    BY <1>2, <2>1, <2>2 DEF LoadsPlaced
<1> QED
  BY <1>1, <1>2

-----------------------------------------------------------------------------
(***************************************************************************)
(* A step that leaves the L2C's queues, the registers and the returned     *)
(* misses alone leaves the misses where they are.                          *)
(***************************************************************************)
LEMMA SameMisses ==
  ASSUME Registers, MissesOfL1D, MissesOfL2C, RQ'["L2C"] = RQ["L2C"], PQ'["L2C"] = PQ["L2C"],
         MSHR' = MSHR, returned' = returned, LLC'.reading = LLC.reading
  PROVE  Registers' /\ MissesOfL1D' /\ MissesOfL2C'
BY DEF Registers, MissesOfL1D, MissesOfL2C, UpwardMisses

(***************************************************************************)
(* A step that leaves the registers, the blocks and the write-backs alone  *)
(* keeps every modification where it is.                                   *)
(***************************************************************************)
LEMMA SameModifications ==
  ASSUME MSHR' = MSHR, block' = block, LLC' = LLC, WQ'["L2C"] = WQ["L2C"]
  PROVE  Kept
<1>1. DirtyIn("L1D")' = DirtyIn("L1D") /\ DirtyIn("L2C")' = DirtyIn("L2C")
  BY DEF DirtyIn, Sets, Ways
<1>2. Modified' = Modified
  BY <1>1 DEF Modified
<1> QED
  BY <1>2 DEF Kept

(***************************************************************************)
(* execute_load keeps the invariant, whether it forwards, merges or adds.  *)
(***************************************************************************)
LEMMA LoadStep ==
  ASSUME IInv, NEW d \in Loads, NEW a \in Addresses, execute_load(d, a)
  PROVE  IInv' /\ Kept
<1> DEFINE q == RQ["L1D"]
           at == Position(q, LineOf(a))
           packet == [line |-> LineOf(a), type |-> "LOAD", fill |-> 1, waiters |-> {d}]
<1>0. "L1D" \in Caches /\ "L2C" \in Caches /\ "L1D" # "L2C"
  BY DEF Caches
<1>1. /\ Types /\ Registers /\ Storage /\ Once /\ MissesOfL1D /\ MissesOfL2C
      /\ NoLoadPrefetched /\ LoadsPlaced
  BY DEF IInv
<1>2. /\ Paced /\ ~load[d].waiting
      /\ UNCHANGED <<PQ, WQ, MSHR, returned, block, lru, LLC>>
  BY DEF execute_load
<1>3. /\ RQ \in [Caches -> Seq(Packet)] /\ q \in Seq(Packet) /\ DOMAIN q = 1 .. Len(q)
      /\ Len(q) \in Nat
  BY <1>0, <1>1 DEF Types
<1>4. /\ Overtaken \in [Loads -> LoadState]
      /\ \A e \in Loads : Overtaken[e].waiting = load[e].waiting
  BY <1>1, <1>2, OvertakenFacts
<1>5. packet \in Packet
  BY <1>0, Geometry DEF Packet
<1>6. Storage' /\ Kept
  BY <1>1, <1>2, SameModifications DEF Storage
<1>7. CASE load' = Overtaken /\ RQ' = RQ
  <2>1. Types'
    BY <1>1, <1>2, <1>4, <1>7 DEF Types, LoadState
  <2>2. Once' /\ NoLoadPrefetched' /\ Registers' /\ MissesOfL1D' /\ MissesOfL2C'
    BY <1>1, <1>2, <1>7, SameMisses DEF Once, NoLoadPrefetched
  <2>3. LoadsPlaced'
    BY <1>1, <1>2, <1>4, <1>7, SamePlaces
  <2> QED
    BY <1>6, <2>1, <2>2, <2>3 DEF IInv
<1>8. CASE /\ load' = [Overtaken EXCEPT ![d].waiting = TRUE]
           /\ \/ at # 0 /\ RQ' = [RQ EXCEPT !["L1D"][at].waiters = @ \cup {d}]
              \/ /\ Len(q) < RQ_SIZE["L1D"]
                 /\ RQ' = [RQ EXCEPT !["L1D"] = Append(@, packet)]
  <2>1. /\ load' \in [Loads -> LoadState] /\ load'[d].waiting
        /\ \A e \in Loads : e # d => load'[e].waiting = load[e].waiting
    <3>1. PICK before \in LoadState : before = Overtaken[d]
      BY <1>4
    <3> DEFINE state == [before EXCEPT !.waiting = TRUE]
    <3>2. /\ before = [waiting |-> before.waiting, overtaken |-> before.overtaken]
          /\ before.overtaken \in 0 .. Window
      BY DEF LoadState
    <3>3. state = [waiting |-> TRUE, overtaken |-> before.overtaken]
      <4>1. \A w : [before EXCEPT !.waiting = w] = [waiting |-> w, overtaken |-> before.overtaken]
        BY <3>2
      <4> QED
        BY <4>1
    <3>4. load' = [Overtaken EXCEPT ![d] = state]
      BY <1>8, <3>1
    <3> HIDE DEF state
    <3>5. state \in LoadState /\ state.waiting
      BY <3>2, <3>3 DEF LoadState
    <3> QED
      BY <1>4, <3>4, <3>5
  <2> DEFINE Queued ==
        /\ RQ' \in [Caches -> Seq(Packet)] /\ RQ'["L2C"] = RQ["L2C"]
        /\ Len(RQ'["L1D"]) <= RQ_SIZE["L1D"]
        /\ \A i \in DOMAIN RQ'["L1D"] : RQ'["L1D"][i].fill = 1 /\ RQ'["L1D"][i].type = "LOAD"
        /\ LoadsPlaced'
  <2>2. ASSUME at # 0, RQ' = [RQ EXCEPT !["L1D"][at].waiters = @ \cup {d}]
        PROVE  Queued
    <3> DEFINE waiters == q[at].waiters \cup {d}
               joined == [q[at] EXCEPT !.waiters = waiters]
               new == [q EXCEPT ![at] = joined]
    <3>1. at \in DOMAIN q /\ q[at] \in Packet
      BY <1>3, <2>2, PositionFacts
    <3>2. RQ' = [RQ EXCEPT !["L1D"] = new]
      BY <2>2
    <3>3. waiters \in SUBSET Loads
      BY <3>1 DEF Packet
    <3> HIDE DEF at, waiters
    <3>4. /\ joined \in Packet /\ joined.fill = q[at].fill /\ joined.type = q[at].type
          /\ joined.waiters = waiters
      BY <3>1, <3>3, PacketUpdates
    <3> HIDE DEF joined
    <3>5. /\ new \in Seq(Packet) /\ Len(new) = Len(q) /\ DOMAIN new = DOMAIN q
          /\ \A j \in DOMAIN q : new[j] = IF j = at THEN joined ELSE q[j]
      BY <1>3, <3>1, <3>4
    <3>6. /\ \A j \in DOMAIN q : q[j].fill = 1 /\ q[j].type = "LOAD"
          /\ Len(q) <= RQ_SIZE["L1D"]
      BY <1>0, <1>1 DEF Once, NoLoadPrefetched, Types
    <3> HIDE DEF new
    <3>7. /\ RQ' \in [Caches -> Seq(Packet)] /\ RQ'["L1D"] = new /\ RQ'["L2C"] = RQ["L2C"]
      BY <1>0, <1>3, <3>2, <3>5
    <3>8. LoadsPlaced'
      <4>1. /\ DOMAIN RQ["L1D"] \subseteq DOMAIN RQ'["L1D"] /\ at \in DOMAIN RQ'["L1D"]
            /\ \A j \in DOMAIN RQ'["L1D"] : j # at =>
                 j \in DOMAIN RQ["L1D"] /\ RQ'["L1D"][j].waiters = RQ["L1D"][j].waiters
            /\ RQ'["L1D"][at].waiters
                 = (IF at \in DOMAIN RQ["L1D"] THEN RQ["L1D"][at].waiters ELSE {}) \cup {d}
        BY <3>1, <3>4, <3>5, <3>7 DEF waiters
      <4> QED
        BY <1>1, <1>2, <2>1, <4>1, LoadPlaced
    <3> QED
      BY <3>1, <3>4, <3>5, <3>6, <3>7, <3>8
  <2>3. ASSUME Len(q) < RQ_SIZE["L1D"], RQ' = [RQ EXCEPT !["L1D"] = Append(@, packet)]
        PROVE  Queued
    <3> DEFINE new == Append(q, packet)
    <3>1. /\ new \in Seq(Packet) /\ Len(new) = Len(q) + 1 /\ DOMAIN new = 1 .. Len(q) + 1
          /\ \A i \in 1 .. Len(q) : new[i] = q[i]
          /\ new[Len(q) + 1] = packet
      BY <1>3, <1>5, AppendFacts
    <3>2. RQ' = [RQ EXCEPT !["L1D"] = new]
      BY <2>3
    <3> HIDE DEF new
    <3>3. /\ Len(q) + 1 \in DOMAIN new /\ DOMAIN q \subseteq DOMAIN new
          /\ Len(new) <= RQ_SIZE["L1D"] /\ Len(q) + 1 \notin DOMAIN q
          /\ \A j \in DOMAIN new : j # Len(q) + 1 => j \in DOMAIN q /\ new[j] = q[j]
      BY <1>0, <1>3, <2>3, <3>1, Geometry
    <3>4. new[Len(q) + 1].waiters = {d} /\ new[Len(q) + 1].fill = 1
          /\ new[Len(q) + 1].type = "LOAD"
      BY <3>1
    <3>5. /\ RQ' \in [Caches -> Seq(Packet)] /\ RQ'["L1D"] = new /\ RQ'["L2C"] = RQ["L2C"]
      BY <1>0, <1>3, <3>1, <3>2
    <3>6. LoadsPlaced'
      BY <1>1, <1>2, <2>1, <3>3, <3>4, <3>5, LoadPlaced
    <3>7. \A j \in DOMAIN q : q[j].fill = 1 /\ q[j].type = "LOAD"
      BY <1>1 DEF Once, NoLoadPrefetched
    <3> HIDE DEF q
    <3> QED
      BY <3>3, <3>4, <3>5, <3>6, <3>7
  <2>4. Queued
    <3> HIDE DEF Queued, packet, at, q
    <3> QED
      BY <1>8, <2>2, <2>3
  <2>5. Types'
    BY <1>0, <1>1, <1>2, <2>1, <2>4 DEF Types, LoadState, Caches
  <2>6. Once' /\ NoLoadPrefetched'
    BY <1>1, <1>2, <2>4 DEF Once, NoLoadPrefetched
  <2>7. Registers' /\ MissesOfL1D' /\ MissesOfL2C'
    BY <1>1, <1>2, <2>4, SameMisses
  <2> QED
    BY <1>6, <2>4, <2>5, <2>6, <2>7 DEF IInv
<1> QED
  BY <1>7, <1>8 DEF execute_load

(***************************************************************************)
(* retire_store keeps the invariant: add_wq is reached only with room.     *)
(***************************************************************************)
LEMMA StoreStep ==
  ASSUME IInv, NEW a \in Addresses, retire_store(a)
  PROVE  IInv' /\ Kept
<1>0. "L1D" \in Caches /\ "L2C" \in Caches /\ "L1D" # "L2C"
  BY DEF Caches
<1>1. /\ Types /\ Registers /\ Storage /\ Once /\ MissesOfL1D /\ MissesOfL2C
      /\ NoLoadPrefetched /\ LoadsPlaced
  BY DEF IInv
<1>2. /\ Paced /\ load' = Overtaken
      /\ UNCHANGED <<RQ, PQ, MSHR, returned, block, lru, LLC>>
  BY DEF retire_store
<1>3. /\ Overtaken \in [Loads -> LoadState]
      /\ \A e \in Loads : Overtaken[e].waiting = load[e].waiting
  BY <1>1, <1>2, OvertakenFacts
<1>4. /\ DOMAIN WQ' = Caches /\ WQ'["L2C"] = WQ["L2C"]
      /\ WQ'["L1D"] \in Seq(Addresses) /\ Len(WQ'["L1D"]) <= WQ_SIZE["L1D"]
  <2>1. /\ DOMAIN WQ = Caches /\ WQ["L1D"] \in Seq(Addresses)
        /\ Len(WQ["L1D"]) < WQ_SIZE["L1D"] /\ WQ_SIZE["L1D"] \in Nat
    BY <1>0, <1>1, Geometry DEF Types, Written, retire_store
  <2>2. CASE WQ' = WQ
    BY <2>1, <2>2
  <2>3. CASE WQ' = [WQ EXCEPT !["L1D"] = Append(@, a)]
    <3>1. /\ Append(WQ["L1D"], a) \in Seq(Addresses)
          /\ Len(Append(WQ["L1D"], a)) = Len(WQ["L1D"]) + 1 /\ Len(WQ["L1D"]) \in Nat
      BY <2>1, AppendFacts
    <3> QED
      BY <1>0, <2>1, <2>3, <3>1
  <2> QED
    BY <2>2, <2>3 DEF retire_store
<1>5. Types'
  <2>1. \A c \in Caches : WQ'[c] \in Seq(Written(c)) /\ Len(WQ'[c]) <= WQ_SIZE[c]
    BY <1>0, <1>1, <1>4 DEF Types, Written, Caches
  <2> QED
    BY <1>1, <1>2, <1>3, <1>4, <2>1 DEF Types, LoadState
<1>6. Storage' /\ Once' /\ NoLoadPrefetched'
  BY <1>1, <1>2 DEF Storage, Once, NoLoadPrefetched
<1>7. Registers' /\ MissesOfL1D' /\ MissesOfL2C'
  BY <1>1, <1>2, SameMisses
<1>8. LoadsPlaced'
  BY <1>1, <1>2, <1>3, SamePlaces
<1>9. Kept
  BY <1>2, <1>4, SameModifications
<1> QED
  BY <1>5, <1>6, <1>7, <1>8, <1>9 DEF IInv

(***************************************************************************)
(* prefetch_line keeps the invariant: a prefetch of the L2C for itself     *)
(* raises no line's level.                                                 *)
(***************************************************************************)
LEMMA PrefetchStep ==
  ASSUME IInv, NEW c \in Caches, NEW request \in Prefetched[c],
         prefetch_line(c, request[1], request[2])
  PROVE  IInv' /\ Kept
<1> DEFINE packet == [line |-> LineOf(request[1]), type |-> "PREFETCH",
                      fill |-> request[2], waiters |-> {}]
<1>0. "L1D" \in Caches /\ "L2C" \in Caches /\ "L1D" # "L2C"
  BY DEF Caches
<1>1. /\ Types /\ Registers /\ Storage /\ Once /\ MissesOfL1D /\ MissesOfL2C
      /\ NoLoadPrefetched /\ LoadsPlaced
  BY DEF IInv
<1>2. /\ Paced /\ load' = Overtaken /\ Len(PQ[c]) < PQ_SIZE[c]
      /\ PQ' = [PQ EXCEPT ![c] = Prefetching(PQ[c], packet)]
      /\ UNCHANGED <<RQ, WQ, MSHR, returned, block, lru, LLC>>
  BY DEF prefetch_line
<1>3. /\ request[1] \in Addresses /\ request[2] \in {1, 2} /\ fill_level[c] <= request[2]
  BY PrefetchAssumption
<1>4. packet \in Packet /\ packet.waiters = {} /\ packet.fill = request[2]
  BY <1>0, <1>3, Geometry DEF Packet
<1> HIDE DEF packet
<1>5. /\ Overtaken \in [Loads -> LoadState]
      /\ \A e \in Loads : Overtaken[e].waiting = load[e].waiting
  BY <1>1, <1>2, OvertakenFacts
<1> DEFINE new == Prefetching(PQ[c], packet)
<1>6. /\ PQ \in [Caches -> Seq(Packet)] /\ PQ[c] \in Seq(Packet) /\ Len(PQ[c]) \in Nat
      /\ PQ_SIZE[c] \in Nat
  BY <1>1, Geometry DEF Types
<1>7. /\ new \in Seq(Packet) /\ Len(new) \in {Len(PQ[c]), Len(PQ[c]) + 1}
      /\ DistinctLines(PQ[c]) => DistinctLines(new)
      /\ DistinctLines(PQ[c]) =>
           UpwardLines(new)
             = UpwardLines(PQ[c]) \cup (IF packet.fill = 1 THEN {packet.line} ELSE {})
      /\ (\A i \in DOMAIN PQ[c] : PQ[c][i].waiters = {}) /\ packet.waiters = {} =>
           \A i \in DOMAIN new : new[i].waiters = {}
  BY <1>4, <1>6, PrefetchingFacts
<1> HIDE DEF new
<1>8. /\ PQ' \in [Caches -> Seq(Packet)] /\ PQ'[c] = new
      /\ \A k \in Caches : k # c => PQ'[k] = PQ[k]
      /\ \A k \in Caches : Len(PQ'[k]) <= PQ_SIZE[k]
  <2>1. PQ' = [PQ EXCEPT ![c] = new]
    BY <1>2 DEF new
  <2>2. PQ' \in [Caches -> Seq(Packet)] /\ PQ'[c] = new /\ \A k \in Caches : k # c => PQ'[k] = PQ[k]
    BY <1>6, <1>7, <2>1
  <2>3. Len(new) <= PQ_SIZE[c]
    BY <1>2, <1>6, <1>7
  <2> QED
    BY <1>1, <2>2, <2>3 DEF Types
<1>9. Types'
  BY <1>1, <1>2, <1>5, <1>8 DEF Types, LoadState
<1>10. UpwardLines(PQ'["L2C"]) = UpwardLines(PQ["L2C"]) /\ DistinctLines(PQ'["L2C"])
  <2>1. CASE c = "L2C"
    <3>1. packet.fill # 1
      BY <1>3, <1>4, <2>1 DEF fill_level
    <3>2. DistinctLines(PQ[c])
      BY <1>1, <2>1 DEF Once
    <3> QED
      BY <1>7, <1>8, <2>1, <3>1, <3>2
  <2>2. CASE c # "L2C"
    BY <1>0, <1>1, <1>8, <2>2 DEF Once
  <2> QED
    BY <2>1, <2>2
<1>11. \A i \in DOMAIN PQ'["L1D"] : PQ'["L1D"][i].waiters = {}
  BY <1>0, <1>1, <1>4, <1>7, <1>8 DEF NoLoadPrefetched
<1>12. Storage' /\ Once' /\ NoLoadPrefetched'
  BY <1>1, <1>2, <1>10, <1>11 DEF Storage, Once, NoLoadPrefetched
<1>13. Registers' /\ MissesOfL1D' /\ MissesOfL2C'
  BY <1>1, <1>2, <1>10 DEF Registers, MissesOfL1D, MissesOfL2C, UpwardMisses
<1>14. LoadsPlaced'
  BY <1>1, <1>2, <1>5, SamePlaces
<1>15. Kept
  BY <1>2, SameModifications
<1> QED
  BY <1>9, <1>12, <1>13, <1>14, <1>15 DEF IInv

(***************************************************************************)
(* An answer of the LLC moves a miss of the L2C from being read to having  *)
(* returned.                                                               *)
(***************************************************************************)
LEMMA LLCReturnsStep ==
  ASSUME IInv, NEW line \in Lines, LLCReturns(line)
  PROVE  IInv' /\ Kept
<1> DEFINE q == returned["L2C"]
<1>0. "L1D" \in Caches /\ "L2C" \in Caches /\ "L1D" # "L2C"
  BY DEF Caches
<1>1. /\ Types /\ Registers /\ Storage /\ Once /\ MissesOfL1D /\ MissesOfL2C
      /\ NoLoadPrefetched /\ LoadsPlaced
  BY DEF IInv
<1>2. /\ line \in LLC.reading
      /\ LLC' = [LLC EXCEPT !.reading = @ \ {line}]
      /\ returned' = [returned EXCEPT !["L2C"] = Append(@, line)]
      /\ UNCHANGED <<load, RQ, PQ, WQ, MSHR, block, lru>>
  BY DEF LLCReturns
<1>3. /\ LLC = [WQ |-> LLC.WQ, reading |-> LLC.reading]
      /\ LLC.WQ \in SUBSET Lines /\ LLC.reading \in SUBSET Lines
  BY <1>1 DEF Types
<1>4. LLC' = [WQ |-> LLC.WQ, reading |-> LLC.reading \ {line}]
  BY <1>2, <1>3
<1>5. LLC'.WQ = LLC.WQ /\ LLC'.reading = LLC.reading \ {line}
      /\ LLC' \in [WQ : SUBSET Lines, reading : SUBSET Lines]
  BY <1>3, <1>4
<1>6. returned \in [Caches -> Seq(Lines)] /\ q \in Seq(Lines)
  BY <1>0, <1>1 DEF Types
<1>7. /\ returned' \in [Caches -> Seq(Lines)] /\ returned'["L1D"] = returned["L1D"]
      /\ returned'["L2C"] = Append(q, line)
  BY <1>0, <1>2, <1>6, AppendFacts
<1>8. line \notin Elements(q)
  BY <1>1, <1>2 DEF MissesOfL2C
<1>9. Distinct(returned'["L2C"]) /\ Elements(returned'["L2C"]) = Elements(q) \cup {line}
  BY <1>0, <1>1, <1>6, <1>7, <1>8, AppendElements DEF Once
<1>10. Types'
  BY <1>1, <1>2, <1>5, <1>7 DEF Types
<1>11. Once' /\ Registers' /\ Storage' /\ NoLoadPrefetched'
  BY <1>0, <1>1, <1>2, <1>7, <1>9 DEF Once, Registers, Storage, NoLoadPrefetched, Caches
<1>12. MissesOfL1D'
  BY <1>1, <1>2, <1>7 DEF MissesOfL1D, UpwardMisses
<1>13. MissesOfL2C'
  BY <1>1, <1>2, <1>5, <1>9 DEF MissesOfL2C
<1>14. LoadsPlaced'
  BY <1>1, <1>2, SamePlaces
<1>15. Kept
  <2>1. DirtyIn("L1D")' = DirtyIn("L1D") /\ DirtyIn("L2C")' = DirtyIn("L2C")
    BY <1>2 DEF DirtyIn, Sets, Ways
  <2>2. Modified' = Modified
    BY <1>2, <1>5, <2>1 DEF Modified
  <2> QED
    BY <2>2 DEF Kept
<1> QED
  BY <1>10, <1>11, <1>12, <1>13, <1>14, <1>15 DEF IInv

(***************************************************************************)
(* The LLC takes a write-back to memory: the only step that may end a      *)
(* modification.                                                           *)
(***************************************************************************)
LEMMA LLCWritesStep ==
  ASSUME IInv, NEW line \in Lines, LLCWrites(line)
  PROVE  IInv' /\ Kept
<1>1. /\ Types /\ Registers /\ Storage /\ Once /\ MissesOfL1D /\ MissesOfL2C
      /\ NoLoadPrefetched /\ LoadsPlaced
  BY DEF IInv
<1>2. /\ line \in LLC.WQ
      /\ LLC' = [LLC EXCEPT !.WQ = @ \ {line}]
      /\ UNCHANGED <<load, RQ, PQ, WQ, MSHR, returned, block, lru>>
  BY DEF LLCWrites
<1>3. /\ LLC = [WQ |-> LLC.WQ, reading |-> LLC.reading]
      /\ LLC.WQ \in SUBSET Lines /\ LLC.reading \in SUBSET Lines
  BY <1>1 DEF Types
<1>4. LLC' = [WQ |-> LLC.WQ \ {line}, reading |-> LLC.reading]
  BY <1>2, <1>3
<1>5. LLC'.WQ = LLC.WQ \ {line} /\ LLC'.reading = LLC.reading
      /\ LLC' \in [WQ : SUBSET Lines, reading : SUBSET Lines]
  BY <1>3, <1>4
<1>6. IsFiniteSet(LLC'.WQ) /\ Cardinality(LLC'.WQ) <= LLC_WQ_SIZE
  <2>1. /\ IsFiniteSet(LLC.WQ) /\ Cardinality(LLC.WQ) <= LLC_WQ_SIZE
        /\ Cardinality(LLC.WQ) \in Nat /\ LLC_WQ_SIZE \in Nat
    BY <1>1, FS_CardinalityType, BoundAssumption DEF Types
  <2>2. IsFiniteSet(LLC'.WQ) /\ Cardinality(LLC'.WQ) <= Cardinality(LLC.WQ)
        /\ Cardinality(LLC'.WQ) \in Nat
    BY <1>5, <2>1, FS_Subset, FS_CardinalityType
  <2> QED
    BY <2>1, <2>2
<1>7. Types'
  BY <1>1, <1>2, <1>5, <1>6 DEF Types
<1>8. Once' /\ Storage' /\ NoLoadPrefetched'
  BY <1>1, <1>2 DEF Once, Storage, NoLoadPrefetched
<1>9. Registers' /\ MissesOfL1D' /\ MissesOfL2C'
  BY <1>1, <1>2, <1>5, SameMisses
<1>10. LoadsPlaced'
  BY <1>1, <1>2, SamePlaces
<1>11. Kept
  <2>1. DirtyIn("L1D")' = DirtyIn("L1D") /\ DirtyIn("L2C")' = DirtyIn("L2C")
    BY <1>2 DEF DirtyIn, Sets, Ways
  <2>2. Modified \ Modified' \subseteq {line}
    BY <1>2, <1>5, <2>1 DEF Modified
  <2> QED
    BY <1>2, <1>5, <2>2 DEF Kept
<1> QED
  BY <1>7, <1>8, <1>9, <1>10, <1>11 DEF IInv

-----------------------------------------------------------------------------
(***************************************************************************)
(* A sequence without repetition is as long as its set of elements, or of  *)
(* lines.                                                                  *)
(***************************************************************************)
LEMMA DistinctSize ==
  ASSUME NEW S, NEW q \in Seq(S)
  PROVE  /\ Distinct(q) => IsFiniteSet(Elements(q)) /\ Cardinality(Elements(q)) = Len(q)
         /\ DistinctLines(q) => IsFiniteSet(LinesOf(q)) /\ Cardinality(LinesOf(q)) = Len(q)
<1> DEFINE indices == 1 .. Len(q)
<1>1. Len(q) \in Nat /\ DOMAIN q = indices
  OBVIOUS
<1>2. IsFiniteSet(indices) /\ Cardinality(indices) = Len(q)
  <2>1. 1 \in Int /\ Len(q) \in Int
    BY <1>1
  <2>2. Cardinality(indices) = IF 1 > Len(q) THEN 0 ELSE Len(q) - 1 + 1
    BY <2>1, FS_Interval
  <2>3. IsFiniteSet(indices)
    BY <2>1, FS_Interval
  <2> QED
    BY <1>1, <2>2, <2>3
<1> HIDE DEF indices
<1>3. ASSUME Distinct(q)
      PROVE  IsFiniteSet(Elements(q)) /\ Cardinality(Elements(q)) = Len(q)
  <2> DEFINE f == [i \in indices |-> q[i]]
  <2>1. f = [i \in indices |-> f[i]] /\ \A i, j \in indices : f[i] = f[j] => i = j
    BY <1>1, <1>3 DEF Distinct
  <2>2. {f[i] : i \in indices} = Elements(q)
    BY <1>1 DEF Elements
  <2> HIDE DEF f
  <2> QED
    BY <1>2, <2>1, <2>2, ImageSize
<1>4. ASSUME DistinctLines(q)
      PROVE  IsFiniteSet(LinesOf(q)) /\ Cardinality(LinesOf(q)) = Len(q)
  <2> DEFINE f == [i \in indices |-> q[i].line]
  <2>1. f = [i \in indices |-> f[i]] /\ \A i, j \in indices : f[i] = f[j] => i = j
    BY <1>1, <1>4 DEF DistinctLines
  <2>2. {f[i] : i \in indices} = LinesOf(q)
    BY <1>1 DEF LinesOf
  <2> HIDE DEF f
  <2> QED
    BY <1>2, <2>1, <2>2, ImageSize
<1> QED
  BY <1>3, <1>4

(***************************************************************************)
(* A new miss of the L1D finds room in the read queue of the L2C and no    *)
(* packet there to merge with: what is queued there are other misses of    *)
(* the L1D, and the registers are no more than the slots.                  *)
(***************************************************************************)
LEMMA RoomBelow ==
  ASSUME Types, Registers, Once, MissesOfL1D, NEW line,
         ~InFlight("L1D", line), ~MshrFull("L1D")
  PROVE  Len(RQ["L2C"]) < RQ_SIZE["L2C"] /\ line \notin LinesOf(RQ["L2C"])
<1> DEFINE q == RQ["L2C"]
           misses == DOMAIN MSHR["L1D"]
<1>0. "L1D" \in Caches /\ "L2C" \in Caches
  BY DEF Caches
<1>1. q \in Seq(Packet) /\ Len(q) \in Nat /\ DistinctLines(q)
  BY <1>0 DEF Types, Once
<1>2. LinesOf(q) \subseteq misses /\ line \notin misses
  BY DEF MissesOfL1D, InFlight
<1>3. /\ IsFiniteSet(misses) /\ Cardinality(misses) <= MSHR_SIZE["L1D"]
      /\ Cardinality(misses) # MSHR_SIZE["L1D"]
      /\ MSHR_SIZE["L1D"] \in Nat /\ RQ_SIZE["L2C"] \in Nat
  BY <1>0, Geometry DEF Registers, MshrFull
<1> HIDE DEF q, misses
<1>4. Cardinality(LinesOf(q)) = Len(q) /\ IsFiniteSet(LinesOf(q))
  BY <1>1, DistinctSize
<1>5. Len(q) <= Cardinality(misses) /\ Cardinality(misses) \in Nat
  BY <1>2, <1>3, <1>4, FS_Subset, FS_CardinalityType
<1>6. Len(q) < RQ_SIZE["L2C"]
  BY <1>1, <1>3, <1>5, MissesFit
<1> QED
  BY <1>2, <1>6 DEF q

(***************************************************************************)
(* The L1D's request is answered at once by a write-back of the line or    *)
(* goes to the L2C's read queue, which accepts it; it is found there once. *)
(***************************************************************************)
LEMMA RequestL2C ==
  ASSUME Types, Registers, Once, MissesOfL1D, NEW packet \in Packet, packet.fill = 1,
         ~InFlight("L1D", packet.line), ~MshrFull("L1D"),
         NEW rq \in [Caches -> Seq(Packet)], rq["L2C"] = RQ["L2C"],
         RequestBelow("L1D", packet, rq)
  PROVE  /\ RQ' \in [Caches -> Seq(Packet)] /\ RQ'["L1D"] = rq["L1D"]
         /\ returned' \in [Caches -> Seq(Lines)] /\ returned'["L2C"] = returned["L2C"]
         /\ LLC' = LLC /\ Len(RQ'["L2C"]) <= RQ_SIZE["L2C"]
         /\ DistinctLines(RQ'["L2C"]) /\ \A i \in DOMAIN RQ'["L2C"] : RQ'["L2C"][i].fill = 1
         /\ Distinct(returned'["L1D"])
         /\ \/ /\ LinesOf(RQ'["L2C"]) = LinesOf(RQ["L2C"])
               /\ Elements(returned'["L1D"]) = Elements(returned["L1D"]) \cup {packet.line}
            \/ /\ LinesOf(RQ'["L2C"]) = LinesOf(RQ["L2C"]) \cup {packet.line}
               /\ Elements(returned'["L1D"]) = Elements(returned["L1D"])
<1> DEFINE line == packet.line
           q == RQ["L2C"]
           r == returned["L1D"]
<1>0. "L1D" \in Caches /\ "L2C" \in Caches /\ "L1D" # "L2C"
  BY DEF Caches
<1>1. line \in Lines /\ q \in Seq(Packet) /\ r \in Seq(Lines) /\ returned \in [Caches -> Seq(Lines)]
  BY <1>0 DEF Types, Packet
<1>2. /\ DistinctLines(q) /\ \A i \in DOMAIN q : q[i].fill = 1
      /\ Distinct(r) /\ Len(q) <= RQ_SIZE["L2C"]
  BY <1>0 DEF Once, Types
<1>3. CASE WrittenBackBelow("L1D", line)
  <2>1. /\ returned' = [returned EXCEPT !["L1D"] = Append(r, line)]
        /\ RQ' = rq /\ LLC' = LLC
    BY <1>3 DEF RequestBelow
  <2>2. line \notin Elements(r)
    BY DEF MissesOfL1D, InFlight
  <2>3. /\ Append(r, line) \in Seq(Lines) /\ Distinct(Append(r, line))
        /\ Elements(Append(r, line)) = Elements(r) \cup {line}
    BY <1>1, <1>2, <2>2, AppendFacts, AppendElements
  <2>4. /\ returned' \in [Caches -> Seq(Lines)] /\ returned'["L2C"] = returned["L2C"]
        /\ returned'["L1D"] = Append(r, line)
    BY <1>0, <1>1, <2>1, <2>3
  <2> HIDE DEF line, q, r
  <2> QED
    BY <1>2, <2>1, <2>3, <2>4 DEF q, r, line
<1>4. CASE ~WrittenBackBelow("L1D", line)
  <2>1. Len(q) < RQ_SIZE["L2C"] /\ line \notin LinesOf(q)
    BY RoomBelow
  <2>2. Position(q, line) = 0
    BY <1>1, <2>1, PositionFacts
  <2>3. RQ_SIZE["L2C"] \in Nat /\ Len(q) \in Nat
    BY <1>0, <1>1, Geometry
  <2>4. QueuedBelow(q, packet) = Append(q, packet)
    BY <2>1, <2>2, <2>3 DEF QueuedBelow
  <2>5. /\ returned' = returned /\ LLC' = LLC
        /\ RQ' = [rq EXCEPT !["L2C"] = Append(q, packet)]
    <3>1. RQ' = [rq EXCEPT !["L2C"] = QueuedBelow(rq["L2C"], packet)]
      BY <1>4 DEF RequestBelow
    <3> QED
      BY <1>4, <2>4, <3>1 DEF RequestBelow
  <2> DEFINE new == Append(q, packet)
  <2>6. /\ new \in Seq(Packet) /\ Len(new) = Len(q) + 1
        /\ DOMAIN new = 1 .. Len(q) + 1 /\ DOMAIN q = 1 .. Len(q)
        /\ \A i \in 1 .. Len(q) : new[i] = q[i]
        /\ new[Len(q) + 1] = packet
    BY <1>1, AppendFacts
  <2>7. DistinctLines(new) /\ LinesOf(new) = LinesOf(q) \cup {line}
    BY <1>1, <1>2, <2>1, AppendLines
  <2> HIDE DEF new
  <2>8. RQ' \in [Caches -> Seq(Packet)] /\ RQ'["L1D"] = rq["L1D"] /\ RQ'["L2C"] = new
    BY <1>0, <2>5, <2>6 DEF new
  <2>9. \A i \in DOMAIN new : new[i].fill = 1
    BY <1>2, <2>3, <2>6
  <2>10. Len(new) <= RQ_SIZE["L2C"]
    BY <2>1, <2>3, <2>6
  <2> HIDE DEF q, r, line
  <2> QED
    BY <1>1, <1>2, <2>5, <2>7, <2>8, <2>9, <2>10 DEF q, r, line
<1> QED
  BY <1>3, <1>4

(***************************************************************************)
(* The L2C's request is answered at once by a write-back of the line or    *)
(* read by the LLC.                                                        *)
(***************************************************************************)
LEMMA RequestLLC ==
  ASSUME Types, Registers, Once, MissesOfL2C, NEW packet \in Packet,
         ~InFlight("L2C", packet.line), NEW rq, RequestBelow("L2C", packet, rq)
  PROVE  /\ RQ' = rq /\ LLC' \in [WQ : SUBSET Lines, reading : SUBSET Lines] /\ LLC'.WQ = LLC.WQ
         /\ returned' \in [Caches -> Seq(Lines)] /\ returned'["L1D"] = returned["L1D"]
         /\ Distinct(returned'["L2C"])
         /\ \/ /\ LLC'.reading = LLC.reading
               /\ Elements(returned'["L2C"]) = Elements(returned["L2C"]) \cup {packet.line}
            \/ /\ LLC'.reading = LLC.reading \cup {packet.line}
               /\ Elements(returned'["L2C"]) = Elements(returned["L2C"])
<1> DEFINE line == packet.line
           r == returned["L2C"]
<1>0. "L1D" \in Caches /\ "L2C" \in Caches /\ "L1D" # "L2C"
  BY DEF Caches
<1>1. line \in Lines /\ r \in Seq(Lines) /\ returned \in [Caches -> Seq(Lines)] /\ Distinct(r)
  BY <1>0 DEF Types, Packet, Once
<1>2. /\ LLC = [WQ |-> LLC.WQ, reading |-> LLC.reading]
      /\ LLC.WQ \in SUBSET Lines /\ LLC.reading \in SUBSET Lines
      /\ LLC \in [WQ : SUBSET Lines, reading : SUBSET Lines]
  BY DEF Types
<1>3. CASE WrittenBackBelow("L2C", line)
  <2>1. /\ returned' = [returned EXCEPT !["L2C"] = Append(r, line)]
        /\ RQ' = rq /\ LLC' = LLC
    BY <1>3 DEF RequestBelow
  <2>2. line \notin Elements(r)
    BY DEF MissesOfL2C, InFlight
  <2>3. /\ Append(r, line) \in Seq(Lines) /\ Distinct(Append(r, line))
        /\ Elements(Append(r, line)) = Elements(r) \cup {line}
    BY <1>1, <2>2, AppendFacts, AppendElements
  <2>4. /\ returned' \in [Caches -> Seq(Lines)] /\ returned'["L1D"] = returned["L1D"]
        /\ returned'["L2C"] = Append(r, line)
    BY <1>0, <1>1, <2>1, <2>3
  <2> HIDE DEF line, r
  <2> QED
    BY <1>2, <2>1, <2>3, <2>4 DEF r, line
<1>4. CASE ~WrittenBackBelow("L2C", line)
  <2>1. /\ returned' = returned /\ RQ' = rq
        /\ LLC' = [LLC EXCEPT !.reading = LLC.reading \cup {line}]
    BY <1>0, <1>4 DEF RequestBelow
  <2>2. LLC' = [WQ |-> LLC.WQ, reading |-> LLC.reading \cup {line}]
    BY <1>2, <2>1
  <2>3. LLC' \in [WQ : SUBSET Lines, reading : SUBSET Lines]
        /\ LLC'.WQ = LLC.WQ /\ LLC'.reading = LLC.reading \cup {line}
    BY <1>1, <1>2, <2>2
  <2> QED
    BY <1>1, <2>1, <2>3
<1> QED
  BY <1>3, <1>4

(***************************************************************************)
(* A dirty block of the L1D finds its place in the L2C's write queue.      *)
(***************************************************************************)
LEMMA WriteL2C ==
  ASSUME Types, NEW line \in Lines, ~WqFullBelow("L1D"), WriteBelow("L1D", line, WQ)
  PROVE  /\ LLC' = LLC /\ DOMAIN WQ' = Caches /\ WQ'["L1D"] = WQ["L1D"]
         /\ WQ'["L2C"] \in Seq(Lines) /\ Len(WQ'["L2C"]) <= WQ_SIZE["L2C"]
         /\ Elements(WQ'["L2C"]) = Elements(WQ["L2C"]) \cup {line}
<1> DEFINE q == WQ["L2C"]
<1>0. "L1D" \in Caches /\ "L2C" \in Caches /\ "L1D" # "L2C"
  BY DEF Caches
<1>1. /\ q \in Seq(Lines) /\ Len(q) <= WQ_SIZE["L2C"] /\ Len(q) # WQ_SIZE["L2C"]
      /\ Len(q) \in Nat /\ WQ_SIZE["L2C"] \in Nat /\ DOMAIN WQ = Caches
  BY <1>0, Geometry DEF Types, Written, WqFullBelow
<1>2. CASE \E i \in DOMAIN q : q[i] = line
  <2>1. WQ' = WQ /\ LLC' = LLC
    BY <1>2 DEF WriteBelow
  <2>2. line \in Elements(q)
    BY <1>2 DEF Elements
  <2> QED
    BY <1>1, <2>1, <2>2
<1>3. CASE ~\E i \in DOMAIN q : q[i] = line
  <2>1. WQ' = [WQ EXCEPT !["L2C"] = Append(q, line)] /\ LLC' = LLC
    BY <1>3 DEF WriteBelow
  <2>2. /\ Append(q, line) \in Seq(Lines) /\ Len(Append(q, line)) = Len(q) + 1
        /\ Elements(Append(q, line)) = Elements(q) \cup {line}
    BY <1>1, AppendFacts, AppendElements
  <2> HIDE DEF q
  <2>3. DOMAIN WQ' = Caches /\ WQ'["L2C"] = Append(q, line) /\ WQ'["L1D"] = WQ["L1D"]
    BY <1>0, <1>1, <2>1
  <2>4. Len(Append(q, line)) <= WQ_SIZE["L2C"]
    BY <1>1, <2>2
  <2> QED
    BY <2>1, <2>2, <2>3, <2>4 DEF q
<1> QED
  BY <1>2, <1>3

(***************************************************************************)
(* A dirty block of the L2C finds its place in the LLC's write queue.      *)
(***************************************************************************)
LEMMA WriteLLC ==
  ASSUME Types, NEW line \in Lines, ~WqFullBelow("L2C"), NEW wq, WriteBelow("L2C", line, wq)
  PROVE  /\ WQ' = wq /\ LLC' \in [WQ : SUBSET Lines, reading : SUBSET Lines]
         /\ LLC'.reading = LLC.reading /\ LLC'.WQ = LLC.WQ \cup {line}
         /\ IsFiniteSet(LLC'.WQ) /\ Cardinality(LLC'.WQ) <= LLC_WQ_SIZE
<1>0. "L2C" # "L1D"
  OBVIOUS
<1>1. /\ LLC = [WQ |-> LLC.WQ, reading |-> LLC.reading]
      /\ LLC.WQ \in SUBSET Lines /\ LLC.reading \in SUBSET Lines
  BY DEF Types
<1>2. WQ' = wq /\ LLC' = [LLC EXCEPT !.WQ = LLC.WQ \cup {line}]
  BY <1>0 DEF WriteBelow
<1>3. LLC' = [WQ |-> LLC.WQ \cup {line}, reading |-> LLC.reading]
  BY <1>1, <1>2
<1>4. LLC' \in [WQ : SUBSET Lines, reading : SUBSET Lines]
      /\ LLC'.reading = LLC.reading /\ LLC'.WQ = LLC.WQ \cup {line}
  BY <1>1, <1>3
<1>5. /\ IsFiniteSet(LLC.WQ) /\ Cardinality(LLC.WQ) <= LLC_WQ_SIZE
      /\ Cardinality(LLC.WQ) # LLC_WQ_SIZE
      /\ Cardinality(LLC.WQ) \in Nat /\ LLC_WQ_SIZE \in Nat
  BY <1>0, FS_CardinalityType, BoundAssumption DEF Types, WqFullBelow
<1>6. IsFiniteSet(LLC'.WQ) /\ Cardinality(LLC'.WQ) <= LLC_WQ_SIZE
  <2>1. CASE line \in LLC.WQ
    <3>1. LLC'.WQ = LLC.WQ
      BY <1>4, <2>1
    <3> QED
      BY <1>5, <3>1
  <2>2. CASE line \notin LLC.WQ
    <3>1. IsFiniteSet(LLC'.WQ) /\ Cardinality(LLC'.WQ) = Cardinality(LLC.WQ) + 1
      BY <1>4, <1>5, <2>2, FS_AddElement
    <3> QED
      BY <1>5, <3>1
  <2> QED
    BY <2>1, <2>2
<1> QED
  BY <1>2, <1>4, <1>6

-----------------------------------------------------------------------------
(***************************************************************************)
(* Completed loads wait no longer, the others as before.                   *)
(***************************************************************************)
LEMMA CompletedFacts ==
  ASSUME Types, NEW waiters
  PROVE  /\ Completed(waiters) \in [Loads -> LoadState]
         /\ \A d \in Loads : Completed(waiters)[d].waiting
                               <=> d \notin waiters /\ load[d].waiting
<1>1. load \in [Loads -> LoadState]
  BY DEF Types, LoadState
<1>2. Idle \in LoadState /\ ~Idle.waiting
  BY BoundAssumption DEF Idle, LoadState
<1> QED
  BY <1>1, <1>2 DEF Completed

(***************************************************************************)
(* A read that hits has its loads answered, and nobody else has them.      *)
(***************************************************************************)
LEMMA HeadAnswered ==
  ASSUME Types, LoadsPlaced, RQ["L1D"] \in Seq(Packet), RQ["L1D"] # << >>,
         RQ'["L1D"] = Tail(RQ["L1D"]), MSHR'["L1D"] = MSHR["L1D"],
         load' = Completed(Head(RQ["L1D"]).waiters)
  PROVE  LoadsPlaced'
<1> DEFINE q == RQ["L1D"]
           n == Len(q)
<1>1. /\ n \in Nat \ {0} /\ DOMAIN q = 1 .. n /\ Head(q) = q[1]
      /\ DOMAIN Tail(q) = 1 .. n - 1
      /\ \A i \in 1 .. n - 1 : Tail(q)[i] = q[i + 1]
  BY TailFacts
<1>2. /\ DOMAIN RQ'["L1D"] = 1 .. n - 1
      /\ \A i \in 1 .. n - 1 : RQ'["L1D"][i] = q[i + 1] /\ i + 1 \in DOMAIN q /\ i + 1 # 1
      /\ \A i \in DOMAIN q : i = 1 \/ (i - 1 \in 1 .. n - 1 /\ RQ'["L1D"][i - 1] = q[i])
  BY <1>1
<1>3. \A i, j \in 1 .. n - 1 : i + 1 = j + 1 => i = j
  OBVIOUS
<1>4. \A e \in Loads : load'[e].waiting <=> e \notin q[1].waiters /\ load[e].waiting
  BY <1>1, CompletedFacts
<1>5. 1 \in DOMAIN q
  BY <1>1
<1> SUFFICES ASSUME NEW e \in Loads
             PROVE  (/\ load[e].waiting <=>
                          \/ \E i \in DOMAIN RQ["L1D"] : e \in RQ["L1D"][i].waiters
                          \/ \E line \in DOMAIN MSHR["L1D"] : e \in MSHR["L1D"][line].waiters
                     /\ \A i, j \in DOMAIN RQ["L1D"] :
                          e \in RQ["L1D"][i].waiters /\ e \in RQ["L1D"][j].waiters => i = j
                     /\ \A l, m \in DOMAIN MSHR["L1D"] :
                          e \in MSHR["L1D"][l].waiters /\ e \in MSHR["L1D"][m].waiters => l = m
                     /\ \A i \in DOMAIN RQ["L1D"], l \in DOMAIN MSHR["L1D"] :
                          ~(e \in RQ["L1D"][i].waiters /\ e \in MSHR["L1D"][l].waiters))'
  BY DEF LoadsPlaced
<1>6. /\ load[e].waiting <=>
           \/ \E i \in DOMAIN q : e \in q[i].waiters
           \/ \E line \in DOMAIN MSHR["L1D"] : e \in MSHR["L1D"][line].waiters
      /\ \A i, j \in DOMAIN q : e \in q[i].waiters /\ e \in q[j].waiters => i = j
      /\ \A l, m \in DOMAIN MSHR["L1D"] :
           e \in MSHR["L1D"][l].waiters /\ e \in MSHR["L1D"][m].waiters => l = m
      /\ \A i \in DOMAIN q, l \in DOMAIN MSHR["L1D"] :
           ~(e \in q[i].waiters /\ e \in MSHR["L1D"][l].waiters)
  BY DEF LoadsPlaced
<1> HIDE DEF q, n
<1>7. load'[e].waiting <=>
           \/ \E i \in DOMAIN RQ'["L1D"] : e \in RQ'["L1D"][i].waiters
           \/ \E line \in DOMAIN MSHR'["L1D"] : e \in MSHR'["L1D"][line].waiters
  <2>1. CASE e \in q[1].waiters
    <3>1. ~load'[e].waiting
      BY <1>4, <2>1
    <3>2. \A i \in DOMAIN RQ'["L1D"] : e \notin RQ'["L1D"][i].waiters
      BY <1>2, <1>5, <1>6, <2>1
    <3>3. \A line \in DOMAIN MSHR["L1D"] : e \notin MSHR["L1D"][line].waiters
      BY <1>5, <1>6, <2>1
    <3> QED
      BY <3>1, <3>2, <3>3
  <2>2. CASE e \notin q[1].waiters
    <3>1. load'[e].waiting <=> load[e].waiting
      BY <1>4, <2>2
    <3>2. (\E i \in DOMAIN q : e \in q[i].waiters)
            <=> (\E i \in DOMAIN RQ'["L1D"] : e \in RQ'["L1D"][i].waiters)
      BY <1>2, <2>2
    <3> QED
      BY <1>6, <3>1, <3>2
  <2> QED
    BY <2>1, <2>2
<1>8. ASSUME NEW i \in DOMAIN RQ'["L1D"], NEW j \in DOMAIN RQ'["L1D"],
              e \in RQ'["L1D"][i].waiters, e \in RQ'["L1D"][j].waiters
      PROVE  i = j
  <2>1. /\ i + 1 \in DOMAIN q /\ e \in q[i + 1].waiters
        /\ j + 1 \in DOMAIN q /\ e \in q[j + 1].waiters
    BY <1>2, <1>8
  <2>2. i + 1 = j + 1
    BY <1>6, <2>1
  <2> QED
    BY <1>2, <1>3, <2>2
<1>9. \A i \in DOMAIN RQ'["L1D"], l \in DOMAIN MSHR'["L1D"] :
        ~(e \in RQ'["L1D"][i].waiters /\ e \in MSHR'["L1D"][l].waiters)
  BY <1>2, <1>6
<1> QED
  BY <1>6, <1>7, <1>8, <1>9

(***************************************************************************)
(* A fill of the L1D answers the loads of its register, and nobody else    *)
(* has them.                                                               *)
(***************************************************************************)
LEMMA RegisterAnswered ==
  ASSUME Types, LoadsPlaced, RQ'["L1D"] = RQ["L1D"], NEW line \in DOMAIN MSHR["L1D"],
         DOMAIN MSHR'["L1D"] = DOMAIN MSHR["L1D"] \ {line},
         \A l \in DOMAIN MSHR["L1D"] : l # line => MSHR'["L1D"][l] = MSHR["L1D"][l],
         load' = Completed(MSHR["L1D"][line].waiters)
  PROVE  LoadsPlaced'
<1>1. \A e \in Loads :
        load'[e].waiting <=> e \notin MSHR["L1D"][line].waiters /\ load[e].waiting
  BY CompletedFacts
<1> SUFFICES ASSUME NEW e \in Loads
             PROVE  (/\ load[e].waiting <=>
                          \/ \E i \in DOMAIN RQ["L1D"] : e \in RQ["L1D"][i].waiters
                          \/ \E l \in DOMAIN MSHR["L1D"] : e \in MSHR["L1D"][l].waiters
                     /\ \A i, j \in DOMAIN RQ["L1D"] :
                          e \in RQ["L1D"][i].waiters /\ e \in RQ["L1D"][j].waiters => i = j
                     /\ \A l, m \in DOMAIN MSHR["L1D"] :
                          e \in MSHR["L1D"][l].waiters /\ e \in MSHR["L1D"][m].waiters => l = m
                     /\ \A i \in DOMAIN RQ["L1D"], l \in DOMAIN MSHR["L1D"] :
                          ~(e \in RQ["L1D"][i].waiters /\ e \in MSHR["L1D"][l].waiters))'
  BY DEF LoadsPlaced
<1>2. /\ load[e].waiting <=>
           \/ \E i \in DOMAIN RQ["L1D"] : e \in RQ["L1D"][i].waiters
           \/ \E l \in DOMAIN MSHR["L1D"] : e \in MSHR["L1D"][l].waiters
      /\ \A i, j \in DOMAIN RQ["L1D"] :
           e \in RQ["L1D"][i].waiters /\ e \in RQ["L1D"][j].waiters => i = j
      /\ \A l, m \in DOMAIN MSHR["L1D"] :
           e \in MSHR["L1D"][l].waiters /\ e \in MSHR["L1D"][m].waiters => l = m
      /\ \A i \in DOMAIN RQ["L1D"], l \in DOMAIN MSHR["L1D"] :
           ~(e \in RQ["L1D"][i].waiters /\ e \in MSHR["L1D"][l].waiters)
  BY DEF LoadsPlaced
<1>3. \A l \in DOMAIN MSHR'["L1D"] :
        l \in DOMAIN MSHR["L1D"] /\ l # line /\ MSHR'["L1D"][l] = MSHR["L1D"][l]
  OBVIOUS
<1>4. load'[e].waiting <=>
           \/ \E i \in DOMAIN RQ'["L1D"] : e \in RQ'["L1D"][i].waiters
           \/ \E l \in DOMAIN MSHR'["L1D"] : e \in MSHR'["L1D"][l].waiters
  <2>1. CASE e \in MSHR["L1D"][line].waiters
    BY <1>1, <1>2, <1>3, <2>1
  <2>2. CASE e \notin MSHR["L1D"][line].waiters
    <3>1. load'[e].waiting <=> load[e].waiting
      BY <1>1, <2>2
    <3>2. (\E l \in DOMAIN MSHR["L1D"] : e \in MSHR["L1D"][l].waiters)
            <=> (\E l \in DOMAIN MSHR'["L1D"] : e \in MSHR'["L1D"][l].waiters)
      BY <1>3, <2>2
    <3> QED
      BY <1>2, <3>1, <3>2
  <2> QED
    BY <2>1, <2>2
<1> QED
  BY <1>2, <1>3, <1>4

(***************************************************************************)
(* A read that misses hands its loads to the register it takes or joins.   *)
(***************************************************************************)
LEMMA HeadRegistered ==
  ASSUME LoadsPlaced, RQ["L1D"] \in Seq(Packet), RQ["L1D"] # << >>,
         RQ'["L1D"] = Tail(RQ["L1D"]), load' = load, NEW line,
         DOMAIN MSHR'["L1D"] = DOMAIN MSHR["L1D"] \cup {line},
         \A l \in DOMAIN MSHR["L1D"] : l # line => MSHR'["L1D"][l] = MSHR["L1D"][l],
         MSHR'["L1D"][line].waiters
           = (IF line \in DOMAIN MSHR["L1D"] THEN MSHR["L1D"][line].waiters ELSE {})
               \cup Head(RQ["L1D"]).waiters
  PROVE  LoadsPlaced'
<1> DEFINE q == RQ["L1D"]
           n == Len(q)
<1>1. /\ n \in Nat \ {0} /\ DOMAIN q = 1 .. n /\ Head(q) = q[1]
      /\ DOMAIN Tail(q) = 1 .. n - 1
      /\ \A i \in 1 .. n - 1 : Tail(q)[i] = q[i + 1]
  BY TailFacts
<1>2. /\ DOMAIN RQ'["L1D"] = 1 .. n - 1
      /\ \A i \in 1 .. n - 1 : RQ'["L1D"][i] = q[i + 1] /\ i + 1 \in DOMAIN q /\ i + 1 # 1
      /\ \A i \in DOMAIN q : i = 1 \/ (i - 1 \in 1 .. n - 1 /\ RQ'["L1D"][i - 1] = q[i])
  BY <1>1
<1>3. \A i, j \in 1 .. n - 1 : i + 1 = j + 1 => i = j
  OBVIOUS
<1>4. 1 \in DOMAIN q /\ Head(q) = q[1]
  BY <1>1
<1> SUFFICES ASSUME NEW e \in Loads
             PROVE  (/\ load[e].waiting <=>
                          \/ \E i \in DOMAIN RQ["L1D"] : e \in RQ["L1D"][i].waiters
                          \/ \E l \in DOMAIN MSHR["L1D"] : e \in MSHR["L1D"][l].waiters
                     /\ \A i, j \in DOMAIN RQ["L1D"] :
                          e \in RQ["L1D"][i].waiters /\ e \in RQ["L1D"][j].waiters => i = j
                     /\ \A l, m \in DOMAIN MSHR["L1D"] :
                          e \in MSHR["L1D"][l].waiters /\ e \in MSHR["L1D"][m].waiters => l = m
                     /\ \A i \in DOMAIN RQ["L1D"], l \in DOMAIN MSHR["L1D"] :
                          ~(e \in RQ["L1D"][i].waiters /\ e \in MSHR["L1D"][l].waiters))'
  BY DEF LoadsPlaced
<1>5. /\ load[e].waiting <=>
           \/ \E i \in DOMAIN q : e \in q[i].waiters
           \/ \E l \in DOMAIN MSHR["L1D"] : e \in MSHR["L1D"][l].waiters
      /\ \A i, j \in DOMAIN q : e \in q[i].waiters /\ e \in q[j].waiters => i = j
      /\ \A l, m \in DOMAIN MSHR["L1D"] :
           e \in MSHR["L1D"][l].waiters /\ e \in MSHR["L1D"][m].waiters => l = m
      /\ \A i \in DOMAIN q, l \in DOMAIN MSHR["L1D"] :
           ~(e \in q[i].waiters /\ e \in MSHR["L1D"][l].waiters)
  BY DEF LoadsPlaced
<1>6. MSHR'["L1D"][line].waiters
        = (IF line \in DOMAIN MSHR["L1D"] THEN MSHR["L1D"][line].waiters ELSE {})
            \cup q[1].waiters
  BY <1>4
<1> HIDE DEF q, n
<1>7. \A l \in DOMAIN MSHR'["L1D"] : e \in MSHR'["L1D"][l].waiters <=>
        \/ l \in DOMAIN MSHR["L1D"] /\ e \in MSHR["L1D"][l].waiters
        \/ l = line /\ e \in q[1].waiters
  BY <1>6
<1>8. (\E i \in DOMAIN q : e \in q[i].waiters)
        <=> (\E i \in DOMAIN RQ'["L1D"] : e \in RQ'["L1D"][i].waiters) \/ e \in q[1].waiters
  BY <1>2, <1>4
<1>9. (\E l \in DOMAIN MSHR'["L1D"] : e \in MSHR'["L1D"][l].waiters)
        <=> (\E l \in DOMAIN MSHR["L1D"] : e \in MSHR["L1D"][l].waiters) \/ e \in q[1].waiters
  BY <1>7
<1>10. load'[e].waiting <=>
           \/ \E i \in DOMAIN RQ'["L1D"] : e \in RQ'["L1D"][i].waiters
           \/ \E l \in DOMAIN MSHR'["L1D"] : e \in MSHR'["L1D"][l].waiters
  BY <1>5, <1>8, <1>9
<1>11. ASSUME NEW i \in DOMAIN RQ'["L1D"], NEW j \in DOMAIN RQ'["L1D"],
              e \in RQ'["L1D"][i].waiters, e \in RQ'["L1D"][j].waiters
      PROVE  i = j
  <2>1. /\ i + 1 \in DOMAIN q /\ e \in q[i + 1].waiters
        /\ j + 1 \in DOMAIN q /\ e \in q[j + 1].waiters
    BY <1>2, <1>11
  <2>2. i + 1 = j + 1
    BY <1>5, <2>1
  <2> QED
    BY <1>2, <1>3, <2>2
<1>12. \A l, m \in DOMAIN MSHR'["L1D"] :
        e \in MSHR'["L1D"][l].waiters /\ e \in MSHR'["L1D"][m].waiters => l = m
  BY <1>4, <1>5, <1>7
<1>13. \A i \in DOMAIN RQ'["L1D"], l \in DOMAIN MSHR'["L1D"] :
        ~(e \in RQ'["L1D"][i].waiters /\ e \in MSHR'["L1D"][l].waiters)
  BY <1>2, <1>4, <1>5, <1>7, ZenonT(60)
<1> QED
  BY <1>10, <1>11, <1>12, <1>13

-----------------------------------------------------------------------------
(***************************************************************************)
(* A handler takes the oldest packet off a queue of its cache.             *)
(***************************************************************************)
LEMMA HeadTaken ==
  ASSUME NEW queues \in [Caches -> Seq(Packet)], NEW c \in Caches, queues[c] # << >>
  PROVE  LET rest == [queues EXCEPT ![c] = Tail(@)]
         IN  /\ rest \in [Caches -> Seq(Packet)] /\ rest[c] = Tail(queues[c])
             /\ \A k \in Caches : k # c => rest[k] = queues[k]
             /\ \A k \in Caches : Len(rest[k]) <= Len(queues[k])
             /\ Head(queues[c]) \in Packet
             /\ 1 \in DOMAIN queues[c] /\ Head(queues[c]) = queues[c][1]
             /\ \A i \in DOMAIN rest[c] :
                  i + 1 \in DOMAIN queues[c] /\ rest[c][i] = queues[c][i + 1]
<1> DEFINE q == queues[c]
           rest == [queues EXCEPT ![c] = Tail(@)]
<1>1. /\ q \in Seq(Packet) /\ Tail(q) \in Seq(Packet) /\ Head(q) \in Packet /\ Head(q) = q[1]
      /\ Len(q) \in Nat \ {0} /\ DOMAIN q = 1 .. Len(q)
      /\ Len(Tail(q)) = Len(q) - 1 /\ DOMAIN Tail(q) = 1 .. Len(q) - 1
      /\ \A i \in 1 .. Len(q) - 1 : Tail(q)[i] = q[i + 1]
  BY TailFacts
<1>2. rest = [queues EXCEPT ![c] = Tail(q)]
  OBVIOUS
<1>3. \A i \in DOMAIN Tail(q) : i + 1 \in DOMAIN q /\ Tail(q)[i] = q[i + 1]
  BY <1>1
<1> DEFINE tail == Tail(q)
<1>4. tail \in Seq(Packet) /\ Len(tail) <= Len(q) /\ 1 \in DOMAIN q
  BY <1>1
<1> HIDE DEF tail
<1>5. rest = [queues EXCEPT ![c] = tail]
  BY <1>2 DEF tail
<1> HIDE DEF rest
<1>6. /\ rest \in [Caches -> Seq(Packet)] /\ rest[c] = tail
      /\ \A k \in Caches : k # c => rest[k] = queues[k]
  BY <1>4, <1>5
<1>7. \A k \in Caches : Len(queues[k]) \in Nat
  OBVIOUS
<1>8. \A k \in Caches : Len(rest[k]) <= Len(queues[k])
  BY <1>4, <1>6, <1>7
<1> QED
  BY <1>1, <1>3, <1>4, <1>6, <1>8 DEF tail, rest

(***************************************************************************)
(* The L2C returns a line to the L1D that had not returned yet.            *)
(***************************************************************************)
LEMMA ReturnedUp ==
  ASSUME NEW before \in [Caches -> Seq(Lines)], NEW line \in Lines,
         Distinct(before["L1D"]), line \notin Elements(before["L1D"]),
         returned' = [before EXCEPT !["L1D"] = Append(@, line)]
  PROVE  /\ returned' \in [Caches -> Seq(Lines)]
         /\ returned'["L2C"] = before["L2C"]
         /\ Distinct(returned'["L1D"])
         /\ Elements(returned'["L1D"]) = Elements(before["L1D"]) \cup {line}
<1> DEFINE r == before["L1D"]
           new == Append(r, line)
<1>0. "L1D" \in Caches /\ "L2C" \in Caches /\ "L1D" # "L2C"
  BY DEF Caches
<1>1. r \in Seq(Lines)
  BY <1>0
<1>2. /\ new \in Seq(Lines) /\ Distinct(new) /\ Elements(new) = Elements(r) \cup {line}
  BY <1>1, AppendFacts, AppendElements
<1>3. returned' = [before EXCEPT !["L1D"] = new]
  OBVIOUS
<1> HIDE DEF new
<1>4. /\ returned' \in [Caches -> Seq(Lines)] /\ returned'["L1D"] = new
      /\ returned'["L2C"] = before["L2C"]
  BY <1>0, <1>2, <1>3
<1> QED
  BY <1>2, <1>4

(***************************************************************************)
(* A read that hits the L1D.                                               *)
(***************************************************************************)
LEMMA ReadHitL1D ==
  ASSUME IInv, handle_readHit("L1D")
  PROVE  IInv' /\ Kept
<1> DEFINE packet == Head(RQ["L1D"])
           way == HitWay("L1D", packet.line)
<1>0. "L1D" \in Caches /\ "L2C" \in Caches /\ "L1D" # "L2C" /\ fill_level["L1D"] = 1
  BY DEF Caches, fill_level
<1>1. /\ Types /\ Registers /\ Storage /\ Once /\ MissesOfL1D /\ MissesOfL2C
      /\ NoLoadPrefetched /\ LoadsPlaced
  BY DEF IInv
<1>2. /\ RQ["L1D"] # << >> /\ Hits("L1D", packet.line) # {}
      /\ lru' = Promoted("L1D", packet.line, way)
      /\ returned' = IF packet.fill < fill_level["L1D"]
                     THEN [returned EXCEPT !["L1D"] = Append(@, packet.line)] ELSE returned
      /\ load' = Completed(packet.waiters)
      /\ RQ' = [RQ EXCEPT !["L1D"] = Tail(@)]
      /\ UNCHANGED <<PQ, WQ, MSHR, block, LLC>>
  BY DEF handle_readHit
<1>3. RQ \in [Caches -> Seq(Packet)] /\ RQ["L1D"] \in Seq(Packet)
  BY <1>0, <1>1 DEF Types
<1>4. /\ RQ' \in [Caches -> Seq(Packet)] /\ RQ'["L1D"] = Tail(RQ["L1D"])
      /\ RQ'["L2C"] = RQ["L2C"]
      /\ \A k \in Caches : Len(RQ'[k]) <= Len(RQ[k])
      /\ packet \in Packet
      /\ \A i \in DOMAIN RQ'["L1D"] :
           i + 1 \in DOMAIN RQ["L1D"] /\ RQ'["L1D"][i] = RQ["L1D"][i + 1]
  BY <1>0, <1>2, <1>3, HeadTaken
<1>5. packet.line \in Lines /\ packet.fill \in {1, 2}
  BY <1>4 DEF Packet
<1>6. returned' = returned
  BY <1>0, <1>2, <1>5
<1>7. Storage'
  <2>1. way \in Ways("L1D")
    BY <1>0, <1>2, HitWayFacts
  <2>2. /\ DOMAIN lru' = Caches
        /\ \A k \in Caches : /\ DOMAIN lru'[k] = Sets(k)
                             /\ \A set \in Sets(k) : IsRanking(NUM_WAY[k], lru'[k][set])
    BY <1>0, <1>1, <1>2, <1>5, <2>1, PromotedFacts
  <2> QED
    BY <1>1, <1>2, <2>2 DEF Storage, Sets, Ways
<1>8. load' \in [Loads -> LoadState]
  BY <1>1, <1>2, CompletedFacts
<1>9. Types'
  <2>1. \A k \in Caches : Len(RQ'[k]) <= RQ_SIZE[k]
    <3>1. \A k \in Caches : /\ Len(RQ[k]) <= RQ_SIZE[k] /\ Len(RQ[k]) \in Nat
                            /\ RQ_SIZE[k] \in Nat /\ Len(RQ'[k]) \in Nat
      BY <1>1, <1>3, <1>4, Geometry DEF Types
    <3> QED
      BY <1>4, <3>1
  <2> QED
    BY <1>1, <1>2, <1>4, <1>6, <1>8, <2>1 DEF Types, LoadState
<1>10. Once' /\ NoLoadPrefetched'
  BY <1>1, <1>2, <1>4, <1>6 DEF Once, NoLoadPrefetched
<1>11. Registers' /\ MissesOfL1D' /\ MissesOfL2C'
  BY <1>1, <1>2, <1>4, <1>6, SameMisses
<1>12. LoadsPlaced'
  BY <1>1, <1>2, <1>3, <1>4, HeadAnswered
<1>13. Kept
  BY <1>2, SameModifications
<1> QED
  BY <1>7, <1>9, <1>10, <1>11, <1>12, <1>13 DEF IInv

(***************************************************************************)
(* A read that hits the L2C: a miss of the L1D moves from the read queue   *)
(* to the returned ones.                                                   *)
(***************************************************************************)
LEMMA ReadHitL2C ==
  ASSUME IInv, handle_readHit("L2C")
  PROVE  IInv' /\ Kept
<1> DEFINE packet == Head(RQ["L2C"])
           way == HitWay("L2C", packet.line)
<1>0. "L1D" \in Caches /\ "L2C" \in Caches /\ "L1D" # "L2C" /\ fill_level["L2C"] = 2
  BY DEF Caches, fill_level
<1>1. /\ Types /\ Registers /\ Storage /\ Once /\ MissesOfL1D /\ MissesOfL2C
      /\ NoLoadPrefetched /\ LoadsPlaced
  BY DEF IInv
<1>2. /\ RQ["L2C"] # << >> /\ Hits("L2C", packet.line) # {}
      /\ lru' = Promoted("L2C", packet.line, way)
      /\ returned' = IF packet.fill < fill_level["L2C"]
                     THEN [returned EXCEPT !["L1D"] = Append(@, packet.line)] ELSE returned
      /\ load' = load
      /\ RQ' = [RQ EXCEPT !["L2C"] = Tail(@)]
      /\ UNCHANGED <<PQ, WQ, MSHR, block, LLC>>
  BY <1>0 DEF handle_readHit
<1>3. /\ RQ \in [Caches -> Seq(Packet)] /\ RQ["L2C"] \in Seq(Packet)
      /\ DistinctLines(RQ["L2C"]) /\ returned \in [Caches -> Seq(Lines)]
      /\ Distinct(returned["L1D"])
  BY <1>0, <1>1 DEF Types, Once
<1>4. /\ RQ' \in [Caches -> Seq(Packet)] /\ RQ'["L2C"] = Tail(RQ["L2C"])
      /\ RQ'["L1D"] = RQ["L1D"]
      /\ \A k \in Caches : Len(RQ'[k]) <= Len(RQ[k])
      /\ packet \in Packet /\ 1 \in DOMAIN RQ["L2C"] /\ packet = RQ["L2C"][1]
      /\ \A i \in DOMAIN RQ'["L2C"] :
           i + 1 \in DOMAIN RQ["L2C"] /\ RQ'["L2C"][i] = RQ["L2C"][i + 1]
  BY <1>0, <1>2, <1>3, HeadTaken
<1>5. packet.line \in Lines /\ packet.fill = 1
  <2>1. packet.line \in Lines
    BY <1>4 DEF Packet
  <2> QED
    BY <1>1, <1>4, <2>1 DEF Once
<1>6. /\ DistinctLines(RQ'["L2C"])
      /\ LinesOf(RQ'["L2C"]) = LinesOf(RQ["L2C"]) \ {packet.line}
      /\ packet.line \in LinesOf(RQ["L2C"])
  BY <1>2, <1>3, <1>4, TailLines
<1>7. packet.line \notin Elements(returned["L1D"])
  BY <1>1, <1>6 DEF MissesOfL1D
<1>8. /\ returned' \in [Caches -> Seq(Lines)] /\ returned'["L2C"] = returned["L2C"]
      /\ Distinct(returned'["L1D"])
      /\ Elements(returned'["L1D"]) = Elements(returned["L1D"]) \cup {packet.line}
  <2>1. returned' = [returned EXCEPT !["L1D"] = Append(@, packet.line)]
    BY <1>0, <1>2, <1>5
  <2> QED
    BY <1>3, <1>5, <1>7, <2>1, ReturnedUp
<1> HIDE DEF packet
<1>9. Storage'
  <2>1. way \in Ways("L2C")
    BY <1>0, <1>2, HitWayFacts
  <2>2. /\ DOMAIN lru' = Caches
        /\ \A k \in Caches : /\ DOMAIN lru'[k] = Sets(k)
                             /\ \A set \in Sets(k) : IsRanking(NUM_WAY[k], lru'[k][set])
    BY <1>0, <1>1, <1>2, <1>5, <2>1, PromotedFacts
  <2> QED
    BY <1>1, <1>2, <2>2 DEF Storage, Sets, Ways
<1>10. Types'
  <2>1. \A k \in Caches : Len(RQ'[k]) <= RQ_SIZE[k]
    <3>1. \A k \in Caches : /\ Len(RQ[k]) <= RQ_SIZE[k] /\ Len(RQ[k]) \in Nat
                            /\ RQ_SIZE[k] \in Nat /\ Len(RQ'[k]) \in Nat
      BY <1>1, <1>3, <1>4, Geometry DEF Types
    <3> QED
      BY <1>4, <3>1
  <2> QED
    BY <1>1, <1>2, <1>4, <1>8, <2>1 DEF Types
<1>11. Once' /\ NoLoadPrefetched'
  <2>1. \A c \in Caches : Distinct(returned'[c])
    BY <1>1, <1>8 DEF Once, Caches
  <2>2. \A i \in DOMAIN RQ'["L2C"] : RQ'["L2C"][i].fill = 1
    BY <1>1, <1>4 DEF Once
  <2> QED
    BY <1>1, <1>2, <1>4, <1>6, <2>1, <2>2 DEF Once, NoLoadPrefetched
<1>12. Registers' /\ MissesOfL2C'
  BY <1>1, <1>2, <1>8 DEF Registers, MissesOfL2C
<1>13. MissesOfL1D'
  BY <1>1, <1>2, <1>6, <1>8 DEF MissesOfL1D, UpwardMisses
<1>14. LoadsPlaced'
  BY <1>1, <1>2, <1>4, SamePlaces
<1>15. Kept
  BY <1>2, SameModifications
<1> QED
  BY <1>9, <1>10, <1>11, <1>12, <1>13, <1>14, <1>15 DEF IInv

-----------------------------------------------------------------------------
(***************************************************************************)
(* A promotion by a hit keeps the storage in order.                        *)
(***************************************************************************)
LEMMA HitStorage ==
  ASSUME Storage, NEW c \in Caches, NEW line \in Lines, Hits(c, line) # {},
         lru' = Promoted(c, line, HitWay(c, line)), block' = block
  PROVE  Storage'
<1>1. HitWay(c, line) \in Ways(c)
  BY HitWayFacts
<1>2. /\ DOMAIN lru' = Caches
      /\ \A k \in Caches : /\ DOMAIN lru'[k] = Sets(k)
                           /\ \A set \in Sets(k) : IsRanking(NUM_WAY[k], lru'[k][set])
  BY <1>1, PromotedFacts
<1> QED
  BY <1>2 DEF Storage, Sets, Ways

(***************************************************************************)
(* Taking a prefetch off its queue keeps the types.                        *)
(***************************************************************************)
LEMMA PrefetchTaken ==
  ASSUME Types, NEW c \in Caches, PQ[c] # << >>, PQ' = [PQ EXCEPT ![c] = Tail(@)],
         load' = load, RQ' = RQ, WQ' = WQ, LLC' = LLC,
         returned' \in [Caches -> Seq(Lines)]
  PROVE  Types'
<1>1. PQ \in [Caches -> Seq(Packet)]
  BY DEF Types
<1>2. PQ' \in [Caches -> Seq(Packet)] /\ \A k \in Caches : Len(PQ'[k]) <= Len(PQ[k])
  BY <1>1, HeadTaken
<1>3. \A k \in Caches : /\ Len(PQ[k]) <= PQ_SIZE[k] /\ Len(PQ[k]) \in Nat
                        /\ PQ_SIZE[k] \in Nat /\ Len(PQ'[k]) \in Nat
  BY <1>1, <1>2, Geometry DEF Types
<1>4. \A k \in Caches : Len(PQ'[k]) <= PQ_SIZE[k]
  BY <1>2, <1>3
<1> QED
  BY <1>2, <1>4 DEF Types

(***************************************************************************)
(* A prefetch that hits the L1D has nothing to do.                         *)
(***************************************************************************)
LEMMA PrefetchHitL1D ==
  ASSUME IInv, handle_prefetchHit("L1D")
  PROVE  IInv' /\ Kept
<1> DEFINE packet == Head(PQ["L1D"])
<1>0. "L1D" \in Caches /\ "L2C" \in Caches /\ "L1D" # "L2C" /\ fill_level["L1D"] = 1
  BY DEF Caches, fill_level
<1>1. /\ Types /\ Registers /\ Storage /\ Once /\ MissesOfL1D /\ MissesOfL2C
      /\ NoLoadPrefetched /\ LoadsPlaced
  BY DEF IInv
<1>2. /\ PQ["L1D"] # << >> /\ Hits("L1D", packet.line) # {}
      /\ lru' = Promoted("L1D", packet.line, HitWay("L1D", packet.line))
      /\ returned' = IF packet.fill < fill_level["L1D"]
                     THEN [returned EXCEPT !["L1D"] = Append(@, packet.line)] ELSE returned
      /\ PQ' = [PQ EXCEPT !["L1D"] = Tail(@)]
      /\ UNCHANGED <<load, RQ, WQ, MSHR, block, LLC>>
  BY DEF handle_prefetchHit, MayPrefetch
<1>3. PQ \in [Caches -> Seq(Packet)] /\ returned \in [Caches -> Seq(Lines)]
  BY <1>1 DEF Types
<1>4. /\ PQ'["L2C"] = PQ["L2C"] /\ packet \in Packet
      /\ \A i \in DOMAIN PQ'["L1D"] :
           i + 1 \in DOMAIN PQ["L1D"] /\ PQ'["L1D"][i] = PQ["L1D"][i + 1]
  BY <1>0, <1>2, <1>3, HeadTaken
<1>5. packet.line \in Lines /\ packet.fill \in {1, 2}
  BY <1>4 DEF Packet
<1>6. returned' = returned
  BY <1>0, <1>2, <1>5
<1> HIDE DEF packet
<1>7. Storage'
  BY <1>0, <1>1, <1>2, <1>5, HitStorage
<1>8. Types'
  BY <1>0, <1>1, <1>2, <1>3, <1>6, PrefetchTaken
<1>9. Once' /\ NoLoadPrefetched'
  BY <1>1, <1>2, <1>4, <1>6 DEF Once, NoLoadPrefetched
<1>10. Registers' /\ MissesOfL1D' /\ MissesOfL2C'
  BY <1>1, <1>2, <1>4, <1>6, SameMisses
<1>11. LoadsPlaced'
  BY <1>1, <1>2, SamePlaces
<1>12. Kept
  BY <1>2, SameModifications
<1> QED
  BY <1>7, <1>8, <1>9, <1>10, <1>11, <1>12 DEF IInv

(***************************************************************************)
(* A prefetch that hits the L2C: if it is to fill level 1, it was a miss   *)
(* of the L1D, which now returns.                                          *)
(***************************************************************************)
LEMMA PrefetchHitL2C ==
  ASSUME IInv, handle_prefetchHit("L2C")
  PROVE  IInv' /\ Kept
<1> DEFINE packet == Head(PQ["L2C"])
<1>0. "L1D" \in Caches /\ "L2C" \in Caches /\ "L1D" # "L2C" /\ fill_level["L2C"] = 2
  BY DEF Caches, fill_level
<1>1. /\ Types /\ Registers /\ Storage /\ Once /\ MissesOfL1D /\ MissesOfL2C
      /\ NoLoadPrefetched /\ LoadsPlaced
  BY DEF IInv
<1>2. /\ PQ["L2C"] # << >> /\ Hits("L2C", packet.line) # {}
      /\ lru' = Promoted("L2C", packet.line, HitWay("L2C", packet.line))
      /\ returned' = IF packet.fill < fill_level["L2C"]
                     THEN [returned EXCEPT !["L1D"] = Append(@, packet.line)] ELSE returned
      /\ PQ' = [PQ EXCEPT !["L2C"] = Tail(@)]
      /\ UNCHANGED <<load, RQ, WQ, MSHR, block, LLC>>
  BY DEF handle_prefetchHit, MayPrefetch
<1>3. /\ PQ \in [Caches -> Seq(Packet)] /\ PQ["L2C"] \in Seq(Packet)
      /\ DistinctLines(PQ["L2C"]) /\ returned \in [Caches -> Seq(Lines)]
      /\ \A c \in Caches : Distinct(returned[c])
  BY <1>0, <1>1 DEF Types, Once
<1>4. /\ PQ'["L2C"] = Tail(PQ["L2C"]) /\ PQ'["L1D"] = PQ["L1D"] /\ packet \in Packet
  BY <1>0, <1>2, <1>3, HeadTaken
<1>5. packet.line \in Lines /\ packet.fill \in {1, 2}
  BY <1>4 DEF Packet
<1>6. /\ DistinctLines(PQ'["L2C"])
      /\ UpwardLines(PQ'["L2C"]) = UpwardLines(PQ["L2C"]) \ {packet.line}
      /\ packet.fill = 1 <=> packet.line \in UpwardLines(PQ["L2C"])
  BY <1>2, <1>3, <1>4, TailLines
<1> HIDE DEF packet
<1>7. /\ returned' \in [Caches -> Seq(Lines)] /\ returned'["L2C"] = returned["L2C"]
      /\ Distinct(returned'["L1D"])
      /\ Elements(returned'["L1D"])
           = Elements(returned["L1D"]) \cup (IF packet.fill = 1 THEN {packet.line} ELSE {})
  <2>1. CASE packet.fill = 1
    <3>1. packet.line \notin Elements(returned["L1D"])
      BY <1>1, <1>6, <2>1 DEF MissesOfL1D
    <3>2. returned' = [returned EXCEPT !["L1D"] = Append(@, packet.line)]
      BY <1>0, <1>2, <2>1
    <3>3. /\ returned' \in [Caches -> Seq(Lines)] /\ returned'["L2C"] = returned["L2C"]
          /\ Distinct(returned'["L1D"])
          /\ Elements(returned'["L1D"]) = Elements(returned["L1D"]) \cup {packet.line}
      BY <1>0, <1>3, <1>5, <3>1, <3>2, ReturnedUp
    <3> QED
      BY <2>1, <3>3
  <2>2. CASE packet.fill # 1
    <3>1. returned' = returned
      BY <1>0, <1>2, <1>5, <2>2
    <3> QED
      BY <1>0, <1>3, <2>2, <3>1
  <2> QED
    BY <2>1, <2>2
<1>8. Storage'
  BY <1>0, <1>1, <1>2, <1>5, HitStorage
<1>9. Types'
  BY <1>0, <1>1, <1>2, <1>7, PrefetchTaken
<1>10. Once' /\ NoLoadPrefetched'
  <2>1. \A c \in Caches : Distinct(returned'[c])
    BY <1>3, <1>7 DEF Caches
  <2> QED
    BY <1>1, <1>2, <1>4, <1>6, <2>1 DEF Once, NoLoadPrefetched
<1>11. Registers' /\ MissesOfL2C'
  BY <1>1, <1>2, <1>7 DEF Registers, MissesOfL2C
<1>12. MissesOfL1D'
  BY <1>1, <1>2, <1>6, <1>7 DEF MissesOfL1D, UpwardMisses
<1>13. LoadsPlaced'
  BY <1>1, <1>2, SamePlaces
<1>14. Kept
  BY <1>2, SameModifications
<1> QED
  BY <1>8, <1>9, <1>10, <1>11, <1>12, <1>13, <1>14 DEF IInv

(***************************************************************************)
(* A prefetch that finds a register: in the L2C, a prefetch to level 1 is  *)
(* a miss of the L1D, which now waits in that register.                    *)
(***************************************************************************)
LEMMA PrefetchJoinsStep ==
  ASSUME IInv, NEW c \in Caches, PrefetchJoins(c)
  PROVE  IInv' /\ Kept
<1> DEFINE packet == Head(PQ[c])
           line == packet.line
           fill == packet.fill
<1>0. "L1D" \in Caches /\ "L2C" \in Caches /\ "L1D" # "L2C"
  BY DEF Caches
<1>1. /\ Types /\ Registers /\ Storage /\ Once /\ MissesOfL1D /\ MissesOfL2C
      /\ NoLoadPrefetched /\ LoadsPlaced
  BY DEF IInv
<1>2. /\ PQ[c] # << >> /\ line \in DOMAIN MSHR[c]
      /\ MSHR' = [MSHR EXCEPT ![c][line].fill = Lowest(@, fill)]
      /\ PQ' = [PQ EXCEPT ![c] = Tail(@)]
      /\ UNCHANGED <<load, RQ, WQ, returned, block, lru, LLC>>
  BY DEF PrefetchJoins, MayPrefetch, InFlight
<1>3. /\ PQ \in [Caches -> Seq(Packet)] /\ PQ[c] \in Seq(Packet)
      /\ returned \in [Caches -> Seq(Lines)]
  BY <1>1 DEF Types
<1>4. /\ PQ'[c] = Tail(PQ[c]) /\ packet \in Packet
      /\ \A k \in Caches : k # c => PQ'[k] = PQ[k]
      /\ \A i \in DOMAIN PQ'[c] : i + 1 \in DOMAIN PQ[c] /\ PQ'[c][i] = PQ[c][i + 1]
  BY <1>2, <1>3, HeadTaken
<1>5. fill \in {1, 2}
  BY <1>4 DEF Packet
<1>6. /\ DistinctLines(PQ[c]) => /\ DistinctLines(PQ'[c])
                                 /\ UpwardLines(PQ'[c]) = UpwardLines(PQ[c]) \ {line}
                                 /\ fill = 1 <=> line \in UpwardLines(PQ[c])
  BY <1>2, <1>3, <1>4, TailLines
<1> HIDE DEF packet, line, fill
<1>7. /\ Registers'
      /\ \A other \in Caches : DOMAIN MSHR'[other] = DOMAIN MSHR[other]
      /\ \A other \in Caches : other # c => MSHR'[other] = MSHR[other]
      /\ \A l \in DOMAIN MSHR[c] :
           /\ MSHR'[c][l].type = MSHR[c][l].type
           /\ MSHR'[c][l].waiters = MSHR[c][l].waiters
           /\ MSHR'[c][l].fill = 1 <=> MSHR[c][l].fill = 1 \/ (l = line /\ fill = 1)
  BY <1>1, <1>2, <1>5, LoweredRegister, ZenonT(60)
<1>8. \A l \in DOMAIN MSHR["L1D"] : /\ MSHR'["L1D"][l].type = MSHR["L1D"][l].type
                                    /\ MSHR'["L1D"][l].waiters = MSHR["L1D"][l].waiters
  BY <1>0, <1>7
<1>9. Types'
  BY <1>1, <1>2, <1>3, PrefetchTaken
<1>10. Storage' /\ MissesOfL2C'
  BY <1>0, <1>1, <1>2, <1>7 DEF Storage, MissesOfL2C
<1>11. DistinctLines(PQ'["L2C"]) /\ \A i \in DOMAIN PQ'["L1D"] : PQ'["L1D"][i].waiters = {}
  <2>1. CASE c = "L1D"
    BY <1>0, <1>1, <1>4, <2>1 DEF Once, NoLoadPrefetched
  <2>2. CASE c = "L2C"
    BY <1>0, <1>1, <1>4, <1>6, <2>2 DEF Once, NoLoadPrefetched
  <2> QED
    BY <2>1, <2>2 DEF Caches
<1>12. Once'
  BY <1>1, <1>2, <1>11 DEF Once
<1>13. NoLoadPrefetched'
  BY <1>0, <1>1, <1>2, <1>7, <1>8, <1>11 DEF NoLoadPrefetched
<1>14. MissesOfL1D'
  <2>1. CASE c = "L1D"
    <3>1. PQ'["L2C"] = PQ["L2C"] /\ MSHR'["L2C"] = MSHR["L2C"]
      BY <1>0, <1>4, <1>7, <2>1
    <3>2. UpwardMisses' = UpwardMisses
      BY <3>1 DEF UpwardMisses
    <3>3. DOMAIN MSHR'["L1D"] = DOMAIN MSHR["L1D"]
      BY <1>0, <1>7
    <3> QED
      BY <1>1, <1>2, <3>1, <3>2, <3>3 DEF MissesOfL1D
  <2>2. CASE c = "L2C"
    <3>1. /\ UpwardLines(PQ'["L2C"]) = UpwardLines(PQ["L2C"]) \ {line}
          /\ fill = 1 <=> line \in UpwardLines(PQ["L2C"])
      BY <1>1, <1>6, <2>2 DEF Once
    <3>2. UpwardMisses' = UpwardMisses \cup (IF fill = 1 THEN {line} ELSE {})
      <4>1. /\ DOMAIN MSHR'["L2C"] = DOMAIN MSHR["L2C"]
            /\ \A l \in DOMAIN MSHR["L2C"] :
                 MSHR'["L2C"][l].fill = 1 <=> MSHR["L2C"][l].fill = 1 \/ (l = line /\ fill = 1)
        BY <1>7, <2>2
      <4> QED
        BY <1>2, <2>2, <4>1 DEF UpwardMisses
    <3>3. DOMAIN MSHR'["L1D"] = DOMAIN MSHR["L1D"]
      BY <1>0, <1>7
    <3> QED
      BY <1>1, <1>2, <3>1, <3>2, <3>3 DEF MissesOfL1D
  <2> QED
    BY <2>1, <2>2 DEF Caches
<1>15. LoadsPlaced'
  BY <1>0, <1>1, <1>2, <1>7, <1>8, SamePlaces
<1>16. Kept
  <2>1. DirtyIn("L1D")' = DirtyIn("L1D") /\ DirtyIn("L2C")' = DirtyIn("L2C")
    BY <1>2 DEF DirtyIn, Sets, Ways
  <2>2. Modified' = Modified
    BY <1>0, <1>2, <1>7, <1>8, <2>1 DEF Modified
  <2> QED
    BY <2>2 DEF Kept
<1> QED
  BY <1>7, <1>9, <1>10, <1>12, <1>13, <1>14, <1>15, <1>16 DEF IInv

-----------------------------------------------------------------------------
(***************************************************************************)
(* A step that leaves blocks and write-backs alone and every RFO in its    *)
(* register keeps every modification.                                      *)
(***************************************************************************)
LEMMA SameStores ==
  ASSUME block' = block, LLC'.WQ = LLC.WQ, WQ'["L2C"] = WQ["L2C"],
         \A line \in DOMAIN MSHR["L1D"] : MSHR["L1D"][line].type = "RFO" =>
           line \in DOMAIN MSHR'["L1D"] /\ MSHR'["L1D"][line].type = "RFO"
  PROVE  Kept
<1>1. DirtyIn("L1D")' = DirtyIn("L1D") /\ DirtyIn("L2C")' = DirtyIn("L2C")
  BY DEF DirtyIn, Sets, Ways
<1>2. Modified \subseteq Modified'
  BY <1>1 DEF Modified
<1> QED
  BY <1>2 DEF Kept

(***************************************************************************)
(* The misses to level 1 after a register of the L2C was taken or given to *)
(* another packet.                                                         *)
(***************************************************************************)
LEMMA UpwardMissesTaken ==
  ASSUME NEW packet \in Packet,
         DOMAIN MSHR'["L2C"] = DOMAIN MSHR["L2C"] \cup {packet.line},
         MSHR'["L2C"][packet.line] = packet,
         \A line \in DOMAIN MSHR["L2C"] :
           line # packet.line => MSHR'["L2C"][line] = MSHR["L2C"][line]
  PROVE  UpwardMisses' = (UpwardMisses \ {packet.line})
                           \cup (IF packet.fill = 1 THEN {packet.line} ELSE {})
BY DEF UpwardMisses

(***************************************************************************)
(* The L1D passes a prefetch on: with a register it is a new miss, which   *)
(* is found below or has returned at once; without one it is none.         *)
(***************************************************************************)
LEMMA PrefetchMissL1DStep ==
  ASSUME IInv, PrefetchMissL1D
  PROVE  IInv' /\ Kept
<1> DEFINE packet == Head(PQ["L1D"])
           line == packet.line
           here == packet.fill <= fill_level["L1D"]
           rest == [PQ EXCEPT !["L1D"] = Tail(@)]
<1>0. "L1D" \in Caches /\ "L2C" \in Caches /\ "L1D" # "L2C" /\ fill_level["L1D"] = 1
  BY DEF Caches, fill_level
<1>1. /\ Types /\ Registers /\ Storage /\ Once /\ MissesOfL1D /\ MissesOfL2C
      /\ NoLoadPrefetched /\ LoadsPlaced
  BY DEF IInv
<1>2. /\ PQ["L1D"] # << >>
      /\ ~InFlight("L1D", line) /\ ~MshrFull("L1D")
      /\ Len(PQ["L2C"]) < PQ_SIZE["L2C"]
      /\ MSHR' = IF here THEN WithRegister("L1D", packet) ELSE MSHR
      /\ UNCHANGED <<load, RQ, WQ, block, lru, LLC>>
  BY DEF PrefetchMissL1D, MayPrefetch
<1>3. \/ /\ PQ' = rest
         /\ returned' = IF here THEN [returned EXCEPT !["L1D"] = Append(@, line)]
                                ELSE returned
      \/ /\ PQ' = [rest EXCEPT !["L2C"] = Prefetching(@, packet)]
         /\ returned' = returned
  BY DEF PrefetchMissL1D
<1>4. /\ PQ \in [Caches -> Seq(Packet)] /\ PQ["L2C"] \in Seq(Packet)
      /\ returned \in [Caches -> Seq(Lines)]
      /\ DistinctLines(PQ["L2C"]) /\ \A c \in Caches : Distinct(returned[c])
      /\ \A i \in DOMAIN PQ["L1D"] : PQ["L1D"][i].waiters = {}
      /\ Len(PQ["L2C"]) \in Nat /\ PQ_SIZE["L2C"] \in Nat
      /\ \A c \in Caches : Len(PQ[c]) <= PQ_SIZE[c]
  BY <1>0, <1>1, Geometry DEF Types, Once, NoLoadPrefetched
<1>5. /\ rest \in [Caches -> Seq(Packet)] /\ rest["L2C"] = PQ["L2C"]
      /\ \A k \in Caches : Len(rest[k]) <= Len(PQ[k])
      /\ packet \in Packet /\ packet.waiters = {}
      /\ \A i \in DOMAIN rest["L1D"] : rest["L1D"][i].waiters = {}
  BY <1>0, <1>2, <1>4, HeadTaken
<1>6. line \in Lines /\ packet.fill \in {1, 2} /\ (here <=> packet.fill = 1)
  <2>1. line \in Lines /\ packet.fill \in {1, 2}
    BY <1>5 DEF Packet
  <2> QED
    BY <1>0, <2>1
<1>7. /\ line \notin DOMAIN MSHR["L1D"] /\ line \notin Elements(returned["L1D"])
      /\ line \notin LinesOf(RQ["L2C"]) /\ line \notin UpwardLines(PQ["L2C"])
      /\ line \notin UpwardMisses
  BY <1>1, <1>2 DEF MissesOfL1D, InFlight
<1> DEFINE New == IF packet.fill = 1 THEN {line} ELSE {}
<1>8. \A c \in Caches : Len(rest[c]) <= PQ_SIZE[c]
  <2>1. \A c \in Caches : Len(rest[c]) \in Nat /\ Len(PQ[c]) \in Nat /\ PQ_SIZE[c] \in Nat
    BY <1>4, <1>5, Geometry
  <2> QED
    BY <1>4, <1>5, <2>1
<1> HIDE DEF packet, line, here, rest
<1> DEFINE Passed ==
      /\ PQ' \in [Caches -> Seq(Packet)] /\ \A c \in Caches : Len(PQ'[c]) <= PQ_SIZE[c]
      /\ PQ'["L1D"] = rest["L1D"] /\ DistinctLines(PQ'["L2C"])
      /\ returned' \in [Caches -> Seq(Lines)] /\ \A c \in Caches : Distinct(returned'[c])
      /\ returned'["L2C"] = returned["L2C"]
      /\ \/ /\ UpwardLines(PQ'["L2C"]) = UpwardLines(PQ["L2C"])
            /\ Elements(returned'["L1D"]) = Elements(returned["L1D"]) \cup New
         \/ /\ UpwardLines(PQ'["L2C"]) = UpwardLines(PQ["L2C"]) \cup New
            /\ Elements(returned'["L1D"]) = Elements(returned["L1D"])
<1>9. ASSUME PQ' = rest, returned' = IF here THEN [returned EXCEPT !["L1D"] = Append(@, line)]
                                             ELSE returned
      PROVE  Passed
  <2>1. /\ returned' \in [Caches -> Seq(Lines)] /\ returned'["L2C"] = returned["L2C"]
        /\ Distinct(returned'["L1D"])
        /\ Elements(returned'["L1D"]) = Elements(returned["L1D"]) \cup New
    <3>1. CASE here
      <4>1. returned' = [returned EXCEPT !["L1D"] = Append(@, line)]
        BY <1>9, <3>1
      <4>2. /\ returned' \in [Caches -> Seq(Lines)] /\ returned'["L2C"] = returned["L2C"]
            /\ Distinct(returned'["L1D"])
            /\ Elements(returned'["L1D"]) = Elements(returned["L1D"]) \cup {line}
        BY <1>0, <1>4, <1>6, <1>7, <4>1, ReturnedUp
      <4> QED
        BY <1>6, <3>1, <4>2
    <3>2. CASE ~here
      <4>1. returned' = returned
        BY <1>9, <3>2
      <4> QED
        BY <1>0, <1>4, <1>6, <3>2, <4>1
    <3> QED
      BY <3>1, <3>2
  <2>2. \A c \in Caches : Distinct(returned'[c])
    BY <1>4, <2>1 DEF Caches
  <2> HIDE DEF New
  <2> QED
    BY <1>4, <1>5, <1>8, <1>9, <2>1, <2>2
<1>10. ASSUME PQ' = [rest EXCEPT !["L2C"] = Prefetching(@, packet)], returned' = returned
       PROVE  Passed
  <2> DEFINE new == Prefetching(PQ["L2C"], packet)
  <2>1. /\ new \in Seq(Packet) /\ Len(new) \in {Len(PQ["L2C"]), Len(PQ["L2C"]) + 1}
        /\ DistinctLines(PQ["L2C"]) => DistinctLines(new)
        /\ DistinctLines(PQ["L2C"]) =>
             UpwardLines(new)
               = UpwardLines(PQ["L2C"]) \cup (IF packet.fill = 1 THEN {packet.line} ELSE {})
    BY <1>4, <1>5, PrefetchingFacts
  <2>2. DistinctLines(new) /\ UpwardLines(new) = UpwardLines(PQ["L2C"]) \cup New
    BY <1>4, <2>1 DEF line
  <2>3. Len(new) <= PQ_SIZE["L2C"]
    BY <1>2, <1>4, <2>1
  <2>4. PQ' = [rest EXCEPT !["L2C"] = new]
    BY <1>5, <1>10
  <2> HIDE DEF new, New
  <2>5. /\ PQ' \in [Caches -> Seq(Packet)] /\ PQ'["L2C"] = new /\ PQ'["L1D"] = rest["L1D"]
        /\ \A c \in Caches : c # "L2C" => PQ'[c] = rest[c]
    BY <1>0, <1>5, <2>1, <2>4
  <2>6. \A c \in Caches : Len(PQ'[c]) <= PQ_SIZE[c]
    BY <1>8, <2>3, <2>5
  <2> QED
    BY <1>4, <1>10, <2>2, <2>5, <2>6
<1>11. Passed
  <2> HIDE DEF Passed
  <2> QED
    BY <1>3, <1>9, <1>10
<1>12. /\ Registers'
       /\ DOMAIN MSHR'["L1D"] = DOMAIN MSHR["L1D"] \cup New
       /\ MSHR'["L2C"] = MSHR["L2C"]
       /\ \A l \in DOMAIN MSHR["L1D"] : MSHR'["L1D"][l] = MSHR["L1D"][l]
       /\ packet.fill = 1 => MSHR'["L1D"][line] = packet
  <2>1. CASE here
    <3>1. MSHR' = WithRegister("L1D", packet) /\ ~MshrFull("L1D")
      BY <1>2, <2>1
    <3>2. /\ Registers'
          /\ DOMAIN MSHR'["L1D"] = DOMAIN MSHR["L1D"] \cup {packet.line}
          /\ MSHR'["L1D"][packet.line] = packet
          /\ \A l \in DOMAIN MSHR["L1D"] : l # packet.line => MSHR'["L1D"][l] = MSHR["L1D"][l]
          /\ \A other \in Caches : other # "L1D" => MSHR'[other] = MSHR[other]
      BY <1>0, <1>1, <1>5, <3>1, WithRegisterFacts
    <3> QED
      BY <1>0, <1>6, <1>7, <2>1, <3>2 DEF line
  <2>2. CASE ~here
    <3>1. MSHR' = MSHR
      BY <1>2, <2>2
    <3>2. Registers'
      BY <1>1, <3>1 DEF Registers
    <3> QED
      BY <1>6, <2>2, <3>1, <3>2
  <2> QED
    BY <2>1, <2>2
<1>13. Types'
  BY <1>1, <1>2, <1>11 DEF Types
<1>14. Storage' /\ Once' /\ MissesOfL2C'
  BY <1>1, <1>2, <1>11, <1>12 DEF Storage, Once, MissesOfL2C
<1>15. UpwardMisses' = UpwardMisses
  BY <1>12 DEF UpwardMisses
<1>16. MissesOfL1D'
  BY <1>1, <1>2, <1>7, <1>11, <1>12, <1>15 DEF MissesOfL1D
<1>17. \A l \in DOMAIN MSHR'["L1D"] \ DOMAIN MSHR["L1D"] : MSHR'["L1D"][l].waiters = {}
  BY <1>5, <1>12
<1>18. NoLoadPrefetched'
  BY <1>1, <1>2, <1>5, <1>11, <1>12, <1>17 DEF NoLoadPrefetched
<1>19. LoadsPlaced'
  <2>1. DOMAIN MSHR["L1D"] \subseteq DOMAIN MSHR'["L1D"]
    BY <1>12
  <2> QED
    BY <1>1, <1>2, <1>12, <1>17, <2>1, SamePlaces
<1>20. Kept
  BY <1>2, <1>12, SameStores
<1> QED
  BY <1>12, <1>13, <1>14, <1>16, <1>18, <1>19, <1>20 DEF IInv

(***************************************************************************)
(* A new miss of the L2C: it has a register, and it is being read or has   *)
(* returned at once.                                                       *)
(***************************************************************************)
LEMMA NewMissL2C ==
  ASSUME Types, Registers, Once, MissesOfL2C, NEW packet \in Packet, NEW sent \in Packet,
         sent.line = packet.line, ~InFlight("L2C", packet.line), ~MshrFull("L2C"),
         MSHR' = WithRegister("L2C", packet), NEW rq, RequestBelow("L2C", sent, rq)
  PROVE  /\ Registers' /\ MissesOfL2C'
         /\ MSHR'["L1D"] = MSHR["L1D"]
         /\ UpwardMisses' = (UpwardMisses \ {packet.line})
                              \cup (IF packet.fill = 1 THEN {packet.line} ELSE {})
         /\ RQ' = rq /\ LLC' \in [WQ : SUBSET Lines, reading : SUBSET Lines]
         /\ LLC'.WQ = LLC.WQ
         /\ returned' \in [Caches -> Seq(Lines)] /\ returned'["L1D"] = returned["L1D"]
         /\ \A c \in Caches : Distinct(returned'[c])
<1> DEFINE line == packet.line
<1>0. "L1D" \in Caches /\ "L2C" \in Caches /\ "L1D" # "L2C"
  BY DEF Caches
<1>1. /\ Registers'
      /\ DOMAIN MSHR'["L2C"] = DOMAIN MSHR["L2C"] \cup {packet.line}
      /\ MSHR'["L2C"][packet.line] = packet
      /\ \A l \in DOMAIN MSHR["L2C"] : l # packet.line => MSHR'["L2C"][l] = MSHR["L2C"][l]
      /\ \A other \in Caches : other # "L2C" => MSHR'[other] = MSHR[other]
  BY <1>0, WithRegisterFacts
<1>2. ~InFlight("L2C", sent.line)
  OBVIOUS
<1>3. /\ RQ' = rq /\ LLC' \in [WQ : SUBSET Lines, reading : SUBSET Lines] /\ LLC'.WQ = LLC.WQ
      /\ returned' \in [Caches -> Seq(Lines)] /\ returned'["L1D"] = returned["L1D"]
      /\ Distinct(returned'["L2C"])
      /\ \/ /\ LLC'.reading = LLC.reading
            /\ Elements(returned'["L2C"]) = Elements(returned["L2C"]) \cup {sent.line}
         \/ /\ LLC'.reading = LLC.reading \cup {sent.line}
            /\ Elements(returned'["L2C"]) = Elements(returned["L2C"])
  BY <1>2, RequestLLC
<1>4. line \notin LLC.reading /\ line \notin Elements(returned["L2C"])
  BY DEF MissesOfL2C, InFlight
<1>5. MissesOfL2C'
  BY <1>1, <1>3, <1>4 DEF MissesOfL2C
<1>6. UpwardMisses' = (UpwardMisses \ {packet.line})
                        \cup (IF packet.fill = 1 THEN {packet.line} ELSE {})
  BY <1>1, UpwardMissesTaken
<1>7. \A c \in Caches : Distinct(returned'[c])
  BY <1>0, <1>3 DEF Once, Caches
<1> QED
  BY <1>0, <1>1, <1>3, <1>5, <1>6, <1>7

(***************************************************************************)
(* A prefetch misses the L2C; if it is to fill level 1, the miss of the    *)
(* L1D it stands for moves from the queue to the register.                 *)
(***************************************************************************)
LEMMA PrefetchMissL2CStep ==
  ASSUME IInv, PrefetchMissL2C
  PROVE  IInv' /\ Kept
<1> DEFINE packet == Head(PQ["L2C"])
<1>0. "L1D" \in Caches /\ "L2C" \in Caches /\ "L1D" # "L2C"
  BY DEF Caches
<1>1. /\ Types /\ Registers /\ Storage /\ Once /\ MissesOfL1D /\ MissesOfL2C
      /\ NoLoadPrefetched /\ LoadsPlaced
  BY DEF IInv
<1>2. /\ PQ["L2C"] # << >>
      /\ ~InFlight("L2C", packet.line) /\ ~MshrFull("L2C")
      /\ MSHR' = WithRegister("L2C", packet)
      /\ RequestBelow("L2C", packet, RQ)
      /\ PQ' = [PQ EXCEPT !["L2C"] = Tail(@)]
      /\ UNCHANGED <<load, WQ, block, lru>>
  BY DEF PrefetchMissL2C, MayPrefetch
<1>3. PQ \in [Caches -> Seq(Packet)] /\ PQ["L2C"] \in Seq(Packet) /\ DistinctLines(PQ["L2C"])
  BY <1>0, <1>1 DEF Types, Once
<1>4. /\ PQ' \in [Caches -> Seq(Packet)]
      /\ PQ'["L2C"] = Tail(PQ["L2C"]) /\ PQ'["L1D"] = PQ["L1D"] /\ packet \in Packet
      /\ \A k \in Caches : Len(PQ'[k]) <= Len(PQ[k])
  BY <1>0, <1>2, <1>3, HeadTaken
<1>5. /\ DistinctLines(PQ'["L2C"])
      /\ UpwardLines(PQ'["L2C"]) = UpwardLines(PQ["L2C"]) \ {packet.line}
      /\ packet.fill = 1 <=> packet.line \in UpwardLines(PQ["L2C"])
  BY <1>2, <1>3, <1>4, TailLines
<1> HIDE DEF packet
<1>6. /\ Registers' /\ MissesOfL2C'
      /\ MSHR'["L1D"] = MSHR["L1D"]
      /\ UpwardMisses' = (UpwardMisses \ {packet.line})
                           \cup (IF packet.fill = 1 THEN {packet.line} ELSE {})
      /\ RQ' = RQ /\ LLC' \in [WQ : SUBSET Lines, reading : SUBSET Lines]
      /\ LLC'.WQ = LLC.WQ
      /\ returned' \in [Caches -> Seq(Lines)] /\ returned'["L1D"] = returned["L1D"]
      /\ \A c \in Caches : Distinct(returned'[c])
  BY <1>1, <1>2, <1>4, NewMissL2C
<1>7. packet.line \notin UpwardMisses
  BY <1>2 DEF UpwardMisses, InFlight
<1>8. Types'
  <2>1. \A k \in Caches : Len(PQ'[k]) <= PQ_SIZE[k]
    <3>1. \A k \in Caches : /\ Len(PQ[k]) <= PQ_SIZE[k] /\ Len(PQ[k]) \in Nat
                            /\ PQ_SIZE[k] \in Nat /\ Len(PQ'[k]) \in Nat
      BY <1>1, <1>3, <1>4, Geometry DEF Types
    <3> QED
      BY <1>4, <3>1
  <2> QED
    BY <1>1, <1>2, <1>4, <1>6, <2>1 DEF Types
<1>9. Storage' /\ Once' /\ NoLoadPrefetched'
  BY <1>1, <1>2, <1>4, <1>5, <1>6 DEF Storage, Once, NoLoadPrefetched
<1>10. MissesOfL1D'
  <2>1. UpwardLines(PQ["L2C"]) \subseteq DOMAIN MSHR["L1D"]
    BY <1>1 DEF MissesOfL1D
  <2> QED
    BY <1>1, <1>5, <1>6, <1>7, <2>1 DEF MissesOfL1D
<1>11. LoadsPlaced'
  BY <1>1, <1>2, <1>6, SamePlaces
<1>12. Kept
  BY <1>2, <1>6, SameStores
<1> QED
  BY <1>6, <1>8, <1>9, <1>10, <1>11, <1>12 DEF IInv

(***************************************************************************)
(* A read misses the L2C: the miss of the L1D it stands for moves from the *)
(* read queue to a register, a new one or the one it joins, which then     *)
(* fills level 1.                                                          *)
(***************************************************************************)
LEMMA ReadMissL2C ==
  ASSUME IInv, handle_readMiss("L2C")
  PROVE  IInv' /\ Kept
<1> DEFINE packet == Head(RQ["L2C"])
           rest == [RQ EXCEPT !["L2C"] = Tail(@)]
           joined == Joined(MSHR["L2C"][packet.line], packet)
<1>0. "L1D" \in Caches /\ "L2C" \in Caches /\ "L1D" # "L2C"
  BY DEF Caches
<1>1. /\ Types /\ Registers /\ Storage /\ Once /\ MissesOfL1D /\ MissesOfL2C
      /\ NoLoadPrefetched /\ LoadsPlaced
  BY DEF IInv
<1>2. /\ RQ["L2C"] # << >>
      /\ \/ /\ ~InFlight("L2C", packet.line) /\ ~MshrFull("L2C")
            /\ MSHR' = WithRegister("L2C", packet)
            /\ RequestBelow("L2C", Below(packet), rest)
         \/ /\ InFlight("L2C", packet.line)
            /\ MSHR' = WithRegister("L2C", joined)
            /\ RQ' = rest /\ returned' = returned /\ LLC' = LLC
      /\ UNCHANGED <<load, PQ, WQ, block, lru>>
  BY DEF handle_readMiss
<1>3. /\ RQ \in [Caches -> Seq(Packet)] /\ RQ["L2C"] \in Seq(Packet)
      /\ DistinctLines(RQ["L2C"])
  BY <1>0, <1>1 DEF Types, Once
<1>4. /\ rest \in [Caches -> Seq(Packet)] /\ rest["L2C"] = Tail(RQ["L2C"])
      /\ rest["L1D"] = RQ["L1D"]
      /\ \A k \in Caches : Len(rest[k]) <= Len(RQ[k])
      /\ packet \in Packet /\ 1 \in DOMAIN RQ["L2C"] /\ packet = RQ["L2C"][1]
      /\ \A i \in DOMAIN rest["L2C"] :
           i + 1 \in DOMAIN RQ["L2C"] /\ rest["L2C"][i] = RQ["L2C"][i + 1]
  BY <1>0, <1>2, <1>3, HeadTaken
<1>5. packet.fill = 1
  BY <1>1, <1>4 DEF Once
<1>6. /\ DistinctLines(rest["L2C"])
      /\ LinesOf(rest["L2C"]) = LinesOf(RQ["L2C"]) \ {packet.line}
      /\ packet.line \in LinesOf(RQ["L2C"])
  BY <1>2, <1>3, <1>4, TailLines
<1>7. packet.line \notin UpwardMisses
  BY <1>1, <1>6 DEF MissesOfL1D
<1> DEFINE Moved ==
      /\ Registers' /\ MissesOfL2C'
      /\ MSHR'["L1D"] = MSHR["L1D"]
      /\ UpwardMisses' = UpwardMisses \cup {packet.line}
      /\ RQ' = rest /\ LLC' \in [WQ : SUBSET Lines, reading : SUBSET Lines]
      /\ LLC'.WQ = LLC.WQ
      /\ returned' \in [Caches -> Seq(Lines)] /\ returned'["L1D"] = returned["L1D"]
      /\ \A c \in Caches : Distinct(returned'[c])
<1>8. ASSUME ~InFlight("L2C", packet.line), ~MshrFull("L2C"),
             MSHR' = WithRegister("L2C", packet),
             RequestBelow("L2C", Below(packet), rest)
      PROVE  Moved
  <2> DEFINE sent == Below(packet)
  <2>1. sent \in Packet /\ sent.line = packet.line
    <3> DEFINE none == {}
    <3>1. none \in SUBSET Loads /\ sent = [packet EXCEPT !.waiters = none]
      BY DEF Below
    <3> HIDE DEF packet, sent, none
    <3>2. PICK level \in {1, 2} : level = packet.fill
      BY <1>5
    <3>3. LET new == [packet EXCEPT !.waiters = none]
          IN  /\ new \in Packet
              /\ new.line = packet.line /\ new.type = packet.type /\ new.fill = packet.fill
              /\ new.waiters = none
      BY <1>4, <3>1, <3>2, PacketUpdates, ZenonT(60)
    <3> QED
      BY <3>1, <3>3
  <2> HIDE DEF packet, rest, sent
  <2>2. RequestBelow("L2C", sent, rest)
    BY <1>8 DEF sent
  <2>3. /\ Registers' /\ MissesOfL2C'
        /\ MSHR'["L1D"] = MSHR["L1D"]
        /\ UpwardMisses' = (UpwardMisses \ {packet.line})
                             \cup (IF packet.fill = 1 THEN {packet.line} ELSE {})
        /\ RQ' = rest /\ LLC' \in [WQ : SUBSET Lines, reading : SUBSET Lines]
        /\ LLC'.WQ = LLC.WQ
        /\ returned' \in [Caches -> Seq(Lines)] /\ returned'["L1D"] = returned["L1D"]
        /\ \A c \in Caches : Distinct(returned'[c])
    BY <1>1, <1>4, <1>8, <2>1, <2>2, NewMissL2C
  <2> QED
    BY <1>5, <2>3
<1>9. ASSUME InFlight("L2C", packet.line), MSHR' = WithRegister("L2C", joined),
             RQ' = rest, returned' = returned, LLC' = LLC
      PROVE  Moved
  <2> DEFINE register == MSHR["L2C"][packet.line]
  <2>1. register \in Packet /\ register.line = packet.line
    BY <1>0, <1>1, <1>9 DEF Registers, InFlight
  <2> HIDE DEF packet, register
  <2>2. /\ joined \in Packet /\ joined.line = packet.line /\ joined.fill = 1
    BY <1>4, <1>5, <2>1, JoinedFacts DEF register
  <2> HIDE DEF joined
  <2>3. /\ Registers'
        /\ DOMAIN MSHR'["L2C"] = DOMAIN MSHR["L2C"] \cup {joined.line}
        /\ MSHR'["L2C"][joined.line] = joined
        /\ \A l \in DOMAIN MSHR["L2C"] : l # joined.line => MSHR'["L2C"][l] = MSHR["L2C"][l]
        /\ \A other \in Caches : other # "L2C" => MSHR'[other] = MSHR[other]
    <3>1. InFlight("L2C", joined.line)
      BY <1>9, <2>2
    <3> QED
      BY <1>0, <1>1, <1>9, <2>2, <3>1, WithRegisterFacts
  <2>4. UpwardMisses' = UpwardMisses \cup {packet.line}
    <3>1. UpwardMisses' = (UpwardMisses \ {joined.line})
                            \cup (IF joined.fill = 1 THEN {joined.line} ELSE {})
      BY <2>2, <2>3, UpwardMissesTaken
    <3> QED
      BY <1>7, <2>2, <3>1
  <2>5. MissesOfL2C'
    <3>1. DOMAIN MSHR'["L2C"] = DOMAIN MSHR["L2C"]
      BY <1>9, <2>2, <2>3 DEF InFlight
    <3> QED
      BY <1>1, <1>9, <3>1 DEF MissesOfL2C
  <2> HIDE DEF rest
  <2> QED
    BY <1>0, <1>1, <1>9, <2>3, <2>4, <2>5 DEF Types, Once
<1>10. Moved
  <2> HIDE DEF Moved, packet, rest, joined
  <2> QED
    BY <1>2, <1>8, <1>9
<1> HIDE DEF packet, rest
<1>11. Types'
  <2>1. \A k \in Caches : Len(RQ'[k]) <= RQ_SIZE[k]
    <3>1. \A k \in Caches : /\ Len(RQ[k]) <= RQ_SIZE[k] /\ Len(RQ[k]) \in Nat
                            /\ RQ_SIZE[k] \in Nat /\ Len(RQ'[k]) \in Nat
      <4>1. ASSUME NEW k \in Caches
            PROVE  /\ Len(RQ[k]) <= RQ_SIZE[k] /\ Len(RQ[k]) \in Nat
                   /\ RQ_SIZE[k] \in Nat /\ Len(RQ'[k]) \in Nat
        <5>1. RQ[k] \in Seq(Packet) /\ rest[k] \in Seq(Packet)
          BY <1>3, <1>4
        <5>2. RQ'[k] \in Seq(Packet)
          BY <1>10, <5>1
        <5>3. Len(RQ[k]) <= RQ_SIZE[k]
          BY <1>1 DEF Types
        <5>4. RQ_SIZE[k] \in Nat
          BY Geometry
        <5>5. Len(RQ[k]) \in Nat /\ Len(RQ'[k]) \in Nat
          BY <5>1, <5>2
        <5> QED
          BY <5>3, <5>4, <5>5
      <4> QED
        BY <4>1
    <3>2. \A k \in Caches : Len(RQ'[k]) <= Len(RQ[k])
      BY <1>4, <1>10
    <3> QED
      BY <3>1, <3>2
  <2> QED
    BY <1>1, <1>2, <1>4, <1>10, <2>1 DEF Types
<1>12. Storage' /\ Once' /\ NoLoadPrefetched'
  <2>1. \A i \in DOMAIN RQ'["L2C"] : RQ'["L2C"][i].fill = 1
    BY <1>1, <1>4, <1>10 DEF Once
  <2> QED
    BY <1>1, <1>2, <1>4, <1>6, <1>10, <2>1 DEF Storage, Once, NoLoadPrefetched
<1>13. MissesOfL1D'
  BY <1>1, <1>2, <1>6, <1>10 DEF MissesOfL1D
<1>14. LoadsPlaced'
  BY <1>1, <1>2, <1>4, <1>10, SamePlaces
<1>15. Kept
  BY <1>2, <1>10, SameStores
<1> QED
  BY <1>10, <1>11, <1>12, <1>13, <1>14, <1>15 DEF IInv

(***************************************************************************)
(* A new miss of the L1D: it has a register, and it is queued below or has *)
(* returned at once.                                                       *)
(***************************************************************************)
LEMMA NewMissL1D ==
  ASSUME Types, Registers, Once, MissesOfL1D, MissesOfL2C, NEW packet \in Packet,
         NEW sent \in Packet, sent.line = packet.line, sent.fill = 1,
         ~InFlight("L1D", packet.line), ~MshrFull("L1D"),
         MSHR' = WithRegister("L1D", packet),
         NEW rq \in [Caches -> Seq(Packet)], rq["L2C"] = RQ["L2C"],
         RequestBelow("L1D", sent, rq), PQ' = PQ
  PROVE  /\ Registers' /\ MissesOfL1D' /\ MissesOfL2C'
         /\ DOMAIN MSHR'["L1D"] = DOMAIN MSHR["L1D"] \cup {packet.line}
         /\ MSHR'["L1D"][packet.line] = packet
         /\ \A l \in DOMAIN MSHR["L1D"] : l # packet.line => MSHR'["L1D"][l] = MSHR["L1D"][l]
         /\ RQ' \in [Caches -> Seq(Packet)] /\ RQ'["L1D"] = rq["L1D"] /\ LLC' = LLC
         /\ Len(RQ'["L2C"]) <= RQ_SIZE["L2C"] /\ DistinctLines(RQ'["L2C"])
         /\ \A i \in DOMAIN RQ'["L2C"] : RQ'["L2C"][i].fill = 1
         /\ returned' \in [Caches -> Seq(Lines)]
         /\ \A c \in Caches : Distinct(returned'[c])
<1> DEFINE line == packet.line
<1>0. "L1D" \in Caches /\ "L2C" \in Caches /\ "L1D" # "L2C"
  BY DEF Caches
<1>1. /\ Registers'
      /\ DOMAIN MSHR'["L1D"] = DOMAIN MSHR["L1D"] \cup {packet.line}
      /\ MSHR'["L1D"][packet.line] = packet
      /\ \A l \in DOMAIN MSHR["L1D"] : l # packet.line => MSHR'["L1D"][l] = MSHR["L1D"][l]
      /\ \A other \in Caches : other # "L1D" => MSHR'[other] = MSHR[other]
  BY <1>0, WithRegisterFacts
<1>2. ~InFlight("L1D", sent.line)
  OBVIOUS
<1>3. /\ RQ' \in [Caches -> Seq(Packet)] /\ RQ'["L1D"] = rq["L1D"]
      /\ returned' \in [Caches -> Seq(Lines)] /\ returned'["L2C"] = returned["L2C"]
      /\ LLC' = LLC /\ Len(RQ'["L2C"]) <= RQ_SIZE["L2C"]
      /\ DistinctLines(RQ'["L2C"]) /\ \A i \in DOMAIN RQ'["L2C"] : RQ'["L2C"][i].fill = 1
      /\ Distinct(returned'["L1D"])
      /\ \/ /\ LinesOf(RQ'["L2C"]) = LinesOf(RQ["L2C"])
            /\ Elements(returned'["L1D"]) = Elements(returned["L1D"]) \cup {sent.line}
         \/ /\ LinesOf(RQ'["L2C"]) = LinesOf(RQ["L2C"]) \cup {sent.line}
            /\ Elements(returned'["L1D"]) = Elements(returned["L1D"])
  BY <1>2, RequestL2C
<1>4. /\ line \notin DOMAIN MSHR["L1D"] /\ line \notin Elements(returned["L1D"])
      /\ line \notin LinesOf(RQ["L2C"]) /\ line \notin UpwardLines(PQ["L2C"])
      /\ line \notin UpwardMisses
  BY DEF MissesOfL1D, InFlight
<1>5. MSHR'["L2C"] = MSHR["L2C"] /\ UpwardMisses' = UpwardMisses
  <2>1. MSHR'["L2C"] = MSHR["L2C"]
    BY <1>0, <1>1
  <2> QED
    BY <2>1 DEF UpwardMisses
<1>6. MissesOfL1D'
  <2>1. PQ'["L2C"] = PQ["L2C"]
    OBVIOUS
  <2> HIDE DEF line
  <2> QED
    BY <1>1, <1>3, <1>4, <1>5, <2>1 DEF MissesOfL1D, line
<1>7. MissesOfL2C'
  BY <1>3, <1>5 DEF MissesOfL2C
<1>8. \A c \in Caches : Distinct(returned'[c])
  BY <1>0, <1>3 DEF Once, Caches
<1> QED
  BY <1>1, <1>3, <1>6, <1>7, <1>8

(***************************************************************************)
(* A packet that joins a register of the L1D leaves every miss where it    *)
(* is.                                                                     *)
(***************************************************************************)
LEMMA JoinedMiss ==
  ASSUME Registers, MissesOfL1D, MissesOfL2C, NEW packet \in Packet,
         InFlight("L1D", packet.line), MSHR' = WithRegister("L1D", packet),
         RQ'["L2C"] = RQ["L2C"], PQ' = PQ, returned' = returned, LLC' = LLC
  PROVE  /\ Registers' /\ MissesOfL1D' /\ MissesOfL2C'
         /\ DOMAIN MSHR'["L1D"] = DOMAIN MSHR["L1D"]
         /\ MSHR'["L1D"][packet.line] = packet
         /\ \A l \in DOMAIN MSHR["L1D"] : l # packet.line => MSHR'["L1D"][l] = MSHR["L1D"][l]
<1>0. "L1D" \in Caches /\ "L2C" \in Caches /\ "L1D" # "L2C"
  BY DEF Caches
<1>1. /\ Registers'
      /\ DOMAIN MSHR'["L1D"] = DOMAIN MSHR["L1D"] \cup {packet.line}
      /\ MSHR'["L1D"][packet.line] = packet
      /\ \A l \in DOMAIN MSHR["L1D"] : l # packet.line => MSHR'["L1D"][l] = MSHR["L1D"][l]
      /\ \A other \in Caches : other # "L1D" => MSHR'[other] = MSHR[other]
  BY <1>0, WithRegisterFacts
<1>2. MSHR'["L2C"] = MSHR["L2C"]
  BY <1>0, <1>1
<1>3. UpwardMisses' = UpwardMisses
  BY <1>2 DEF UpwardMisses
<1>4. DOMAIN MSHR'["L1D"] = DOMAIN MSHR["L1D"]
  BY <1>1 DEF InFlight
<1>5. MissesOfL1D' /\ MissesOfL2C'
  BY <1>2, <1>3, <1>4 DEF MissesOfL1D, MissesOfL2C
<1> QED
  BY <1>1, <1>4, <1>5

(***************************************************************************)
(* A read misses the L1D: its loads go to the register it takes or joins.  *)
(***************************************************************************)
LEMMA ReadMissL1D ==
  ASSUME IInv, handle_readMiss("L1D")
  PROVE  IInv' /\ Kept
<1> DEFINE packet == Head(RQ["L1D"])
           rest == [RQ EXCEPT !["L1D"] = Tail(@)]
           register == MSHR["L1D"][packet.line]
           joined == Joined(register, packet)
<1>0. "L1D" \in Caches /\ "L2C" \in Caches /\ "L1D" # "L2C"
  BY DEF Caches
<1>1. /\ Types /\ Registers /\ Storage /\ Once /\ MissesOfL1D /\ MissesOfL2C
      /\ NoLoadPrefetched /\ LoadsPlaced
  BY DEF IInv
<1>2. /\ RQ["L1D"] # << >>
      /\ \/ /\ ~InFlight("L1D", packet.line) /\ ~MshrFull("L1D")
            /\ MSHR' = WithRegister("L1D", packet)
            /\ RequestBelow("L1D", Below(packet), rest)
         \/ /\ InFlight("L1D", packet.line)
            /\ MSHR' = WithRegister("L1D", joined)
            /\ RQ' = rest /\ returned' = returned /\ LLC' = LLC
      /\ UNCHANGED <<load, PQ, WQ, block, lru>>
  BY DEF handle_readMiss
<1>3. /\ RQ \in [Caches -> Seq(Packet)] /\ RQ["L1D"] \in Seq(Packet)
      /\ \A c \in Caches : Len(RQ[c]) <= RQ_SIZE[c]
      /\ \A i \in DOMAIN RQ["L1D"] : RQ["L1D"][i].fill = 1 /\ RQ["L1D"][i].type = "LOAD"
  BY <1>0, <1>1 DEF Types, Once, NoLoadPrefetched
<1>4. /\ rest \in [Caches -> Seq(Packet)] /\ rest["L1D"] = Tail(RQ["L1D"])
      /\ rest["L2C"] = RQ["L2C"]
      /\ \A k \in Caches : Len(rest[k]) <= Len(RQ[k])
      /\ packet \in Packet /\ packet.fill = 1 /\ packet.type = "LOAD"
      /\ \A i \in DOMAIN rest["L1D"] : rest["L1D"][i].fill = 1 /\ rest["L1D"][i].type = "LOAD"
  BY <1>0, <1>2, <1>3, HeadTaken
<1>5. \A k \in Caches : /\ Len(RQ[k]) \in Nat /\ RQ_SIZE[k] \in Nat /\ Len(rest[k]) \in Nat
                        /\ Len(rest[k]) <= RQ_SIZE[k]
  <2>1. \A k \in Caches : Len(RQ[k]) \in Nat /\ RQ_SIZE[k] \in Nat /\ Len(rest[k]) \in Nat
    BY <1>3, <1>4, Geometry
  <2> QED
    BY <1>3, <1>4, <2>1
<1> DEFINE Moved ==
      /\ Registers' /\ MissesOfL1D' /\ MissesOfL2C'
      /\ DOMAIN MSHR'["L1D"] = DOMAIN MSHR["L1D"] \cup {packet.line}
      /\ \A l \in DOMAIN MSHR["L1D"] : l # packet.line => MSHR'["L1D"][l] = MSHR["L1D"][l]
      /\ MSHR'["L1D"][packet.line].waiters
           = (IF packet.line \in DOMAIN MSHR["L1D"] THEN MSHR["L1D"][packet.line].waiters
              ELSE {}) \cup packet.waiters
      /\ MSHR'["L1D"][packet.line].type # "PREFETCH"
      /\ packet.line \in DOMAIN MSHR["L1D"] /\ MSHR["L1D"][packet.line].type = "RFO" =>
           MSHR'["L1D"][packet.line].type = "RFO"
      /\ RQ' \in [Caches -> Seq(Packet)] /\ RQ'["L1D"] = rest["L1D"] /\ LLC' = LLC
      /\ Len(RQ'["L2C"]) <= RQ_SIZE["L2C"] /\ DistinctLines(RQ'["L2C"])
      /\ \A i \in DOMAIN RQ'["L2C"] : RQ'["L2C"][i].fill = 1
      /\ returned' \in [Caches -> Seq(Lines)]
      /\ \A c \in Caches : Distinct(returned'[c])
<1>6. ASSUME ~InFlight("L1D", packet.line), ~MshrFull("L1D"),
             MSHR' = WithRegister("L1D", packet),
             RequestBelow("L1D", Below(packet), rest)
      PROVE  Moved
  <2> DEFINE sent == Below(packet)
  <2>1. sent \in Packet /\ sent.line = packet.line /\ sent.fill = 1
    <3> DEFINE none == {}
    <3>1. none \in SUBSET Loads /\ sent = [packet EXCEPT !.waiters = none]
      BY DEF Below
    <3> HIDE DEF packet, sent, none
    <3>2. PICK level \in {1, 2} : level = packet.fill
      BY <1>4
    <3>3. LET new == [packet EXCEPT !.waiters = none]
          IN  /\ new \in Packet
              /\ new.line = packet.line /\ new.type = packet.type /\ new.fill = packet.fill
              /\ new.waiters = none
      BY <1>4, <3>1, <3>2, PacketUpdates
    <3> QED
      BY <1>4, <3>1, <3>3
  <2> HIDE DEF packet, rest, sent
  <2>2. RequestBelow("L1D", sent, rest) /\ PQ' = PQ
    BY <1>2, <1>6 DEF sent
  <2>3. /\ Registers' /\ MissesOfL1D' /\ MissesOfL2C'
        /\ DOMAIN MSHR'["L1D"] = DOMAIN MSHR["L1D"] \cup {packet.line}
        /\ MSHR'["L1D"][packet.line] = packet
        /\ \A l \in DOMAIN MSHR["L1D"] : l # packet.line => MSHR'["L1D"][l] = MSHR["L1D"][l]
        /\ RQ' \in [Caches -> Seq(Packet)] /\ RQ'["L1D"] = rest["L1D"] /\ LLC' = LLC
        /\ Len(RQ'["L2C"]) <= RQ_SIZE["L2C"] /\ DistinctLines(RQ'["L2C"])
        /\ \A i \in DOMAIN RQ'["L2C"] : RQ'["L2C"][i].fill = 1
        /\ returned' \in [Caches -> Seq(Lines)]
        /\ \A c \in Caches : Distinct(returned'[c])
    BY <1>1, <1>4, <1>6, <2>1, <2>2, NewMissL1D
  <2>4. packet.line \notin DOMAIN MSHR["L1D"]
    BY <1>6 DEF InFlight
  <2> QED
    BY <1>4, <2>3, <2>4
<1>7. ASSUME InFlight("L1D", packet.line), MSHR' = WithRegister("L1D", joined),
             RQ' = rest, returned' = returned, LLC' = LLC
      PROVE  Moved
  <2>1. /\ register \in Packet /\ register.line = packet.line
        /\ register.type = "PREFETCH" => register.waiters = {}
    BY <1>0, <1>1, <1>7 DEF Registers, InFlight, NoLoadPrefetched
  <2> HIDE DEF packet, register, rest
  <2>2. /\ joined \in Packet /\ joined.line = packet.line
        /\ joined.waiters = register.waiters \cup packet.waiters
        /\ register.type # "PREFETCH" => joined.type = register.type
        /\ joined.type = "PREFETCH" => packet.type = "PREFETCH"
    BY <1>4, <2>1, JoinedFacts
  <2> HIDE DEF joined
  <2>3. /\ Registers' /\ MissesOfL1D' /\ MissesOfL2C'
        /\ DOMAIN MSHR'["L1D"] = DOMAIN MSHR["L1D"]
        /\ MSHR'["L1D"][joined.line] = joined
        /\ \A l \in DOMAIN MSHR["L1D"] : l # joined.line => MSHR'["L1D"][l] = MSHR["L1D"][l]
    <3>1. InFlight("L1D", joined.line) /\ RQ'["L2C"] = RQ["L2C"] /\ PQ' = PQ
      BY <1>2, <1>4, <1>7, <2>2
    <3> QED
      BY <1>1, <1>7, <2>2, <3>1, JoinedMiss
  <2>4. packet.line \in DOMAIN MSHR["L1D"]
    BY <1>7 DEF InFlight
  <2>5. MSHR'["L1D"][packet.line].waiters = MSHR["L1D"][packet.line].waiters \cup packet.waiters
    BY <2>2, <2>3 DEF register
  <2>6. /\ MSHR'["L1D"][packet.line].type # "PREFETCH"
        /\ MSHR["L1D"][packet.line].type = "RFO" => MSHR'["L1D"][packet.line].type = "RFO"
    BY <1>4, <2>2, <2>3 DEF register
  <2>7. /\ RQ' \in [Caches -> Seq(Packet)] /\ RQ'["L1D"] = rest["L1D"] /\ LLC' = LLC
        /\ Len(RQ'["L2C"]) <= RQ_SIZE["L2C"] /\ DistinctLines(RQ'["L2C"])
        /\ \A i \in DOMAIN RQ'["L2C"] : RQ'["L2C"][i].fill = 1
        /\ returned' \in [Caches -> Seq(Lines)]
        /\ \A c \in Caches : Distinct(returned'[c])
    BY <1>0, <1>1, <1>4, <1>7 DEF Types, Once
  <2> QED
    BY <2>2, <2>3, <2>4, <2>5, <2>6, <2>7
<1>8. Moved
  <2> HIDE DEF Moved, packet, rest, joined
  <2> QED
    BY <1>2, <1>6, <1>7
<1>9. LoadsPlaced'
  <2>1. RQ'["L1D"] = Tail(RQ["L1D"]) /\ load' = load
    BY <1>2, <1>4, <1>8
  <2> QED
    BY <1>1, <1>2, <1>3, <1>8, <2>1, HeadRegistered
<1> HIDE DEF packet, rest
<1>10. Types'
  <2>1. \A k \in Caches : Len(RQ'[k]) <= RQ_SIZE[k]
    BY <1>0, <1>5, <1>8 DEF Caches
  <2>2. LLC' = LLC /\ RQ' \in [Caches -> Seq(Packet)] /\ returned' \in [Caches -> Seq(Lines)]
    BY <1>8
  <2> QED
    BY <1>1, <1>2, <2>1, <2>2 DEF Types
<1>11. Storage' /\ Once'
  BY <1>1, <1>2, <1>4, <1>8 DEF Storage, Once
<1>12. NoLoadPrefetched'
  BY <1>1, <1>2, <1>4, <1>8 DEF NoLoadPrefetched
<1>13. Kept
  <2>1. \A l \in DOMAIN MSHR["L1D"] : MSHR["L1D"][l].type = "RFO" =>
          l \in DOMAIN MSHR'["L1D"] /\ MSHR'["L1D"][l].type = "RFO"
    BY <1>8
  <2>2. LLC'.WQ = LLC.WQ
    BY <1>8
  <2> QED
    BY <1>2, <2>1, <2>2, SameStores
<1> QED
  BY <1>8, <1>9, <1>10, <1>11, <1>12, <1>13 DEF IInv

-----------------------------------------------------------------------------
(***************************************************************************)
(* A handler takes the oldest write off the write queue of its cache.      *)
(***************************************************************************)
LEMMA WriteTaken ==
  ASSUME Types, NEW c \in Caches, WQ[c] # << >>
  PROVE  LET rest == [WQ EXCEPT ![c] = Tail(@)]
         IN  /\ Head(WQ[c]) \in Written(c)
             /\ DOMAIN rest = Caches
             /\ \A k \in Caches : rest[k] \in Seq(Written(k)) /\ Len(rest[k]) <= WQ_SIZE[k]
             /\ \A k \in Caches : k # c => rest[k] = WQ[k]
             /\ Elements(WQ[c]) = Elements(rest[c]) \cup {Head(WQ[c])}
<1> DEFINE q == WQ[c]
           tail == Tail(q)
           rest == [WQ EXCEPT ![c] = tail]
<1>1. /\ DOMAIN WQ = Caches /\ q \in Seq(Written(c)) /\ Len(q) <= WQ_SIZE[c]
      /\ \A k \in Caches : WQ[k] \in Seq(Written(k)) /\ Len(WQ[k]) <= WQ_SIZE[k]
      /\ WQ_SIZE[c] \in Nat
  BY Geometry DEF Types
<1>2. /\ tail \in Seq(Written(c)) /\ Head(q) \in Written(c)
      /\ Len(q) \in Nat \ {0} /\ Len(tail) = Len(q) - 1
  BY <1>1, TailFacts
<1>3. Elements(q) = Elements(tail) \cup {Head(q)}
  BY <1>1, TailElements
<1>4. Len(tail) <= WQ_SIZE[c]
  BY <1>1, <1>2
<1> HIDE DEF tail
<1>5. /\ DOMAIN rest = Caches /\ rest[c] = tail
      /\ \A k \in Caches : k # c => rest[k] = WQ[k]
  BY <1>1
<1> HIDE DEF rest
<1>6. \A k \in Caches : rest[k] \in Seq(Written(k)) /\ Len(rest[k]) <= WQ_SIZE[k]
  BY <1>1, <1>2, <1>4, <1>5
<1> QED
  BY <1>2, <1>3, <1>5, <1>6 DEF rest, tail

(***************************************************************************)
(* A store misses the L1D: it has a register of its own, or one in flight  *)
(* that marks the block when it is filled; the loads stay where they are.  *)
(***************************************************************************)
LEMMA StoreMissStep ==
  ASSUME IInv, StoreMiss
  PROVE  IInv' /\ Kept
<1> DEFINE line == LineOf(Head(WQ["L1D"]))
           packet == [line |-> line, type |-> "RFO", fill |-> 1, waiters |-> {}]
           rest == [WQ EXCEPT !["L1D"] = Tail(@)]
           register == IF MSHR["L1D"][line].type = "PREFETCH" THEN packet
                       ELSE MSHR["L1D"][line]
<1>0. "L1D" \in Caches /\ "L2C" \in Caches /\ "L1D" # "L2C"
  BY DEF Caches
<1>1. /\ Types /\ Registers /\ Storage /\ Once /\ MissesOfL1D /\ MissesOfL2C
      /\ NoLoadPrefetched /\ LoadsPlaced
  BY DEF IInv
<1>2. /\ WQ["L1D"] # << >>
      /\ \/ /\ ~InFlight("L1D", line) /\ ~MshrFull("L1D")
            /\ MSHR' = WithRegister("L1D", packet)
            /\ RequestBelow("L1D", packet, RQ)
         \/ /\ InFlight("L1D", line)
            /\ MSHR' = WithRegister("L1D", register)
            /\ RQ' = RQ /\ returned' = returned /\ LLC' = LLC
      /\ WQ' = rest
      /\ UNCHANGED <<load, PQ, block, lru>>
  BY DEF StoreMiss
<1>3. /\ Head(WQ["L1D"]) \in Addresses /\ DOMAIN rest = Caches
      /\ \A k \in Caches : rest[k] \in Seq(Written(k)) /\ Len(rest[k]) <= WQ_SIZE[k]
      /\ rest["L2C"] = WQ["L2C"]
  BY <1>0, <1>1, <1>2, WriteTaken DEF Written
<1>4. line \in Lines
  BY <1>0, <1>3, Geometry
<1> HIDE DEF line, rest
<1>5. packet \in Packet /\ packet.line = line /\ packet.fill = 1 /\ packet.type = "RFO"
      /\ packet.waiters = {}
  BY <1>4 DEF Packet
<1> HIDE DEF packet
<1> DEFINE Taken ==
      /\ Registers' /\ MissesOfL1D' /\ MissesOfL2C'
      /\ DOMAIN MSHR'["L1D"] = DOMAIN MSHR["L1D"] \cup {line}
      /\ \A l \in DOMAIN MSHR["L1D"] : l # line => MSHR'["L1D"][l] = MSHR["L1D"][l]
      /\ MSHR'["L1D"][line].waiters
           = IF line \in DOMAIN MSHR["L1D"] THEN MSHR["L1D"][line].waiters ELSE {}
      /\ MSHR'["L1D"][line].type # "PREFETCH"
      /\ line \in DOMAIN MSHR["L1D"] /\ MSHR["L1D"][line].type = "RFO" =>
           MSHR'["L1D"][line].type = "RFO"
      /\ RQ' \in [Caches -> Seq(Packet)] /\ RQ'["L1D"] = RQ["L1D"] /\ LLC' = LLC
      /\ Len(RQ'["L2C"]) <= RQ_SIZE["L2C"] /\ DistinctLines(RQ'["L2C"])
      /\ \A i \in DOMAIN RQ'["L2C"] : RQ'["L2C"][i].fill = 1
      /\ returned' \in [Caches -> Seq(Lines)]
      /\ \A c \in Caches : Distinct(returned'[c])
<1>6. ASSUME ~InFlight("L1D", line), ~MshrFull("L1D"),
             MSHR' = WithRegister("L1D", packet), RequestBelow("L1D", packet, RQ)
      PROVE  Taken
  <2>1. RQ \in [Caches -> Seq(Packet)] /\ PQ' = PQ /\ ~InFlight("L1D", packet.line)
    BY <1>1, <1>2, <1>5, <1>6 DEF Types
  <2>2. /\ Registers' /\ MissesOfL1D' /\ MissesOfL2C'
        /\ DOMAIN MSHR'["L1D"] = DOMAIN MSHR["L1D"] \cup {packet.line}
        /\ MSHR'["L1D"][packet.line] = packet
        /\ \A l \in DOMAIN MSHR["L1D"] : l # packet.line => MSHR'["L1D"][l] = MSHR["L1D"][l]
        /\ RQ' \in [Caches -> Seq(Packet)] /\ RQ'["L1D"] = RQ["L1D"] /\ LLC' = LLC
        /\ Len(RQ'["L2C"]) <= RQ_SIZE["L2C"] /\ DistinctLines(RQ'["L2C"])
        /\ \A i \in DOMAIN RQ'["L2C"] : RQ'["L2C"][i].fill = 1
        /\ returned' \in [Caches -> Seq(Lines)]
        /\ \A c \in Caches : Distinct(returned'[c])
    BY <1>1, <1>5, <1>6, <2>1, NewMissL1D
  <2>3. line \notin DOMAIN MSHR["L1D"]
    BY <1>6 DEF InFlight
  <2> QED
    BY <1>5, <2>2, <2>3
<1>7. ASSUME InFlight("L1D", line), MSHR' = WithRegister("L1D", register),
             RQ' = RQ, returned' = returned, LLC' = LLC
      PROVE  Taken
  <2> DEFINE old == MSHR["L1D"][line]
  <2>1. /\ old \in Packet /\ old.line = line
        /\ old.type = "PREFETCH" => old.waiters = {}
    BY <1>0, <1>1, <1>7 DEF Registers, InFlight, NoLoadPrefetched
  <2>2. /\ register \in Packet /\ register.line = line /\ register.waiters = old.waiters
        /\ register.type # "PREFETCH" /\ (old.type = "RFO" => register.type = "RFO")
    BY <1>5, <2>1
  <2> HIDE DEF register
  <2>3. /\ Registers' /\ MissesOfL1D' /\ MissesOfL2C'
        /\ DOMAIN MSHR'["L1D"] = DOMAIN MSHR["L1D"]
        /\ MSHR'["L1D"][register.line] = register
        /\ \A l \in DOMAIN MSHR["L1D"] :
             l # register.line => MSHR'["L1D"][l] = MSHR["L1D"][l]
    <3>1. InFlight("L1D", register.line) /\ RQ'["L2C"] = RQ["L2C"] /\ PQ' = PQ
      BY <1>2, <1>7, <2>2
    <3> QED
      BY <1>1, <1>7, <2>2, <3>1, JoinedMiss
  <2>4. line \in DOMAIN MSHR["L1D"]
    BY <1>7 DEF InFlight
  <2>5. /\ RQ' \in [Caches -> Seq(Packet)] /\ RQ'["L1D"] = RQ["L1D"] /\ LLC' = LLC
        /\ Len(RQ'["L2C"]) <= RQ_SIZE["L2C"] /\ DistinctLines(RQ'["L2C"])
        /\ \A i \in DOMAIN RQ'["L2C"] : RQ'["L2C"][i].fill = 1
        /\ returned' \in [Caches -> Seq(Lines)]
        /\ \A c \in Caches : Distinct(returned'[c])
    BY <1>0, <1>1, <1>7 DEF Types, Once
  <2> QED
    BY <2>2, <2>3, <2>4, <2>5
<1>8. Taken
  <2> HIDE DEF Taken, register
  <2> QED
    BY <1>2, <1>6, <1>7
<1>9. Types'
  <2>1. \A k \in Caches : Len(RQ'[k]) <= RQ_SIZE[k]
    BY <1>0, <1>1, <1>8 DEF Types, Caches
  <2>2. LLC' = LLC /\ RQ' \in [Caches -> Seq(Packet)] /\ returned' \in [Caches -> Seq(Lines)]
    BY <1>8
  <2> QED
    BY <1>1, <1>2, <1>3, <2>1, <2>2 DEF Types
<1>10. Storage' /\ Once'
  BY <1>1, <1>2, <1>8 DEF Storage, Once
<1>11. NoLoadPrefetched'
  BY <1>1, <1>2, <1>8 DEF NoLoadPrefetched
<1>12. LoadsPlaced'
  <2>1. /\ DOMAIN MSHR["L1D"] \subseteq DOMAIN MSHR'["L1D"]
        /\ \A l \in DOMAIN MSHR["L1D"] : MSHR'["L1D"][l].waiters = MSHR["L1D"][l].waiters
        /\ \A l \in DOMAIN MSHR'["L1D"] \ DOMAIN MSHR["L1D"] : MSHR'["L1D"][l].waiters = {}
    BY <1>8
  <2>2. RQ'["L1D"] = RQ["L1D"] /\ load' = load
    BY <1>2, <1>8
  <2> QED
    BY <1>1, <2>1, <2>2, SamePlaces
<1>13. Kept
  <2>1. \A l \in DOMAIN MSHR["L1D"] : MSHR["L1D"][l].type = "RFO" =>
          l \in DOMAIN MSHR'["L1D"] /\ MSHR'["L1D"][l].type = "RFO"
    BY <1>8
  <2>2. LLC'.WQ = LLC.WQ /\ WQ'["L2C"] = WQ["L2C"]
    BY <1>2, <1>3, <1>8
  <2> QED
    BY <1>2, <2>1, <2>2, SameStores
<1> QED
  BY <1>8, <1>9, <1>10, <1>11, <1>12, <1>13 DEF IInv

(***************************************************************************)
(* A fill replaces the victim: if that was dirty, its line is the only one *)
(* that may cease to be so.                                                *)
(***************************************************************************)
LEMMA FilledStorage ==
  ASSUME Storage, NEW c \in Caches, NEW line \in Lines, NEW dirty \in BOOLEAN,
         block' = Filled(c, line, Victim(c, line), dirty),
         lru' = Promoted(c, line, Victim(c, line))
  PROVE  LET old == VictimBlock(c, line)
         IN  /\ Storage'
             /\ dirty => line \in DirtyIn(c)'
             /\ DirtyIn(c) \subseteq DirtyIn(c)' \cup (IF old.dirty THEN {old.line} ELSE {})
             /\ \A k \in Caches : k # c => DirtyIn(k)' = DirtyIn(k)
             /\ old.dirty => old.line \in Lines
<1> DEFINE set == get_set(c, line)
           way == Victim(c, line)
           new == [line |-> line, dirty |-> dirty]
           old == VictimBlock(c, line)
<1>1. set \in Sets(c) /\ way \in Ways(c) /\ old \in Block /\ old = block[c][set][way]
  BY VictimFacts DEF VictimBlock
<1>2. new \in Block /\ new.line = line /\ new.dirty = dirty
  BY DEF Block
<1>3. block' = [block EXCEPT ![c][set][way] = new]
  BY DEF Filled
<1>4. old.dirty => old.line \in Lines
  BY <1>1 DEF Block, NoBlock
<1>5. /\ DOMAIN lru' = Caches
      /\ \A k \in Caches : /\ DOMAIN lru'[k] = Sets(k)
                           /\ \A s \in Sets(k) : IsRanking(NUM_WAY[k], lru'[k][s])
  BY <1>1, PromotedFacts
<1> HIDE DEF set, way, new, old
<1>6. /\ DOMAIN block' = Caches
      /\ \A k \in Caches : block'[k] \in [Sets(k) -> [Ways(k) -> Block]]
      /\ new.dirty => new.line \in DirtyIn(c)'
      /\ DirtyIn(c) \subseteq DirtyIn(c)'
           \cup (IF block[c][set][way].dirty THEN {block[c][set][way].line} ELSE {})
      /\ \A k \in Caches : k # c => DirtyIn(k)' = DirtyIn(k)
  BY <1>1, <1>2, <1>3, BlockFacts
<1>7. Storage'
  BY <1>5, <1>6 DEF Storage, Sets, Ways
<1> QED
  BY <1>1, <1>2, <1>4, <1>6, <1>7 DEF old

(***************************************************************************)
(* A store hits the L1D, or a write-back the L2C: the block is dirty, and  *)
(* no block ceases to be.                                                  *)
(***************************************************************************)
LEMMA WritebackHitStep ==
  ASSUME IInv, NEW c \in Caches, handle_writebackHit(c)
  PROVE  IInv' /\ Kept
<1> DEFINE line == IF c = "L1D" THEN LineOf(Head(WQ[c])) ELSE Head(WQ[c])
           way == HitWay(c, line)
           set == get_set(c, line)
           rest == [WQ EXCEPT ![c] = Tail(@)]
<1>0. "L1D" \in Caches /\ "L2C" \in Caches /\ "L1D" # "L2C" /\ (c # "L1D" => c = "L2C")
  BY DEF Caches
<1>1. /\ Types /\ Registers /\ Storage /\ Once /\ MissesOfL1D /\ MissesOfL2C
      /\ NoLoadPrefetched /\ LoadsPlaced
  BY DEF IInv
<1>2. /\ WQ[c] # << >> /\ Hits(c, line) # {}
      /\ block' = [block EXCEPT ![c][set][way].dirty = TRUE]
      /\ lru' = IF c = "L1D" THEN Promoted(c, line, way) ELSE lru
      /\ WQ' = rest
      /\ UNCHANGED <<load, RQ, PQ, MSHR, returned, LLC>>
  BY DEF handle_writebackHit
<1>3. /\ Head(WQ[c]) \in Written(c) /\ DOMAIN rest = Caches
      /\ \A k \in Caches : rest[k] \in Seq(Written(k)) /\ Len(rest[k]) <= WQ_SIZE[k]
      /\ \A k \in Caches : k # c => rest[k] = WQ[k]
      /\ Elements(WQ[c]) = Elements(rest[c]) \cup {Head(WQ[c])}
  BY <1>1, <1>2, WriteTaken
<1>4. line \in Lines /\ line # None
  BY <1>0, <1>3, Geometry DEF Written
<1>5. /\ set \in Sets(c) /\ way \in Ways(c) /\ block[c][set][way].line = line
  BY <1>2, <1>4, Geometry, HitWayFacts
<1>6. c = "L2C" => line = Head(WQ[c])
  BY <1>0
<1> HIDE DEF line, way, set, rest
<1> DEFINE new == [line |-> line, dirty |-> TRUE]
<1>7. block' = [block EXCEPT ![c][set][way] = new]
  <2>1. PICK old : old = block[c][set][way]
    OBVIOUS
  <2>2. old \in Block
    BY <1>1, <1>5, <2>1 DEF Storage
  <2>3. old = [line |-> old.line, dirty |-> old.dirty]
    BY <2>2 DEF Block, NoBlock
  <2>4. \A w : [old EXCEPT !.dirty = w] = [line |-> old.line, dirty |-> w]
    BY <2>3
  <2>5. [old EXCEPT !.dirty = TRUE] = new
    BY <1>5, <2>1, <2>4
  <2> QED
    BY <1>2, <2>1, <2>5
<1>8. new \in Block /\ new.line = line /\ new.dirty
  BY <1>4 DEF Block
<1> HIDE DEF new
<1>9. /\ DOMAIN block' = Caches
      /\ \A k \in Caches : block'[k] \in [Sets(k) -> [Ways(k) -> Block]]
      /\ new.dirty => new.line \in DirtyIn(c)'
      /\ DirtyIn(c) \subseteq DirtyIn(c)'
           \cup (IF block[c][set][way].dirty THEN {block[c][set][way].line} ELSE {})
      /\ \A k \in Caches : k # c => DirtyIn(k)' = DirtyIn(k)
  BY <1>1, <1>5, <1>7, <1>8, BlockFacts
<1>10. line \in DirtyIn(c)' /\ \A k \in Caches : DirtyIn(k) \subseteq DirtyIn(k)'
  BY <1>5, <1>8, <1>9
<1>11. Storage'
  <2>1. /\ DOMAIN lru' = Caches
        /\ \A k \in Caches : /\ DOMAIN lru'[k] = Sets(k)
                             /\ \A s \in Sets(k) : IsRanking(NUM_WAY[k], lru'[k][s])
    <3>1. CASE c = "L1D"
      BY <1>1, <1>2, <1>4, <1>5, <3>1, PromotedFacts
    <3>2. CASE c # "L1D"
      BY <1>1, <1>2, <3>2 DEF Storage
    <3> QED
      BY <3>1, <3>2
  <2> QED
    BY <1>9, <2>1 DEF Storage, Sets, Ways
<1>12. Types'
  BY <1>1, <1>2, <1>3 DEF Types
<1>13. Once' /\ NoLoadPrefetched'
  BY <1>1, <1>2 DEF Once, NoLoadPrefetched
<1>14. Registers' /\ MissesOfL1D' /\ MissesOfL2C'
  BY <1>1, <1>2, SameMisses
<1>15. LoadsPlaced'
  BY <1>1, <1>2, SamePlaces
<1>16. Kept
  <2>1. Elements(WQ["L2C"]) \subseteq Elements(WQ'["L2C"]) \cup DirtyIn("L2C")'
    BY <1>0, <1>2, <1>3, <1>6, <1>10
  <2>2. Modified \subseteq Modified'
    BY <1>0, <1>2, <1>10, <2>1 DEF Modified
  <2> QED
    BY <2>2 DEF Kept
<1> QED
  BY <1>11, <1>12, <1>13, <1>14, <1>15, <1>16 DEF IInv

(***************************************************************************)
(* A write-back that misses the L2C replaces a block, whose modification   *)
(* goes to the LLC's write queue.                                          *)
(***************************************************************************)
LEMMA WritebackMissStep ==
  ASSUME IInv, WritebackMiss
  PROVE  IInv' /\ Kept
<1> DEFINE line == Head(WQ["L2C"])
           old == VictimBlock("L2C", line)
           rest == [WQ EXCEPT !["L2C"] = Tail(@)]
<1>0. "L1D" \in Caches /\ "L2C" \in Caches /\ "L1D" # "L2C"
  BY DEF Caches
<1>1. /\ Types /\ Registers /\ Storage /\ Once /\ MissesOfL1D /\ MissesOfL2C
      /\ NoLoadPrefetched /\ LoadsPlaced
  BY DEF IInv
<1>2. /\ WQ["L2C"] # << >>
      /\ old.dirty => ~WqFullBelow("L2C")
      /\ IF old.dirty THEN WriteBelow("L2C", old.line, rest) ELSE WQ' = rest /\ LLC' = LLC
      /\ block' = Filled("L2C", line, Victim("L2C", line), TRUE)
      /\ lru' = Promoted("L2C", line, Victim("L2C", line))
      /\ UNCHANGED <<load, RQ, PQ, MSHR, returned>>
  BY DEF WritebackMiss
<1>3. /\ line \in Lines /\ DOMAIN rest = Caches
      /\ \A k \in Caches : rest[k] \in Seq(Written(k)) /\ Len(rest[k]) <= WQ_SIZE[k]
      /\ Elements(WQ["L2C"]) = Elements(rest["L2C"]) \cup {line}
  BY <1>0, <1>1, <1>2, WriteTaken DEF Written
<1> HIDE DEF rest
<1>4. /\ Storage' /\ line \in DirtyIn("L2C")'
      /\ DirtyIn("L2C") \subseteq DirtyIn("L2C")' \cup (IF old.dirty THEN {old.line} ELSE {})
      /\ \A k \in Caches : k # "L2C" => DirtyIn(k)' = DirtyIn(k)
      /\ old.dirty => old.line \in Lines
  <2> HIDE DEF line
  <2>1. TRUE \in BOOLEAN
    OBVIOUS
  <2> QED
    BY <1>0, <1>1, <1>2, <1>3, <2>1, FilledStorage
<1> HIDE DEF line, old
<1>5. /\ WQ' = rest /\ LLC' \in [WQ : SUBSET Lines, reading : SUBSET Lines]
      /\ LLC'.reading = LLC.reading
      /\ LLC'.WQ = LLC.WQ \cup (IF old.dirty THEN {old.line} ELSE {})
      /\ IsFiniteSet(LLC'.WQ) /\ Cardinality(LLC'.WQ) <= LLC_WQ_SIZE
  <2>1. CASE old.dirty
    <3>1. /\ WQ' = rest /\ LLC' \in [WQ : SUBSET Lines, reading : SUBSET Lines]
          /\ LLC'.reading = LLC.reading /\ LLC'.WQ = LLC.WQ \cup {old.line}
          /\ IsFiniteSet(LLC'.WQ) /\ Cardinality(LLC'.WQ) <= LLC_WQ_SIZE
      BY <1>1, <1>2, <1>4, <2>1, WriteLLC
    <3> QED
      BY <2>1, <3>1
  <2>2. CASE ~old.dirty
    <3>1. WQ' = rest /\ LLC' = LLC
      BY <1>2, <2>2
    <3> QED
      BY <1>1, <2>2, <3>1 DEF Types
  <2> QED
    BY <2>1, <2>2
<1>6. Types'
  BY <1>1, <1>2, <1>3, <1>5 DEF Types
<1>7. Once' /\ NoLoadPrefetched'
  BY <1>1, <1>2 DEF Once, NoLoadPrefetched
<1>8. Registers' /\ MissesOfL1D' /\ MissesOfL2C'
  BY <1>1, <1>2, <1>5, SameMisses
<1>9. LoadsPlaced'
  BY <1>1, <1>2, SamePlaces
<1>10. Kept
  <2>1. Modified \subseteq Modified'
    BY <1>0, <1>2, <1>3, <1>4, <1>5 DEF Modified
  <2> QED
    BY <2>1 DEF Kept
<1> QED
  BY <1>4, <1>6, <1>7, <1>8, <1>9, <1>10 DEF IInv

(***************************************************************************)
(* A fill of the L1D answers its loads; the mark of a store and the        *)
(* modification of the victim both stay.                                   *)
(***************************************************************************)
LEMMA FillL1D ==
  ASSUME IInv, handle_fill("L1D")
  PROVE  IInv' /\ Kept
<1> DEFINE q == returned["L1D"]
           line == Head(q)
           packet == MSHR["L1D"][line]
           old == VictimBlock("L1D", line)
           dirty == packet.type = "RFO"
<1>0. "L1D" \in Caches /\ "L2C" \in Caches /\ "L1D" # "L2C" /\ fill_level["L1D"] = 1
  BY DEF Caches, fill_level
<1>1. /\ Types /\ Registers /\ Storage /\ Once /\ MissesOfL1D /\ MissesOfL2C
      /\ NoLoadPrefetched /\ LoadsPlaced
  BY DEF IInv
<1>2. /\ q # << >>
      /\ old.dirty => ~WqFullBelow("L1D")
      /\ IF old.dirty THEN WriteBelow("L1D", old.line, WQ) ELSE WQ' = WQ /\ LLC' = LLC
      /\ block' = Filled("L1D", line, Victim("L1D", line), dirty)
      /\ lru' = Promoted("L1D", line, Victim("L1D", line))
      /\ MSHR' = WithoutRegister("L1D", line)
      /\ returned' = IF packet.fill < fill_level["L1D"]
                     THEN [returned EXCEPT !["L1D"] = Tail(@), !["L1D"] = Append(@, line)]
                     ELSE [returned EXCEPT !["L1D"] = Tail(@)]
      /\ load' = Completed(packet.waiters)
      /\ RQ' = RQ /\ PQ' = PQ
  BY DEF handle_fill
<1>3. /\ returned \in [Caches -> Seq(Lines)] /\ q \in Seq(Lines) /\ Distinct(q)
      /\ line \in Lines /\ Tail(q) \in Seq(Lines)
  <2>1. returned \in [Caches -> Seq(Lines)] /\ q \in Seq(Lines) /\ Distinct(q)
    BY <1>0, <1>1 DEF Types, Once
  <2> HIDE DEF q
  <2> QED
    BY <1>2, <2>1, TailFacts
<1>4. /\ Elements(q) = Elements(Tail(q)) \cup {line} /\ Distinct(Tail(q))
      /\ Elements(Tail(q)) = Elements(q) \ {line}
  BY <1>2, <1>3, TailElements
<1>5. line \in DOMAIN MSHR["L1D"]
  BY <1>1, <1>4 DEF MissesOfL1D
<1>6. packet \in Packet /\ packet.fill \in {1, 2}
  <2>1. packet \in Packet
    BY <1>0, <1>1, <1>5 DEF Registers
  <2> HIDE DEF packet
  <2> QED
    BY <2>1 DEF Packet
<1> HIDE DEF line, packet
<1>7. /\ returned' \in [Caches -> Seq(Lines)] /\ returned'["L2C"] = returned["L2C"]
      /\ Distinct(returned'["L1D"]) /\ Elements(returned'["L1D"]) = Elements(q) \ {line}
  <2> DEFINE tail == Tail(q)
  <2>1. returned' = [returned EXCEPT !["L1D"] = tail]
    BY <1>0, <1>2, <1>6
  <2>2. tail \in Seq(Lines) /\ Distinct(tail) /\ Elements(tail) = Elements(q) \ {line}
    BY <1>3, <1>4
  <2> HIDE DEF tail
  <2>3. /\ returned' \in [Caches -> Seq(Lines)] /\ returned'["L2C"] = returned["L2C"]
        /\ returned'["L1D"] = tail
    BY <1>0, <1>3, <2>1, <2>2
  <2> QED
    BY <2>2, <2>3
<1>8. /\ Registers'
      /\ DOMAIN MSHR'["L1D"] = DOMAIN MSHR["L1D"] \ {line}
      /\ \A l \in DOMAIN MSHR["L1D"] : l # line => MSHR'["L1D"][l] = MSHR["L1D"][l]
      /\ \A other \in Caches : other # "L1D" => MSHR'[other] = MSHR[other]
  BY <1>0, <1>1, <1>2, <1>5, WithoutRegisterFacts
<1>9. MSHR'["L2C"] = MSHR["L2C"] /\ UpwardMisses' = UpwardMisses
  <2>1. MSHR'["L2C"] = MSHR["L2C"]
    BY <1>0, <1>8
  <2> QED
    BY <2>1 DEF UpwardMisses
<1>10. dirty \in BOOLEAN
  OBVIOUS
<1> HIDE DEF dirty, q
<1>11. /\ Storage' /\ (dirty => line \in DirtyIn("L1D")')
       /\ DirtyIn("L1D") \subseteq DirtyIn("L1D")' \cup (IF old.dirty THEN {old.line} ELSE {})
       /\ \A k \in Caches : k # "L1D" => DirtyIn(k)' = DirtyIn(k)
       /\ old.dirty => old.line \in Lines
  BY <1>0, <1>1, <1>2, <1>3, <1>10, FilledStorage
<1> HIDE DEF old
<1>12. /\ LLC' = LLC /\ DOMAIN WQ' = Caches /\ WQ'["L1D"] = WQ["L1D"]
       /\ WQ'["L2C"] \in Seq(Lines) /\ Len(WQ'["L2C"]) <= WQ_SIZE["L2C"]
       /\ Elements(WQ'["L2C"])
            = Elements(WQ["L2C"]) \cup (IF old.dirty THEN {old.line} ELSE {})
  <2>1. CASE old.dirty
    <3>1. /\ LLC' = LLC /\ DOMAIN WQ' = Caches /\ WQ'["L1D"] = WQ["L1D"]
          /\ WQ'["L2C"] \in Seq(Lines) /\ Len(WQ'["L2C"]) <= WQ_SIZE["L2C"]
          /\ Elements(WQ'["L2C"]) = Elements(WQ["L2C"]) \cup {old.line}
      BY <1>1, <1>2, <1>11, <2>1, WriteL2C
    <3> QED
      BY <2>1, <3>1
  <2>2. CASE ~old.dirty
    <3>1. WQ' = WQ /\ LLC' = LLC
      BY <1>2, <2>2
    <3>2. DOMAIN WQ = Caches /\ WQ["L2C"] \in Seq(Lines) /\ Len(WQ["L2C"]) <= WQ_SIZE["L2C"]
      BY <1>0, <1>1 DEF Types, Written
    <3> QED
      BY <2>2, <3>1, <3>2
  <2> QED
    BY <2>1, <2>2
<1>13. load' \in [Loads -> LoadState]
  BY <1>1, <1>2, CompletedFacts
<1>14. Types'
  <2>1. \A k \in Caches : WQ'[k] \in Seq(Written(k)) /\ Len(WQ'[k]) <= WQ_SIZE[k]
    BY <1>0, <1>1, <1>12 DEF Types, Written, Caches
  <2> QED
    BY <1>1, <1>2, <1>7, <1>12, <1>13, <2>1 DEF Types, LoadState
<1>15. Once'
  <2>1. \A c \in Caches : Distinct(returned'[c])
    BY <1>1, <1>7 DEF Once, Caches
  <2> QED
    BY <1>1, <1>2, <2>1 DEF Once
<1>16. MissesOfL1D'
  <2>1. /\ line \notin LinesOf(RQ["L2C"]) /\ line \notin UpwardLines(PQ["L2C"])
        /\ line \notin UpwardMisses
    BY <1>1, <1>4 DEF MissesOfL1D, q
  <2> QED
    BY <1>1, <1>2, <1>7, <1>8, <1>9, <2>1 DEF MissesOfL1D, q
<1>17. MissesOfL2C'
  BY <1>1, <1>7, <1>9, <1>12 DEF MissesOfL2C
<1>18. NoLoadPrefetched'
  BY <1>1, <1>2, <1>8 DEF NoLoadPrefetched
<1>19. LoadsPlaced'
  <2>1. RQ'["L1D"] = RQ["L1D"] /\ load' = Completed(MSHR["L1D"][line].waiters)
    BY <1>2 DEF packet
  <2> QED
    BY <1>1, <1>5, <1>8, <2>1, RegisterAnswered
<1>20. Kept
  <2>1. \A l \in DOMAIN MSHR["L1D"] : MSHR["L1D"][l].type = "RFO" =>
          \/ l \in DOMAIN MSHR'["L1D"] /\ MSHR'["L1D"][l].type = "RFO"
          \/ l \in DirtyIn("L1D")'
    BY <1>8, <1>11 DEF dirty, packet
  <2>2. DirtyIn("L2C")' = DirtyIn("L2C") /\ LLC'.WQ = LLC.WQ
    BY <1>0, <1>11, <1>12
  <2>3. Modified \subseteq Modified'
    BY <1>11, <1>12, <2>1, <2>2 DEF Modified
  <2> QED
    BY <2>3 DEF Kept
<1> QED
  BY <1>8, <1>11, <1>14, <1>15, <1>16, <1>17, <1>18, <1>19, <1>20 DEF IInv

(***************************************************************************)
(* A fill of the L2C: a register that is to fill level 1 is a miss of the  *)
(* L1D, which now returns.                                                 *)
(***************************************************************************)
LEMMA FillL2C ==
  ASSUME IInv, handle_fill("L2C")
  PROVE  IInv' /\ Kept
<1> DEFINE q == returned["L2C"]
           line == Head(q)
           packet == MSHR["L2C"][line]
           old == VictimBlock("L2C", line)
           rest == [returned EXCEPT !["L2C"] = Tail(@)]
<1>0. "L1D" \in Caches /\ "L2C" \in Caches /\ "L1D" # "L2C" /\ fill_level["L2C"] = 2
  BY DEF Caches, fill_level
<1>1. /\ Types /\ Registers /\ Storage /\ Once /\ MissesOfL1D /\ MissesOfL2C
      /\ NoLoadPrefetched /\ LoadsPlaced
  BY DEF IInv
<1>2. /\ q # << >>
      /\ old.dirty => ~WqFullBelow("L2C")
      /\ IF old.dirty THEN WriteBelow("L2C", old.line, WQ) ELSE WQ' = WQ /\ LLC' = LLC
      /\ block' = Filled("L2C", line, Victim("L2C", line), FALSE)
      /\ lru' = Promoted("L2C", line, Victim("L2C", line))
      /\ MSHR' = WithoutRegister("L2C", line)
      /\ returned' = IF packet.fill < fill_level["L2C"]
                     THEN [rest EXCEPT !["L1D"] = Append(@, line)]
                     ELSE rest
      /\ load' = load
      /\ RQ' = RQ /\ PQ' = PQ
  BY <1>0 DEF handle_fill
<1>3. /\ returned \in [Caches -> Seq(Lines)] /\ q \in Seq(Lines) /\ Distinct(q)
      /\ line \in Lines /\ Tail(q) \in Seq(Lines)
  <2>1. returned \in [Caches -> Seq(Lines)] /\ q \in Seq(Lines) /\ Distinct(q)
    BY <1>0, <1>1 DEF Types, Once
  <2> HIDE DEF q
  <2> QED
    BY <1>2, <2>1, TailFacts
<1>4. /\ Elements(q) = Elements(Tail(q)) \cup {line} /\ Distinct(Tail(q))
      /\ Elements(Tail(q)) = Elements(q) \ {line}
  BY <1>2, <1>3, TailElements
<1>5. line \in DOMAIN MSHR["L2C"] /\ line \notin LLC.reading
  BY <1>1, <1>4 DEF MissesOfL2C
<1>6. packet \in Packet /\ packet.fill \in {1, 2}
  <2>1. packet \in Packet
    BY <1>0, <1>1, <1>5 DEF Registers
  <2> HIDE DEF packet
  <2> QED
    BY <2>1 DEF Packet
<1>7. packet.fill = 1 <=> line \in UpwardMisses
  BY <1>5 DEF UpwardMisses
<1> HIDE DEF line, packet
<1>8. /\ rest \in [Caches -> Seq(Lines)] /\ rest["L1D"] = returned["L1D"]
      /\ Distinct(rest["L2C"]) /\ Elements(rest["L2C"]) = Elements(q) \ {line}
  <2> DEFINE tail == Tail(q)
  <2>1. tail \in Seq(Lines) /\ Distinct(tail) /\ Elements(tail) = Elements(q) \ {line}
    BY <1>3, <1>4
  <2>2. rest = [returned EXCEPT !["L2C"] = tail]
    OBVIOUS
  <2> HIDE DEF tail, rest
  <2>3. rest \in [Caches -> Seq(Lines)] /\ rest["L1D"] = returned["L1D"] /\ rest["L2C"] = tail
    BY <1>0, <1>3, <2>1, <2>2
  <2> QED
    BY <2>1, <2>3
<1> HIDE DEF rest
<1>9. /\ returned' \in [Caches -> Seq(Lines)] /\ returned'["L2C"] = rest["L2C"]
      /\ Distinct(returned'["L1D"])
      /\ Elements(returned'["L1D"])
           = Elements(returned["L1D"]) \cup (IF packet.fill = 1 THEN {line} ELSE {})
  <2>1. Distinct(returned["L1D"])
    BY <1>0, <1>1 DEF Once
  <2>2. CASE packet.fill = 1
    <3>1. line \notin Elements(rest["L1D"])
      BY <1>1, <1>7, <1>8, <2>2 DEF MissesOfL1D
    <3>2. returned' = [rest EXCEPT !["L1D"] = Append(@, line)]
      BY <1>0, <1>2, <2>2
    <3>3. /\ returned' \in [Caches -> Seq(Lines)] /\ returned'["L2C"] = rest["L2C"]
          /\ Distinct(returned'["L1D"])
          /\ Elements(returned'["L1D"]) = Elements(rest["L1D"]) \cup {line}
      BY <1>3, <1>8, <2>1, <3>1, <3>2, ReturnedUp
    <3> QED
      BY <1>8, <2>2, <3>3
  <2>3. CASE packet.fill # 1
    <3>1. returned' = rest
      BY <1>0, <1>2, <1>6, <2>3
    <3> QED
      BY <1>8, <2>1, <2>3, <3>1
  <2> QED
    BY <2>2, <2>3
<1>10. /\ Registers'
       /\ DOMAIN MSHR'["L2C"] = DOMAIN MSHR["L2C"] \ {line}
       /\ \A l \in DOMAIN MSHR["L2C"] : l # line => MSHR'["L2C"][l] = MSHR["L2C"][l]
       /\ \A other \in Caches : other # "L2C" => MSHR'[other] = MSHR[other]
  BY <1>0, <1>1, <1>2, <1>5, WithoutRegisterFacts
<1>11. MSHR'["L1D"] = MSHR["L1D"] /\ UpwardMisses' = UpwardMisses \ {line}
  <2>1. MSHR'["L1D"] = MSHR["L1D"]
    BY <1>0, <1>10
  <2>2. UpwardMisses' = UpwardMisses \ {line}
    BY <1>10 DEF UpwardMisses
  <2> QED
    BY <2>1, <2>2
<1> HIDE DEF q
<1>12. /\ Storage'
       /\ DirtyIn("L2C") \subseteq DirtyIn("L2C")' \cup (IF old.dirty THEN {old.line} ELSE {})
       /\ \A k \in Caches : k # "L2C" => DirtyIn(k)' = DirtyIn(k)
       /\ old.dirty => old.line \in Lines
  <2>1. FALSE \in BOOLEAN
    OBVIOUS
  <2> QED
    BY <1>0, <1>1, <1>2, <1>3, <2>1, FilledStorage
<1> HIDE DEF old
<1>13. /\ WQ' = WQ /\ LLC' \in [WQ : SUBSET Lines, reading : SUBSET Lines]
       /\ LLC'.reading = LLC.reading
       /\ LLC'.WQ = LLC.WQ \cup (IF old.dirty THEN {old.line} ELSE {})
       /\ IsFiniteSet(LLC'.WQ) /\ Cardinality(LLC'.WQ) <= LLC_WQ_SIZE
  <2>1. CASE old.dirty
    <3>1. /\ WQ' = WQ /\ LLC' \in [WQ : SUBSET Lines, reading : SUBSET Lines]
          /\ LLC'.reading = LLC.reading /\ LLC'.WQ = LLC.WQ \cup {old.line}
          /\ IsFiniteSet(LLC'.WQ) /\ Cardinality(LLC'.WQ) <= LLC_WQ_SIZE
      BY <1>1, <1>2, <1>12, <2>1, WriteLLC
    <3> QED
      BY <2>1, <3>1
  <2>2. CASE ~old.dirty
    <3>1. WQ' = WQ /\ LLC' = LLC
      BY <1>2, <2>2
    <3> QED
      BY <1>1, <2>2, <3>1 DEF Types
  <2> QED
    BY <2>1, <2>2
<1>14. Types'
  BY <1>1, <1>2, <1>9, <1>13 DEF Types
<1>15. Once' /\ NoLoadPrefetched'
  <2>1. \A c \in Caches : Distinct(returned'[c])
    BY <1>8, <1>9 DEF Caches
  <2> QED
    BY <1>1, <1>2, <1>11, <2>1 DEF Once, NoLoadPrefetched
<1>16. MissesOfL1D'
  BY <1>1, <1>2, <1>7, <1>9, <1>11 DEF MissesOfL1D
<1>17. MissesOfL2C'
  BY <1>1, <1>5, <1>8, <1>9, <1>10, <1>13 DEF MissesOfL2C, q
<1>18. LoadsPlaced'
  BY <1>1, <1>2, <1>11, SamePlaces
<1>19. Kept
  <2>1. Modified \subseteq Modified'
    BY <1>0, <1>11, <1>12, <1>13 DEF Modified
  <2> QED
    BY <2>1 DEF Kept
<1> QED
  BY <1>10, <1>12, <1>14, <1>15, <1>16, <1>17, <1>18, <1>19 DEF IInv

-----------------------------------------------------------------------------
(***************************************************************************)
(* Empty caches and queues satisfy the invariant.                          *)
(***************************************************************************)
LEMMA InitInvariant == Init => IInv
<1> SUFFICES ASSUME Init
             PROVE  IInv
  OBVIOUS
<1>0. "L1D" \in Caches /\ "L2C" \in Caches
  BY DEF Caches
<1> DEFINE none == << >>
<1>1. /\ DOMAIN none = {} /\ Len(none) = 0 /\ \A S : none \in Seq(S)
      /\ none = [l \in {} |-> none[l]]
  OBVIOUS
<1>2. /\ load = [d \in Loads |-> Idle]
      /\ RQ = [c \in Caches |-> none] /\ PQ = [c \in Caches |-> none]
      /\ WQ = [c \in Caches |-> none] /\ MSHR = [c \in Caches |-> none]
      /\ returned = [c \in Caches |-> none]
      /\ block = [c \in Caches |-> [set \in Sets(c) |-> [way \in Ways(c) |-> NoBlock]]]
      /\ lru = [c \in Caches |-> [set \in Sets(c) |-> [way \in Ways(c) |-> way]]]
      /\ LLC = [WQ |-> {}, reading |-> {}]
  BY DEF Init
<1> HIDE DEF none
<1>3. IsFiniteSet({}) /\ Cardinality({}) = 0
  BY FS_EmptySet
<1>4. \A c \in Caches : /\ RQ[c] = none /\ PQ[c] = none /\ WQ[c] = none
                        /\ MSHR[c] = none /\ returned[c] = none
  BY <1>2
<1>5. LLC.WQ = {} /\ LLC.reading = {}
      /\ LLC \in [WQ : SUBSET Lines, reading : SUBSET Lines]
  BY <1>2
<1>6. load \in [Loads -> LoadState] /\ \A d \in Loads : ~load[d].waiting
  <2>1. Idle \in LoadState /\ ~Idle.waiting
    BY BoundAssumption DEF Idle, LoadState
  <2> QED
    BY <1>2, <2>1
<1>7. \A c \in Caches : /\ RQ_SIZE[c] \in Nat /\ WQ_SIZE[c] \in Nat /\ PQ_SIZE[c] \in Nat
                        /\ MSHR_SIZE[c] \in Nat /\ LLC_WQ_SIZE \in Nat
  BY Geometry, BoundAssumption
<1>8. Types
  <2>1. RQ \in [Caches -> Seq(Packet)] /\ PQ \in [Caches -> Seq(Packet)]
        /\ returned \in [Caches -> Seq(Lines)] /\ DOMAIN WQ = Caches
    BY <1>1, <1>2
  <2>2. \A c \in Caches : /\ WQ[c] \in Seq(Written(c)) /\ Len(WQ[c]) <= WQ_SIZE[c]
                          /\ Len(RQ[c]) <= RQ_SIZE[c] /\ Len(PQ[c]) <= PQ_SIZE[c]
    <3>1. \A c \in Caches : none \in Seq(Written(c))
      BY <1>1
    <3>2. \A c \in Caches : 0 <= WQ_SIZE[c] /\ 0 <= RQ_SIZE[c] /\ 0 <= PQ_SIZE[c]
      BY <1>7
    <3> QED
      BY <1>1, <1>4, <3>1, <3>2
  <2>3. IsFiniteSet(LLC.WQ) /\ Cardinality(LLC.WQ) <= LLC_WQ_SIZE
    BY <1>0, <1>3, <1>5, <1>7
  <2> QED
    BY <1>5, <1>6, <2>1, <2>2, <2>3 DEF Types, LoadState
<1>9. Registers
  <2>1. \A c \in Caches :
          /\ DOMAIN MSHR[c] \subseteq Lines
          /\ MSHR[c] \in [DOMAIN MSHR[c] -> Packet]
          /\ \A line \in DOMAIN MSHR[c] : MSHR[c][line].line = line
    BY <1>1, <1>4
  <2>2. \A c \in Caches :
          IsFiniteSet(DOMAIN MSHR[c]) /\ Cardinality(DOMAIN MSHR[c]) <= MSHR_SIZE[c]
    BY <1>1, <1>3, <1>4, <1>7
  <2>3. DOMAIN MSHR = Caches
    BY <1>2
  <2> QED
    BY <2>1, <2>2, <2>3 DEF Registers
<1>10. Storage
  <2>1. DOMAIN block = Caches /\ DOMAIN lru = Caches
        /\ \A c \in Caches : DOMAIN lru[c] = Sets(c)
    BY <1>2
  <2>2. \A c \in Caches : block[c] \in [Sets(c) -> [Ways(c) -> Block]]
    BY <1>2 DEF Block
  <2>3. \A c \in Caches : \A set \in Sets(c) : IsRanking(NUM_WAY[c], lru[c][set])
    BY <1>2 DEF IsRanking, Ways
  <2> QED
    BY <2>1, <2>2, <2>3 DEF Storage
<1>11. Once /\ NoLoadPrefetched
  BY <1>0, <1>1, <1>4 DEF Once, NoLoadPrefetched, DistinctLines, Distinct
<1>12. MissesOfL1D /\ MissesOfL2C
  <2>1. /\ LinesOf(RQ["L2C"]) = {} /\ UpwardLines(PQ["L2C"]) = {}
        /\ Elements(returned["L1D"]) = {} /\ Elements(returned["L2C"]) = {}
        /\ UpwardMisses = {} /\ DOMAIN MSHR["L1D"] = {} /\ DOMAIN MSHR["L2C"] = {}
    BY <1>0, <1>1, <1>4 DEF LinesOf, UpwardLines, Elements, UpwardMisses
  <2> QED
    BY <1>5, <2>1 DEF MissesOfL1D, MissesOfL2C
<1>13. LoadsPlaced
  BY <1>0, <1>1, <1>4, <1>6 DEF LoadsPlaced
<1> QED
  BY <1>8, <1>9, <1>10, <1>11, <1>12, <1>13 DEF IInv

(***************************************************************************)
(* Every step of the core, of a handler or of the LLC keeps the invariant  *)
(* and every modification.                                                 *)
(***************************************************************************)
LEMMA StepInvariant == IInv /\ [Next]_vars => IInv' /\ Kept
<1> SUFFICES ASSUME IInv, [Next]_vars
             PROVE  IInv' /\ Kept
  OBVIOUS
<1>1. CASE Core
  <2>1. ASSUME NEW d \in Loads, NEW a \in Addresses, execute_load(d, a)
        PROVE  IInv' /\ Kept
    BY <2>1, LoadStep
  <2>2. ASSUME NEW a \in Addresses, retire_store(a)
        PROVE  IInv' /\ Kept
    BY <2>2, StoreStep
  <2>3. ASSUME NEW c \in Caches, NEW request \in Prefetched[c],
               prefetch_line(c, request[1], request[2])
        PROVE  IInv' /\ Kept
    BY <2>3, PrefetchStep
  <2> QED
    BY <1>1, <2>1, <2>2, <2>3 DEF Core
<1>2. ASSUME NEW c \in Caches, Handler(c)
      PROVE  IInv' /\ Kept
  <2>1. CASE handle_fill(c)
    <3>1. c = "L1D" \/ c = "L2C"
      BY DEF Caches
    <3> QED
      BY <2>1, <3>1, FillL1D, FillL2C
  <2>2. CASE handle_writeback(c)
    <3>1. CASE handle_writebackHit(c)
      BY <3>1, WritebackHitStep
    <3>2. CASE StoreMiss
      BY <3>2, StoreMissStep
    <3>3. CASE WritebackMiss
      BY <3>3, WritebackMissStep
    <3> QED
      BY <2>2, <3>1, <3>2, <3>3 DEF handle_writeback
  <2>3. CASE handle_read(c)
    <3>1. c = "L1D" \/ c = "L2C"
      BY DEF Caches
    <3>2. CASE handle_readHit(c)
      BY <3>1, <3>2, ReadHitL1D, ReadHitL2C
    <3>3. CASE handle_readMiss(c)
      BY <3>1, <3>3, ReadMissL1D, ReadMissL2C
    <3> QED
      BY <2>3, <3>2, <3>3 DEF handle_read
  <2>4. CASE handle_prefetch(c)
    <3>1. CASE handle_prefetchHit(c)
      <4>1. c = "L1D" \/ c = "L2C"
        BY DEF Caches
      <4> QED
        BY <3>1, <4>1, PrefetchHitL1D, PrefetchHitL2C
    <3>2. CASE PrefetchJoins(c)
      BY <3>2, PrefetchJoinsStep
    <3>3. CASE PrefetchMissL1D
      BY <3>3, PrefetchMissL1DStep
    <3>4. CASE PrefetchMissL2C
      BY <3>4, PrefetchMissL2CStep
    <3> QED
      BY <2>4, <3>1, <3>2, <3>3, <3>4 DEF handle_prefetch
  <2> QED
    BY <1>2, <2>1, <2>2, <2>3, <2>4 DEF Handler
<1>3. ASSUME NEW line \in Lines, LLCAnswers(line)
      PROVE  IInv' /\ Kept
  <2>1. CASE LLCReturns(line)
    BY <2>1, LLCReturnsStep
  <2>2. CASE LLCWrites(line)
    BY <2>2, LLCWritesStep
  <2> QED
    BY <1>3, <2>1, <2>2 DEF LLCAnswers
<1>4. CASE UNCHANGED vars
  <2>1. UNCHANGED <<load, RQ, PQ, WQ, MSHR, returned, block, lru, LLC>>
    BY <1>4 DEF vars
  <2>2. Types' /\ Storage' /\ Once' /\ NoLoadPrefetched'
    BY <2>1 DEF IInv, Types, Storage, Once, NoLoadPrefetched
  <2>3. Registers' /\ MissesOfL1D' /\ MissesOfL2C'
    BY <2>1, SameMisses DEF IInv
  <2>4. LoadsPlaced'
    BY <2>1, SamePlaces DEF IInv
  <2>5. Kept
    BY <2>1, SameModifications
  <2> QED
    BY <2>2, <2>3, <2>4, <2>5 DEF IInv
<1> QED
  BY <1>1, <1>2, <1>3, <1>4 DEF Next

(***************************************************************************)
(* The invariant holds in every reachable state.                           *)
(***************************************************************************)
THEOREM DataCacheInvariant == Spec => []IInv
BY InitInvariant, StepInvariant, PTL DEF Spec

(***************************************************************************)
(* The caches keep their types, and no queue or set of registers outgrows  *)
(* its size, although add_wq of the caches refuses nothing and stops at an *)
(* assert.                                                                 *)
(***************************************************************************)
THEOREM DataCacheTypeOK == Spec => []TypeOK
<1>1. ASSUME IInv
      PROVE  TypeOK
  <2>1. /\ load \in [Loads -> [waiting : BOOLEAN, overtaken : 0 .. Window]]
        /\ LLC.WQ \subseteq Lines /\ LLC.reading \subseteq Lines
        /\ Cardinality(LLC.WQ) <= LLC_WQ_SIZE
    BY <1>1 DEF IInv, Types
  <2>2. ASSUME NEW c \in Caches
        PROVE  /\ Elements(RQ[c]) \cup Elements(PQ[c]) \subseteq Packet
               /\ Elements(returned[c]) \subseteq Lines
               /\ Elements(WQ[c]) \subseteq (IF c = "L1D" THEN Addresses ELSE Lines)
    <3>1. /\ RQ[c] \in Seq(Packet) /\ PQ[c] \in Seq(Packet) /\ returned[c] \in Seq(Lines)
          /\ WQ[c] \in Seq(Written(c))
      BY <1>1 DEF IInv, Types
    <3>2. \A S : \A q \in Seq(S) : Elements(q) \subseteq S
      BY DEF Elements
    <3>3. /\ Elements(RQ[c]) \subseteq Packet /\ Elements(PQ[c]) \subseteq Packet
          /\ Elements(returned[c]) \subseteq Lines /\ Elements(WQ[c]) \subseteq Written(c)
      BY <3>1, <3>2
    <3> QED
      BY <3>3 DEF Written
  <2>3. \A c \in Caches : /\ Len(RQ[c]) <= RQ_SIZE[c] /\ Len(PQ[c]) <= PQ_SIZE[c]
                          /\ Len(WQ[c]) <= WQ_SIZE[c]
    BY <1>1 DEF IInv, Types
  <2>4. \A c \in Caches : /\ \A line \in DOMAIN MSHR[c] : MSHR[c][line] \in Packet
                          /\ Cardinality(DOMAIN MSHR[c]) <= MSHR_SIZE[c]
    BY <1>1 DEF IInv, Registers
  <2>5. \A c \in Caches : \A set \in Sets(c) : IsRanking(NUM_WAY[c], lru[c][set])
    BY <1>1 DEF IInv, Storage
  <2>6. \A c \in Caches : \A set \in Sets(c), way \in Ways(c) :
          block[c][set][way] \in [line : Lines \cup {None}, dirty : BOOLEAN]
    <3>1. \A c \in Caches : \A set \in Sets(c), way \in Ways(c) : block[c][set][way] \in Block
      BY <1>1 DEF IInv, Storage
    <3>2. Block \subseteq [line : Lines \cup {None}, dirty : BOOLEAN]
      <4>1. NoBlock \in [line : Lines \cup {None}, dirty : BOOLEAN]
        BY DEF NoBlock
      <4>2. [line : Lines, dirty : BOOLEAN] \subseteq [line : Lines \cup {None}, dirty : BOOLEAN]
        OBVIOUS
      <4> QED
        BY <4>1, <4>2 DEF Block
    <3> QED
      BY <3>1, <3>2
  <2> QED
    BY <2>1, <2>2, <2>3, <2>4, <2>5, <2>6 DEF TypeOK
<1> QED
  BY <1>1, DataCacheInvariant, PTL

(***************************************************************************)
(* Misses and answers match: what returns is waited for and returns once,  *)
(* and every miss has the request below that will answer it.               *)
(***************************************************************************)
THEOREM DataCacheMissesAnswered == Spec => []EveryMissAnsweredOnce
<1>1. ASSUME IInv
      PROVE  EveryMissAnsweredOnce
  <2>0. "L1D" \in Caches /\ "L2C" \in Caches
    BY DEF Caches
  <2>1. MissesOfL1D /\ MissesOfL2C /\ Types /\ Once
    BY <1>1 DEF IInv
  <2>2. ASSUME NEW c \in Caches
        PROVE  /\ Elements(returned[c]) \subseteq DOMAIN MSHR[c]
               /\ Cardinality(Elements(returned[c])) = Len(returned[c])
    <3>1. Elements(returned[c]) \subseteq DOMAIN MSHR[c]
      BY <2>1 DEF Caches, MissesOfL1D, MissesOfL2C
    <3>2. returned[c] \in Seq(Lines) /\ Distinct(returned[c])
      BY <2>1 DEF Types, Once
    <3> QED
      BY <3>1, <3>2, DistinctSize
  <2>3. ASSUME NEW line \in DOMAIN MSHR["L1D"]
        PROVE  \/ line \in Elements(returned["L1D"])
               \/ \E packet \in Elements(RQ["L2C"]) \cup Elements(PQ["L2C"]) :
                    packet.line = line /\ packet.fill = 1
               \/ InFlight("L2C", line) /\ MSHR["L2C"][line].fill = 1
    <3>1. \/ line \in LinesOf(RQ["L2C"]) \/ line \in UpwardLines(PQ["L2C"])
          \/ line \in UpwardMisses \/ line \in Elements(returned["L1D"])
      BY <2>1 DEF MissesOfL1D
    <3>2. CASE line \in LinesOf(RQ["L2C"])
      <4>1. PICK i \in DOMAIN RQ["L2C"] : RQ["L2C"][i].line = line
        BY <3>2 DEF LinesOf
      <4>2. RQ["L2C"][i].fill = 1 /\ RQ["L2C"][i] \in Elements(RQ["L2C"])
        BY <2>1 DEF Once, Elements
      <4> QED
        BY <4>1, <4>2
    <3>3. CASE line \in UpwardLines(PQ["L2C"])
      <4>1. PICK i \in DOMAIN PQ["L2C"] : PQ["L2C"][i].line = line /\ PQ["L2C"][i].fill = 1
        BY <3>3 DEF UpwardLines
      <4>2. PQ["L2C"][i] \in Elements(PQ["L2C"])
        BY DEF Elements
      <4> QED
        BY <4>1, <4>2
    <3> QED
      BY <3>1, <3>2, <3>3 DEF UpwardMisses, InFlight
  <2>4. \A line \in DOMAIN MSHR["L2C"] : line \in Elements(returned["L2C"]) \cup LLC.reading
    BY <2>1 DEF MissesOfL2C
  <2> QED
    BY <2>2, <2>3, <2>4 DEF EveryMissAnsweredOnce, ReturnExpected, NoOrphanedMiss
<1> QED
  BY <1>1, DataCacheInvariant, PTL

(***************************************************************************)
(* Each waiting load is in exactly one queued read or register of the L1D. *)
(***************************************************************************)
THEOREM DataCacheLoadsConserved == Spec => []LoadsConserved
<1>1. ASSUME IInv
      PROVE  LoadsConserved
  <2> SUFFICES ASSUME NEW d \in Loads
               PROVE  Cardinality({i \in DOMAIN RQ["L1D"] : d \in RQ["L1D"][i].waiters})
                        + Cardinality({line \in DOMAIN MSHR["L1D"] :
                                         d \in MSHR["L1D"][line].waiters})
                      = (IF d \in Waiting THEN 1 ELSE 0)
    BY DEF LoadsConserved
  <2> DEFINE Queued == {i \in DOMAIN RQ["L1D"] : d \in RQ["L1D"][i].waiters}
             Missed == {line \in DOMAIN MSHR["L1D"] : d \in MSHR["L1D"][line].waiters}
  <2>1. /\ d \in Waiting <=> Queued # {} \/ Missed # {}
        /\ \A i, j \in Queued : i = j
        /\ \A l, m \in Missed : l = m
        /\ Queued = {} \/ Missed = {}
    BY <1>1 DEF IInv, LoadsPlaced, Waiting
  <2> HIDE DEF Queued, Missed
  <2>2. \A S : (\A x, y \in S : x = y) =>
          Cardinality(S) = IF S = {} THEN 0 ELSE 1
    <3> SUFFICES ASSUME NEW S, \A x, y \in S : x = y
                 PROVE  Cardinality(S) = IF S = {} THEN 0 ELSE 1
      OBVIOUS
    <3>1. CASE S = {}
      BY <3>1, FS_EmptySet
    <3>2. CASE S # {}
      <4>1. PICK x : S = {x}
        BY <3>2
      <4> QED
        BY <3>2, <4>1, FS_Singleton
    <3> QED
      BY <3>1, <3>2
  <2>3. /\ Cardinality(Queued) = IF Queued = {} THEN 0 ELSE 1
        /\ Cardinality(Missed) = IF Missed = {} THEN 0 ELSE 1
    BY <2>1, <2>2
  <2>4. Cardinality(Queued) + Cardinality(Missed) = (IF d \in Waiting THEN 1 ELSE 0)
    BY <2>1, <2>3
  <2> QED
    BY <2>4 DEF Queued, Missed
<1> QED
  BY <1>1, DataCacheInvariant, PTL

(***************************************************************************)
(* A line that a store has taken a miss for or modified stays modified     *)
(* somewhere until the LLC has written it.                                 *)
(***************************************************************************)
THEOREM DataCacheKeepsModifications == Spec => ModificationKept
<1>1. IInv /\ [Next]_vars => [Modified \ Modified' \subseteq LLC.WQ \ LLC.WQ']_vars
  BY StepInvariant DEF Kept
<1> QED
  BY <1>1, DataCacheInvariant, PTL DEF Spec, ModificationKept

=============================================================================
