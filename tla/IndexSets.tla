------------------------------ MODULE IndexSets ------------------------------
(***************************************************************************)
(* What the core and the caches expect of the sets of queue indices they   *)
(* keep with an entry: mathematical sets, in which every index is found    *)
(* that was inserted or joined and none else, and which are walked in      *)
(* ascending order, each index once.                                       *)
(***************************************************************************)
EXTENDS Naturals, FiniteSets

CONSTANTS Names, Indices

VARIABLES members, answers

Ascending(S) ==
  [k \in 1 .. Cardinality(S) |->
     CHOOSE x \in S : Cardinality({y \in S : y < x}) = k - 1]

Answers(sets) ==
  [s \in Names |-> [search |-> [x \in Indices |-> x \in sets[s]],
                    expand |-> Ascending(sets[s])]]

Init ==
  /\ members = [s \in Names |-> {}]
  /\ answers = Answers(members)

Become(s, S) ==
  /\ members' = [members EXCEPT ![s] = S]
  /\ answers' = Answers(members')

Next ==
  \E s \in Names :
    \/ Become(s, {})
    \/ \E x \in Indices : Become(s, members[s] \cup {x})
    \/ \E t \in Names : Become(s, members[t]) \/ Become(s, members[s] \cup members[t])

Spec == Init /\ [][Next]_<<members, answers>>
=============================================================================
