---------------------------- MODULE MCContainers ----------------------------
(***************************************************************************)
(* What a cache is built from: its queues, its sets of blocks, and the     *)
(* sets of indices that packets carry.  None uses another, so that a       *)
(* behaviour exercises one of them.                                        *)
(*                                                                         *)
(* Of the indices in a set those below 5 do not fill their words and those *)
(* below 6 do; two to four members are bisected, five or six are bits.     *)
(***************************************************************************)
EXTENDS PacketQueue, LruSet

VARIABLES exercised, set, n

Index == INSTANCE FastSet WITH
  Names <- {"miss", "request"}, QueueSizes <- {5, 6}, MAX_SIZE <- 6,
  SMALL_SIZE <- 5, SMALLER_SIZE <- 2, WORD <- 2

ContainersInit ==
  /\ exercised \in {"queue", "blocks", "indices"}
  /\ Init
  /\ InitSet
  /\ Index!Init

ContainersNext ==
  /\ \/ exercised = "queue" /\ Next /\ UNCHANGED <<set_vars, set, n>>
     \/ exercised = "blocks" /\ NextSet /\ UNCHANGED <<vars, set, n>>
     \/ exercised = "indices" /\ Index!Next /\ UNCHANGED <<vars, set_vars>>
  /\ UNCHANGED exercised

ContainersSpec ==
  ContainersInit /\ [][ContainersNext]_<<vars, set_vars, exercised, set, n>>

(***************************************************************************)
(* The sets of waiting loads, stores and instructions that packets carry   *)
(* behave as sets (see FastSet): an index that was inserted or joined is   *)
(* found and walked once, in the array, in the bits and across the change. *)
(***************************************************************************)
ImplementsSets == Index!ImplementsSets
=============================================================================
