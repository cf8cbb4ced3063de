---------------------------- MODULE MCDataCache ----------------------------
(***************************************************************************)
(* Small instances of DataCache for TLC: values for the constants that are *)
(* functions of the cache, named by their L1D and L2C value.               *)
(***************************************************************************)
EXTENDS DataCache

Each(l1d, l2c) == [c \in Caches |-> IF c = "L1D" THEN l1d ELSE l2c]

One == Each(1, 1)
Registers22 == Each(2, 2)
Queue12 == Each(1, 2)

\* The L1D prefetches line 1 for itself, the L2C too.
SomePrefetches == Each({<<2, 1>>}, {<<2, 2>>})
=============================================================================
