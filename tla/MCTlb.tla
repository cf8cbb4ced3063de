------------------------------- MODULE MCTlb -------------------------------
(***************************************************************************)
(* Small instances of TlbHierarchy for TLC: values for the constants that  *)
(* are functions of the TLB, named by their ITLB, DTLB and STLB value.     *)
(***************************************************************************)
EXTENDS TlbHierarchy, TLC

Each(itlb, dtlb, stlb) ==
  [t \in {"ITLB", "DTLB", "STLB"} |->
     IF t = "ITLB" THEN itlb ELSE IF t = "DTLB" THEN dtlb ELSE stlb]

Sets111 == Each(1, 1, 1)
Ways111 == Each(1, 1, 1)
Ways112 == Each(1, 1, 2)
Ways122 == Each(1, 2, 2)
Latency112 == Each(1, 1, 2)
Latency111 == Each(1, 1, 1)
Read121 == Each(1, 2, 1)
Queue223 == Each(1, 2, 3)
Queue113 == Each(1, 1, 3)
Registers122 == Each(1, 2, 2)
Registers112 == Each(1, 1, 2)

\* Frames are compared for equality only.
FrameSymmetry == Permutations(Frames)

=============================================================================
