-------------------------- MODULE MCReorderBuffer --------------------------
(***************************************************************************)
(* Small traces of ReorderBuffer for TLC.                                  *)
(***************************************************************************)
EXTENDS ReorderBuffer

Instr(reads, writes, loads, stores) ==
  [reads |-> reads, writes |-> writes, loads |-> loads, stores |-> stores,
   mispredicted |-> FALSE]

\* A store, a load of it, and one instruction that does both, with the sum of both in
\* a register.
ReadModifyWrite ==
  <<Instr({}, {}, << >>, <<"a">>),
    Instr({}, {"r"}, <<"a">>, << >>),
    Instr({"r"}, {"s"}, << >>, << >>),
    Instr({}, {}, <<"a">>, <<"a">>),
    Instr({"s"}, {}, <<"a", "b">>, << >>)>>

\* Several operations in an instruction.
Pairs ==
  <<Instr({}, {"r"}, <<"b">>, << >>),
    Instr({"r"}, {}, << >>, <<"a">>),
    Instr({}, {}, <<"a", "b">>, << >>),
    Instr({}, {}, << >>, <<"b", "a">>),
    Instr({}, {}, <<"b", "a">>, << >>)>>

\* A branch that is mispredicted and waits for two registers.
Branch ==
  <<Instr({}, {"r"}, << >>, << >>),
    Instr({}, {"s"}, <<"a">>, << >>),
    [Instr({"r", "s"}, {}, << >>, << >>) EXCEPT !.mispredicted = TRUE],
    Instr({}, {}, << >>, <<"a">>),
    Instr({}, {}, <<"a">>, << >>)>>

\* A load that waits for a register, a store that waits for the load, and loads of
\* what is stored, which are ready at once.
Blocking ==
  <<Instr({}, {"r"}, << >>, << >>),
    Instr({"r"}, {"s"}, <<"b">>, << >>),
    Instr({"s"}, {}, << >>, <<"a", "c">>),
    Instr({}, {}, <<"c", "a">>, << >>),
    Instr({}, {}, <<"c">>, <<"b">>)>>

\* Two stores to one address and loads of both addresses of the older: each load waits
\* for a store of its own.
Twins ==
  <<Instr({}, {}, << >>, <<"a", "b">>),
    Instr({}, {}, << >>, <<"b">>),
    Instr({}, {}, <<"a", "b">>, << >>)>>

TwinTraces == {Twins}

SmallTraces == {ReadModifyWrite, Pairs, Branch, Blocking}
=============================================================================
