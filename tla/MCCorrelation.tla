---------------------------- MODULE MCCorrelation ----------------------------
(***************************************************************************)
(* A small instance of CorrelationTable for TLC: a page that is followed   *)
(* by every other one, each of which leads back to it.                     *)
(***************************************************************************)
EXTENDS CorrelationHistory

HubFollows == {<<1, 1>>} \cup ({1} \X (Pages \ {1})) \cup ((Pages \ {1}) \X {1})

=============================================================================
