---------------------------- MODULE MCSettlement ----------------------------
(***************************************************************************)
(* Small instances of Settlement.                                          *)
(***************************************************************************)
EXTENDS Settlement, TLC

\* References are interchangeable; used in the runs without liveness.
SymRefs == Permutations(Refs)
=============================================================================
