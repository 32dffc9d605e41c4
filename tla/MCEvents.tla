------------------------------ MODULE MCEvents ------------------------------
(* Events for TLC.                                                          *)
EXTENDS Events, TLC

Symmetry == Permutations(Docs)
=============================================================================
