--------------------------- MODULE MCConnections ---------------------------
(* Connections for TLC.                                                     *)
EXTENDS Connections, TLC

Symmetry == Permutations(Clients)
=============================================================================
