------------------------------ MODULE MCSyncKv ------------------------------
(* SyncKv for TLC.  Writers are interchangeable; the symmetry is for the    *)
(* runs that check a state predicate only.                                  *)
EXTENDS SyncKv, TLC

Symmetry == Permutations(Writers)
=============================================================================
