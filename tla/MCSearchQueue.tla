---------------------------- MODULE MCSearchQueue ---------------------------
(* SearchQueue for TLC.  Documents and writers are interchangeable, but the *)
(* run checks liveness, where symmetry is not sound.                        *)
EXTENDS SearchQueue
=============================================================================
