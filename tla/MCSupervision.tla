---------------------------- MODULE MCSupervision ----------------------------
(* Supervision for TLC: two documents and one worker.                        *)
EXTENDS Supervision, TLC

Symmetric == Permutations(Docs)
=============================================================================
