--------------------------- MODULE MCDocLifecycle ---------------------------
(* DocLifecycle for TLC.  Clients are interchangeable, and so are edits;    *)
(* the symmetry is for the runs that check a state predicate only.          *)
EXTENDS DocLifecycle, TLC

Symmetry == Permutations(Clients) \cup Permutations(Edits)
=============================================================================
