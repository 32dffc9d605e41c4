----------------------------- MODULE MCDocLocks -----------------------------
(* DocLocks for TLC: two folders, a document of the first, and one that is  *)
(* its own channel.  The map has two shards: a document shares one with its *)
(* parent, the other two share the other.  Tasks are interchangeable.       *)
EXTENDS DocLocks, TLC

MCParent == <<1, 2, 1, 4>>
MCPlacements == {<<1, 2, 1, 2>>}
Symmetry == Permutations(Tasks)
=============================================================================
