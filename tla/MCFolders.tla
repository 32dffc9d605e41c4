----------------------------- MODULE MCFolders -----------------------------
(* Folders for TLC.  The first folder document lists a document in a        *)
(* directory, the second one a plain file at its root.                      *)
EXTENDS Folders, TLC

CONSTANTS dir1, dir2, name1, u1, u2, u3

EmptyTree == [meta |-> [p \in Paths |-> None], docs |-> [p \in Paths |-> None]]

WithFile(p, u, type) ==
  Put(EnsureAncestors(EmptyTree, p), p, [id |-> u, type |-> type, hash |-> 0])

MCTree0 ==
  [f \in Folders |->
    IF f = 1 THEN WithFile(<<dir1, name1>>, u1, "markdown") ELSE WithFile(<<Root, name1>>, u2, "file")]

Symmetry == Permutations(Handlers)
=============================================================================
