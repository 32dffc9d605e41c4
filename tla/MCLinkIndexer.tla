--------------------------- MODULE MCLinkIndexer ---------------------------
(* LinkIndexer for TLC: one document in each of two folders, the second     *)
(* linking to the first.                                                    *)
EXTENDS LinkIndexer

CONSTANTS a, b

MCPlace0  == [u \in Docs |-> IF u = 3 THEN <<1, a>> ELSE <<2, b>>]
MCLink0   == [u \in Docs |-> IF u = 3 THEN None ELSE [dir |-> 1, name |-> a]]
MCSpots   == {<<1, b>>, <<2, a>>, None}
MCWritten == {[dir |-> Here, name |-> a]}
=============================================================================
