----------------------------- MODULE MCJobQueue -----------------------------
(* Instances of JobQueue for TLC.                                          *)
EXTENDS JobQueue

CONSTANTS j1, j2

(* The priority column: all are equal.                                      *)
SameRank == [j \in Jobs |-> 0]
=============================================================================
