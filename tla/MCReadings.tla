----------------------------- MODULE MCReadings ------------------------------
(* Two readings of one document for TLC.                                    *)
EXTENDS Readings, TLC

Symmetry == Permutations(Readers)
=============================================================================
