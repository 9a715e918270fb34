------------------------------ MODULE MCCases ------------------------------
EXTENDS Cases, TLC

CONSTANTS r1, r2

(* The facts of the lines matter to no step of a case without provenance.   *)
Factless(c) == IF provable THEN c ELSE [c EXCEPT !.fact = 0]

Distinguished ==
  <<provable, Factless(content), status, amount, chainStatus, finding, locks,
    [t \in Requests |-> [tx[t] EXCEPT !.content = Factless(@)]]>>

Symmetry == Permutations(Requests)
=============================================================================
