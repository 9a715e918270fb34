----------------------------- MODULE MCServices -----------------------------
(***************************************************************************)
(* The services for TLC.                                                   *)
(***************************************************************************)
EXTENDS Services, TLC

CONSTANTS r1, r2, q1, q2, p1, p2, f1, u1, u2

(* A pack of two rules, of which only that on prices is proven, and of a    *)
(* family without rules, in both schemas; only the second has exclusions.   *)
Pack(schema, included, excluded) ==
  [schema |-> schema, families |-> [price |-> {"p"}, tax |-> {"t"}, delay |-> {}],
   approved |-> TRUE, included |-> included, excluded |-> excluded,
   excludedFamilies |-> {"delay"}]
PackChoices == {Pack(2, {"p"}, {"t"}), Pack(1, {}, {})}

(* A duplicate, an unreadable member, and one that is also uploaded alone.  *)
ArchiveChoices == {<<r1, r1>>, <<f1, f1>>, <<f1, r1>>, <<r1, r2, f1>>}

(* Requests that may do the same; practices, documents and configurations;  *)
(* accounts and launchers.                                                  *)
Symmetry == Permutations({q1, q2}) \cup Permutations({p1, p2}) \cup Permutations({u1, u2})
=============================================================================
