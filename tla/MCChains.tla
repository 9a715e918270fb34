------------------------------ MODULE MCChains ------------------------------
(***************************************************************************)
(* Two transactions that overlap meet on documents of one role without a   *)
(* supplier; one at a time they have documents of all roles and suppliers. *)
(***************************************************************************)
EXTENDS Chains, TLC

CONSTANTS d1, d2, c1, c2, s1, s2, t1, t2

Plain(r, s) == r \in {NoRole, "order"} /\ s = NoSupplier

Restricted ==
  /\ \A d \in Docs : Plain(kind[d], maker[d])
  /\ \A t \in Txns : \A x \in tx[t].row : Plain(x.kind, x.maker)

BoundedSpec == Init /\ [][Next /\ (serial \/ Restricted')]_vars

(* The races without what decides no membership: the results of analyses,   *)
(* the archive flag and the parse status.                                   *)
Membership ==
  <<kind, maker, chains, supplier, links, primary,
    [t \in DOMAIN tx |-> [tx[t] EXCEPT !.found = {}, !.archive = {},
                                       !.row = {[x EXCEPT !.parsed = TRUE] : x \in @}]]>>
View == IF serial THEN <<TRUE, vars>> ELSE <<FALSE, Membership>>

Symmetry ==
  Permutations({d1, d2}) \cup Permutations({c1, c2}) \cup Permutations({s1, s2})
    \cup Permutations({t1, t2})
=============================================================================
