------------------------------ MODULE Evidence ------------------------------
(***************************************************************************)
(* The facts that prove a finding of the qualified rules: what the         *)
(* recorder of a rule links to its case, and what a review requires.       *)
(*                                                                         *)
(* A recorder computes its rule again, from the documents of its own       *)
(* roles, and its facts are those of the lines and documents it read.      *)
(***************************************************************************)
EXTENDS Rules

Qualified == {"currency_mismatch", "duplicate_document_number", "delivered_over_order",
              "invoiced_over_received", "payment_over_invoice", "payment_without_invoice"}

(* Of documents that are not archived, parsed or not.                       *)
Current == {i \in Indices : ~documents[i].archived}
InRoles(D, roles) == {i \in D : documents[i].role \in roles}

(* _direct_fact: facts are of one reading of a line.                        *)
Direct(x, fields) ==
  /\ Line(x).direct
  /\ Line(x).missing \cap fields = {}
  /\ "unit" \in fields => Line(x).unit # "none"
LineFacts(S, fields) ==
  IF \A x \in S : Direct(x, fields) THEN {<<x, documents[x[1]].read>> : x \in S} ELSE {}

All(facts, more) == IF {} \in {facts, more} THEN {} ELSE facts \cup more

Quantified == {"quantity", "unit"}
Priced     == Quantified \cup {"price"}

(* delivered_over_order_provenance.py                                       *)
DeliveredSupport(key, amount) ==
  LET D == InRoles(Current, {"proposal", "order", "confirmation", "delivery"})
      facts(c, d) ==
        IF /\ c # {} /\ d # {} /\ ProfilesCompatible(c, d)
           /\ Quantity(d) > Quantity(c)
           /\ amount = Amount(Quantity(d) - Quantity(c), WeightedPrice(c))
        THEN All(LineFacts(c, Priced), LineFacts(d, Quantified)) ELSE {}
  IN UNION {facts(OfRole(item, CommercialRole(D)), OfRole(item, "delivery")) :
              item \in ItemsOf(D, key)}

(* invoiced_over_received_provenance.py                                     *)
InvoicedSupport(key, amount) ==
  LET D == InRoles(Current, {"proposal", "order", "confirmation", "delivery", "invoice"})
      facts(r, i) ==
        IF /\ i # {} /\ r # {} /\ ProfilesCompatible(i, r)
           /\ Quantity(i) > Quantity(r)
           /\ amount = Amount(Quantity(i) - Quantity(r), WeightedPrice(i))
        THEN All(LineFacts(r, Quantified), LineFacts(i, Priced)) ELSE {}
  IN UNION {facts(Reference(OfRole(item, CommercialRole(D)), OfRole(item, "delivery")),
                  OfRole(item, "invoice")) : item \in ItemsOf(D, key)}

(* payment_over_invoice_provenance.py: one that is archived spoils it.      *)
OverpaidSupport(amount) ==
  LET D == InRoles(Indices, {"invoice", "payment"})
      total(i) == SumFunction([x \in Lines({i}) |-> LineTotal(x)])
      paid == SumFunction([i \in Of(D, "payment") |-> total(i)])
      owed == SumFunction([i \in Of(D, "invoice") |-> total(i)])
  IN IF /\ Of(D, "invoice") # {} /\ Of(D, "payment") # {}
        /\ \A i \in D : ~documents[i].archived /\ documents[i].lines # <<>>
        /\ paid > owed + PaymentTolerance /\ amount = paid - owed
     THEN LineFacts(Lines(D), {"total"}) ELSE {}

(* payment_without_invoice_provenance.py: the snapshot of the chain.        *)
Snapshot == {<<i, documents[i].parsed, documents[i].archived>> : i \in Indices}
UninvoicedSupport(amount) ==
  LET payments == Of(Current, "payment")
      paid == RoleTotal(payments)
  IN IF /\ payments # {} /\ Of(Current, "invoice") = {}
        /\ \A i \in payments : documents[i].parsed
        /\ amount = IF paid = {} THEN 0 ELSE Max(paid)
     THEN {<<"snapshot", Snapshot>>} ELSE {}

(* finding_provenance.py: the facts of documents outlive their processing.  *)
DocumentFacts(D, field) ==
  IF \A i \in D : documents[i].direct THEN {<<field, i, documents[i][field]>> : i \in D} ELSE {}
CurrencySupport(D) ==
  LET stated == {i \in D : documents[i].currency # "" /\ ~documents[i].archived}
  IN IF Cardinality({documents[i].currency : i \in stated}) > 1
     THEN DocumentFacts(stated, "currency") ELSE {}
NumberSupport(D, place) ==
  LET same == {i \in Of(D, RoleOrder[place[1]]) :
                 documents[i].number = place[2] /\ ~documents[i].archived}
  IN IF Cardinality(same) > 1 THEN DocumentFacts(same, "number") ELSE {}

(* The facts that prove a finding, {} if they do not.  D are the documents  *)
(* that findings about documents are looked up in.                          *)
SupportOf(f, D) ==
  CASE f.type = "delivered_over_order" -> DeliveredSupport(f.item, f.amount)
    [] f.type = "invoiced_over_received" -> InvoicedSupport(f.item, f.amount)
    [] f.type = "payment_over_invoice" -> OverpaidSupport(f.amount)
    [] f.type = "payment_without_invoice" -> UninvoicedSupport(f.amount)
    [] f.type = "currency_mismatch" -> CurrencySupport(D)
    [] f.type = "duplicate_document_number" -> NumberSupport(D, f.place)

-----------------------------------------------------------------------------
(* What a review requires of the latest record of a case: that its facts    *)
(* are those which the recorder would link now (_matches_current_support).  *)

DeliveredStands(c) == c.facts = DeliveredSupport(c.item, c.amount)
InvoicedStands(c)  == c.facts = InvoicedSupport(c.item, c.amount)
OverpaidStands(c)  == c.facts = OverpaidSupport(c.amount)
UninvoicedStands(c) == c.facts = UninvoicedSupport(c.amount)

(* Documents are those of the facts, not of the case: each is of the chain  *)
(* or was, and is not archived.                                             *)
Stating(c) == {fact[2] : fact \in c.facts}
Stated(c)  == {fact[3] : fact \in c.facts}

CurrencyStands(c) ==
  /\ Cardinality(Stated(c)) > 1 /\ Stating(c) \subseteq Current
  /\ c.facts = CurrencySupport(Current)

NumberStands(c) ==
  /\ Cardinality(Stating(c)) > 1 /\ Stating(c) \subseteq Current
  /\ \E number \in Stated(c), role \in {documents[i].role : i \in Stating(c)} :
       /\ Stated(c) = {number} /\ \A i \in Stating(c) : documents[i].role = role
       /\ c.facts = NumberSupport(Current, <<Rank(role), number>>)

(* finding_matches_current_support: a review links its judgment.            *)
\* mutant: the latest record is taken for granted
Recorded(c) == c.facts # {}
Supported(c) ==
  /\ c.facts # {}
  /\ CASE c.type = "delivered_over_order" -> DeliveredStands(c)
       [] c.type = "invoiced_over_received" -> InvoicedStands(c)
       [] c.type = "payment_over_invoice" -> OverpaidStands(c)
       [] c.type = "payment_without_invoice" -> UninvoicedStands(c)
       [] c.type = "currency_mismatch" -> CurrencyStands(c)
       [] c.type = "duplicate_document_number" -> NumberStands(c)
=============================================================================
