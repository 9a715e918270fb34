------------------------------ MODULE Analysis ------------------------------
(***************************************************************************)
(* The analysis of a chain whose documents are attached, archived and      *)
(* processed again, and what its status promises.                          *)
(***************************************************************************)
EXTENDS Integers, Sequences, FiniteSets, FiniteSetsExt

CONSTANTS
  Corpus,       \* documents that may be attached
  MaxDocuments, \* documents of the chain (a bound)
  Similar, Bars, Length, Fees, Units  \* of keys and units, see Rules

VARIABLES documents, active
vars == <<documents, active>>

INSTANCE Rules
-----------------------------------------------------------------------------
(* The documents of the chain.                                             *)

Proposed == {"price_over_order", "discount_missing", "tax_rate_mismatch",
             "unmatched_invoice_line", "return_without_credit", "credit_below_return"}

Init ==
  /\ documents = <<>>
  /\ active \in {{}, Proposed}

(* A document takes its place among those of its role (the roles in order,  *)
(* a bound: the analysis sorts by role).                                    *)
Attach(document) ==
  /\ Len(documents) < MaxDocuments
  /\ \A i \in Indices : Rank(documents[i].role) <= Rank(document.role)
  /\ documents' = Append(documents, document)
  /\ UNCHANGED active

(* One document is set aside at a time (a bound).                           *)
Whole == Evaluated = Indices

Archive(i) ==
  /\ Whole
  /\ documents' = [documents EXCEPT ![i].archived = TRUE]
  /\ UNCHANGED active

(* A document is processed again, and needs a review.                       *)
NeedsReview(i) ==
  /\ Whole
  /\ documents' = [documents EXCEPT ![i].parsed = FALSE]
  /\ UNCHANGED active

Next ==
  \/ \E document \in Corpus : Attach(document)
  \/ \E i \in Indices : Archive(i) \/ NeedsReview(i)

Spec == Init /\ [][Next]_vars
-----------------------------------------------------------------------------
(* Properties.                                                             *)

(* Documents that can be compared: everything was read, quantities are      *)
(* positive and no price is negative, an item has at most one line per      *)
(* role, and what is invoiced was agreed.                                   *)
Comparable ==
  /\ \A x \in Lines(Evaluated) :
       /\ Line(x).qty > 0 /\ Line(x).price >= 0
       /\ documents[x[1]].role # "delivery" => Line(x).missing = {}
  /\ \A item \in Items(Evaluated) :
       /\ \A role \in Roles \ {"payment"} : Cardinality(OfRole(item, role)) <= 1
       /\ OfRole(item, "invoice") # {} => OfRole(item, CommercialRole(Evaluated)) # {}

(* What the payments of a chain come to, and what is owed for the items     *)
(* that were invoiced: what was delivered or else agreed, at the price      *)
(* agreed; in hundredths of a cent and with the tolerances, of which that   *)
(* on the price is half a cent per base unit.                               *)
Paid == 100 * SumFunction([i \in Of(Evaluated, "payment") |-> Max(DocumentTotal(i))])

Invoiced == {item \in Items(Evaluated) : OfRole(item, "invoice") # {}}
PriceOwed(item) ==
  LET c == OfRole(item, CommercialRole(Evaluated))
      d == OfRole(item, "delivery")
      x == CHOOSE y \in c : TRUE
  IN (Quantity(IF d # {} THEN d ELSE c) * (2 * Line(x).price + Factor(x))
        * (100 - Line(x).discount)) \div (2 * Factor(x))
OwedFor(item) == PriceOwed(item) + Max({300, PriceOwed(item) \div 200})
Owed == 200 + SumFunction([item \in Invoiced |-> OwedFor(item)])

(* When every rule is in force, the payments of a chain that is clear do    *)
(* not exceed what was agreed, if its documents can be compared.            *)
ClearPaysWhatIsOwed ==
  /\ active = Proposed /\ Clear /\ Of(Evaluated, "invoice") # {} /\ Comparable
  => Paid <= Owed
=============================================================================
