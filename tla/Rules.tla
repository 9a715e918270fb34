------------------------------- MODULE Rules -------------------------------
(***************************************************************************)
(* What the analysis of a chain finds: how the lines of its documents are  *)
(* grouped into items, and the rules that compare the items.               *)
(*                                                                         *)
(* Prices and totals are in cents, discounts and taxes in percent.  A key  *)
(* is the resolved key of a line; words are compared by Similar alone.     *)
(***************************************************************************)
EXTENDS Integers, Sequences, FiniteSets, FiniteSetsExt, SequencesExt

CONSTANTS
  Similar,      \* pairs of keys whose lines are alike: line_similarity >= 0.90
  Bars, Length, \* of a key: how many '|' it has, how long it is
  Fees,         \* keys of charges: transport, packaging...
  Units,        \* per unit of measure: its dimension and its factor to the base unit
  documents,    \* of the chain, by role and sequence_no
  active        \* codes of the proposals in force, beside the rules that are always on

RoleOrder == <<"proposal", "order", "confirmation", "delivery", "invoice", "payment", "return",
               "credit_note">>
Roles     == Range(RoleOrder)
Rank(role) == CHOOSE n \in DOMAIN RoleOrder : RoleOrder[n] = role

Indices == DOMAIN documents
Unread  == {i \in Indices : ~documents[i].archived /\ ~documents[i].parsed}

(* The documents the rules go by.                                           *)
Evaluated == {i \in Indices : ~documents[i].archived /\ documents[i].parsed}

Of(D, role) == {i \in D : documents[i].role = role}
Lines(D)    == UNION {{<<i, j>> : j \in DOMAIN documents[i].lines} : i \in D}
Line(x)     == documents[x[1]].lines[x[2]]
-----------------------------------------------------------------------------
(* group_chain_lines                                                       *)

Keys(D) == {Line(x).key : x \in Lines(D)}

(* Keys with alike lines in documents of different roles.                   *)
Linked(D) ==
  LET pairs == {p \in Lines(D) \X Lines(D) : documents[p[1][1]].role # documents[p[2][1]].role}
  IN {{Line(p[1]).key, Line(p[2]).key} : p \in pairs} \cap Similar

(* Lines are one item if a chain of equal and of similar lines joins them:  *)
(* an item is a set that nothing joins to the rest, and no part of it is.   *)
Clusters(D) ==
  LET linked == Linked(D)
      apart  == {S \in (SUBSET Keys(D)) \ {{}} : \A p \in linked : p \subseteq S \/ p \cap S = {}}
  IN {S \in apart : \A T \in apart : T \subseteq S => T = S}

(* The key of an item: that of more parts, or shorter, than the one before. *)
ClusterKey(D, cluster) ==
  LET before(x, y) == x[1] < y[1] \/ (x[1] = y[1] /\ x[2] < y[2])
      lines == SetToSortSeq({x \in Lines(D) : Line(x).key \in cluster}, before)
      next(key, x) == IF Bars[Line(x).key] > Bars[key] \/ Length[Line(x).key] < Length[key]
                      THEN Line(x).key ELSE key
  IN FoldLeft(next, Line(lines[1]).key, lines)

(* Clusters of one key are one item.                                        *)
Items(D) ==
  LET named == {[key |-> ClusterKey(D, cluster), keys |-> cluster] : cluster \in Clusters(D)}
  IN {[key |-> n.key,
       lines |-> {x \in Lines(D) : \E m \in named : m.key = n.key /\ Line(x).key \in m.keys}] :
        n \in named}
ItemsOf(D, key) == {item \in Items(D) : item.key = key}

OfRole(item, role) == {x \in item.lines : documents[x[1]].role = role}
-----------------------------------------------------------------------------
(* Quantities and averages of the lines of an item.                        *)

Factor(x)    == Units[Line(x).unit].factor
Dimension(x) == Units[Line(x).unit].dimension

(* quantity_profile: units of one dimension are converted, others are not.  *)
Compatible(S) == \A x, y \in S : Dimension(x) = Dimension(y)
Quantity(S) ==
  SumFunction([x \in S |-> Line(x).qty * (IF Compatible(S) THEN Factor(x) ELSE 1)])

ProfilesCompatible(S, T) ==
  Compatible(S) /\ Compatible(T) /\ \A x \in S, y \in T : Dimension(x) = Dimension(y)

Abs(n)    == IF n < 0 THEN -n ELSE n
Source(x) == Abs(Line(x).qty)

(* The average of what n sums over d, a fraction: numerator, denominator.   *)
Average(n, d) == IF SumFunction(d) = 0 THEN <<0, 1>> ELSE <<SumFunction(n), SumFunction(d)>>

(* Of a base unit; its weight is the quantity in base units.                *)
UnitPrice(x)     == <<Line(x).price, Factor(x)>>
WeightedPrice(S) ==
  Average([x \in S |-> Source(x) * UnitPrice(x)[1]], [x \in S |-> Source(x) * UnitPrice(x)[2]])
Discount(S) == Average([x \in S |-> Source(x) * Line(x).discount], [x \in S |-> Source(x)])
Tax(S)      == Average([x \in S |-> Source(x) * Line(x).tax], [x \in S |-> Source(x)])

(* a exceeds b by more than one part in `parts`.                            *)
Exceeds(a, b, parts) == parts * (a[1] * b[2] - b[1] * a[2]) > a[2] * b[2]

(* n of the price, in cents, halves away from zero.                         *)
Amount(n, price) ==
  LET cents == (2 * n * Abs(price[1]) + price[2]) \div (2 * price[2])
  IN IF price[1] < 0 THEN -cents ELSE cents

Known(field, S) == S # {} /\ \A x \in S : field \notin Line(x).missing

(* _document_total, {} when it is not known.                                *)
LineTotal(x) == Abs(Line(x).total)
DocumentTotal(i) ==
  IF Known("total", Lines({i})) THEN {SumFunction([x \in Lines({i}) |-> LineTotal(x)])} ELSE {}

RoleTotal(D) ==
  IF \E i \in D : DocumentTotal(i) = {} THEN {}
  ELSE {SumFunction([i \in D |-> CHOOSE n \in DocumentTotal(i) : TRUE])}
-----------------------------------------------------------------------------
(* The rules.  An amount is given where a finding is qualified with it.    *)

AlwaysOn == {"currency_mismatch", "duplicate_document_number", "delivered_over_order",
             "invoiced_over_received", "payment_without_invoice", "payment_over_invoice",
             "line_total_mismatch", "unit_mismatch", "duplicate_invoice_line",
             "duplicate_payment"}

Grade ==
  [currency_mismatch |-> <<"high", 99>>, duplicate_document_number |-> <<"high", 97>>,
   line_total_mismatch |-> <<"medium", 88>>, unit_mismatch |-> <<"high", 99>>,
   delivered_over_order |-> <<"medium", 98>>, invoiced_over_received |-> <<"high", 99>>,
   invoiced_over_ordered |-> <<"high", 91>>, price_over_order |-> <<"high", 98>>,
   discount_missing |-> <<"high", 96>>, tax_rate_mismatch |-> <<"medium", 94>>,
   unmatched_invoice_line |-> <<"low", 72>>, unmatched_charge |-> <<"medium", 72>>,
   duplicate_invoice_line |-> <<"high", 99>>, payment_without_invoice |-> <<"critical", 99>>,
   payment_over_invoice |-> <<"critical", 99>>, duplicate_payment |-> <<"critical", 98>>,
   return_without_credit |-> <<"high", 92>>, credit_below_return |-> <<"high", 97>>]

(* A finding is about the chain, an item, or a place: a line, a number...   *)
Graded(type, grade, item, place, amount) ==
  [type |-> type, item |-> item, place |-> place, amount |-> amount,
   severity |-> Grade[grade][1], confidence |-> Grade[grade][2]]
OfChain(type, amount)     == Graded(type, type, "", <<>>, amount)
OfItem(type, key, amount) == Graded(type, type, key, <<>>, amount)
At(type, place)           == Graded(type, type, "", place, 0)

When(condition, findings) == IF condition THEN findings ELSE {}

CommercialRole(D) ==
  IF Of(D, "confirmation") # {} THEN "confirmation"
  ELSE IF Of(D, "order") # {} THEN "order" ELSE "proposal"

CurrencyMismatch(D) ==
  When(Cardinality({documents[i].currency : i \in D} \ {""}) > 1,
       {OfChain("currency_mismatch", 0)})

DuplicateNumbers(D) ==
  LET numbers == {<<Rank(documents[i].role), documents[i].number>> : i \in D}
      of(n)   == {i \in Of(D, RoleOrder[n[1]]) : documents[i].number = n[2]}
  IN {At("duplicate_document_number", n) :
        n \in {m \in numbers : m[2] # 0 /\ Cardinality(of(m)) > 1}}

(* Hundredths of a cent; the tolerance is three cents or half a percent.    *)
ExpectedTotal(x) == Line(x).qty * Line(x).price * (100 - Line(x).discount)

LineTotals(D) ==
  {At("line_total_mismatch", x) :
     x \in {y \in Lines(D) :
              /\ Line(y).missing \cap {"quantity", "price", "total"} = {}
              /\ 1000 * Abs(100 * Line(y).total - ExpectedTotal(y))
                   > Max({300 * 1000, 5 * Abs(ExpectedTotal(y))})}}

\* mutant: invoices are compared with what was agreed
Agreed(c, d) == c
Reference(c, d) == IF d # {} THEN d ELSE c

Quantities(key, c, d, i) ==
  LET reference == Reference(c, d)
      delivered == Quantity(d) - Quantity(c)
      invoiced  == Quantity(i) - Quantity(reference)
  IN When(c # {} /\ d # {} /\ ProfilesCompatible(c, d) /\ delivered > 0,
          {OfItem("delivered_over_order", key,
                   Max({0, Amount(delivered, WeightedPrice(c))}))})
     \cup
     When(i # {} /\ reference # {} /\ ProfilesCompatible(i, reference) /\ invoiced > 0,
          {Graded("invoiced_over_received",
                  IF d # {} THEN "invoiced_over_received" ELSE "invoiced_over_ordered",
                  key, <<>>, Max({0, Amount(invoiced, WeightedPrice(i))}))})

UnitMismatch(key, c, d, i) ==
  When(\E S, T \in {c, d, i} \ {{}} : S # T /\ ~ProfilesCompatible(S, T),
       {OfItem("unit_mismatch", key, 0)})

Conditions(key, c, i) ==
  When(c # {} /\ i # {},
    When(/\ ProfilesCompatible(c, i) /\ Known("price", c) /\ Known("price", i)
         /\ Exceeds(WeightedPrice(i), WeightedPrice(c), 2),
         {OfItem("price_over_order", key, 0)})
    \cup
    When(/\ Known("discount", c) /\ Known("discount", i)
         /\ Exceeds(Discount(c), Discount(i), 100),
         {OfItem("discount_missing", key, 0)})
    \cup
    When(/\ Known("tax", c) /\ Known("tax", i)
         /\ Exceeds(Tax(c), Tax(i), 100) \/ Exceeds(Tax(i), Tax(c), 100),
         {OfItem("tax_rate_mismatch", key, 0)}))

Unmatched(key, c, d, i) ==
  When(i # {} /\ c = {} /\ d = {},
       {Graded("unmatched_invoice_line",
               IF key \in Fees THEN "unmatched_charge" ELSE "unmatched_invoice_line",
               key, <<>>, 0)})

(* r were returned and k credited; credited says if anything was.           *)
Returns(key, r, k, credited) ==
  LET comparable == k = {} \/ ProfilesCompatible(r, k)
  IN When(r # {},
       When(~comparable, {OfItem("unit_mismatch", key, 0)})
       \cup When(~credited, {OfItem("return_without_credit", key, 0)})
       \cup When(credited /\ comparable /\ Abs(Quantity(k)) < Abs(Quantity(r)),
                 {OfItem("credit_below_return", key, 0)}))

ItemFindings(D) ==
  UNION {LET c == OfRole(item, CommercialRole(D))
             d == OfRole(item, "delivery")
             i == OfRole(item, "invoice")
         IN UnitMismatch(item.key, c, d, i) \cup Quantities(item.key, c, d, i)
              \cup Conditions(item.key, c, i) \cup Unmatched(item.key, c, d, i)
              \cup Returns(item.key, OfRole(item, "return"), OfRole(item, "credit_note"),
                           Of(D, "credit_note") # {}) :
         item \in Items(D)}

DuplicateInvoiceLines(D) ==
  LET signature(x) == <<Line(x).key, Line(x).qty * Factor(x), Line(x).discount>>
      same(x, y) == /\ signature(x) = signature(y)
                    /\ UnitPrice(x)[1] * UnitPrice(y)[2] = UnitPrice(y)[1] * UnitPrice(x)[2]
  IN {At("duplicate_invoice_line", x) :
        x \in {y \in Lines(Of(D, "invoice")) : \E j \in 1..(y[2] - 1) : same(<<y[1], j>>, y)}}

PaymentTolerance == 2

(* An invoice or payment that is being archived may still be in D.          *)
Payments(D) ==
  LET invoices == Of(D, "invoice")
      payments == Of(D, "payment")
      live     == {i \in D : ~documents[i].archived}
      paid     == RoleTotal(payments)
      alone    == RoleTotal(Of(live, "payment"))
  IN When(Of(live, "payment") # {} /\ Of(live, "invoice") = {},
          {OfChain("payment_without_invoice", IF alone = {} THEN 0 ELSE Max(alone))})
     \cup
     When(payments # {} /\ invoices # {},
          {OfChain("payment_over_invoice", p - i) :
             p \in paid, i \in {n \in RoleTotal(invoices) :
                                 \E q \in paid : q > n + PaymentTolerance}})

DuplicatePayments(D) ==
  {At("duplicate_payment", q) :
     q \in {p \in Of(D, "payment") \X Of(D, "payment") :
       /\ p[1] < p[2]
       /\ documents[p[1]].reference # "" /\ documents[p[1]].reference = documents[p[2]].reference
       /\ DocumentTotal(p[1]) = DocumentTotal(p[2]) /\ \E n \in DocumentTotal(p[1]) : n > 0
       /\ \A k \in Of(D, "payment") :
            k < p[1] => \/ documents[k].reference # documents[p[1]].reference
                        \/ DocumentTotal(k) # DocumentTotal(p[1])}}

(* analyze_chain                                                            *)
FindingsOf(D) ==
  {f \in CurrencyMismatch(D) \cup DuplicateNumbers(D) \cup LineTotals(D) \cup ItemFindings(D)
            \cup DuplicateInvoiceLines(D) \cup Payments(D) \cup DuplicatePayments(D) :
      f.type \in AlwaysOn \cup active}
Findings == FindingsOf(Evaluated)

(* chain.status = "clear", where no case has been decided.                  *)
Clear == Unread = {} /\ Findings = {}
=============================================================================
