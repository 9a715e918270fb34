----------------------------- MODULE Assessment -----------------------------
(***************************************************************************)
(* The assessment of a chain: the documents it should have by now, how it  *)
(* departs from the usual course, and the risk of an action on it.         *)
(*                                                                         *)
(* It goes by every linked document, read or not, archived or not, and by  *)
(* the cases of the analysis.  A score is in hundredths of a point.        *)
(***************************************************************************)
EXTENDS Analysis

CONSTANTS
  Days,         \* after which the document of a role is due: learned, or the defaults
  Usual,        \* roles of the commonest course of other chains, <<>> with less than three
  Services,     \* keys of services
  PhysicalUnits

Present(role) == Of(Indices, role) # {}
Commercial    == Of(Indices, CommercialRole(Indices))
-----------------------------------------------------------------------------
(* build_expectations                                                      *)

(* The first document that says what the operation is about decides.        *)
PhysicalLine(x) ==
  Line(x).key \notin Services /\ (Line(x).unit \in PhysicalUnits \/ Abs(Line(x).qty) > 1)
PhysicalGoods ==
  LET seen   == Commercial \cup Of(Indices, "delivery") \cup Of(Indices, "invoice")
      stated == {i \in seen : documents[i].nature # ""}
  IN \/ Present("delivery")
     \/ stated # {} /\ documents[Min(stated)].nature = "goods"
     \/ stated = {} /\ \E x \in Lines(seen) : PhysicalLine(x)

Overdue(role, sources) ==
  LET ages == {documents[i].age : i \in sources} IN ages # {} /\ Min(ages) > Days[role]

Expected(role, required, sources) ==
  {[role |-> role, required |-> required,
    status |-> IF Present(role) THEN "satisfied"
               ELSE IF Overdue(role, sources) THEN "overdue" ELSE "pending"]}
Missing(role) == {[role |-> role, required |-> TRUE, status |-> "missing_proof"]}

Raised ==
  LET orders     == Of(Indices, "order") \cup Of(Indices, "confirmation")
      deliveries == Of(Indices, "delivery")
  IN When(Present("proposal") /\ orders = {},
          Expected("order", FALSE, Of(Indices, "proposal")))
     \cup When(Commercial # {} /\ PhysicalGoods, Expected("delivery", TRUE, Commercial))
     \cup When(Commercial # {},
               Expected("invoice", TRUE, IF deliveries # {} THEN deliveries ELSE Commercial))
     \cup When(Commercial = {} /\ (Present("delivery") \/ Present("invoice")), Missing("order"))
     \cup When(Present("invoice") /\ PhysicalGoods /\ ~Present("delivery"), Missing("delivery"))
     \cup When(Present("invoice"), Expected("payment", TRUE, Of(Indices, "invoice")))
     \cup When(Present("payment") /\ ~Present("invoice"), Missing("invoice"))
     \cup When(Present("return"), Expected("credit_note", TRUE, Of(Indices, "return")))

(* Of a role, the gravest.                                                  *)
Gravity == [satisfied |-> 1, pending |-> 2, overdue |-> 3, missing_proof |-> 4]
Expectations ==
  LET raised == Raised
  IN {e \in raised : \A f \in raised : f.role = e.role => Gravity[f.status] <= Gravity[e.status]}
-----------------------------------------------------------------------------
(* _payment_reconciliation.  Where the lines give no total the amount counts *)
(* that the document states in its metadata, or nothing.                    *)

Total(i) ==
  LET summed == IF Known("total", Lines({i}))
                THEN Abs(SumFunction([x \in Lines({i}) |-> Line(x).total])) ELSE 0
  IN IF summed # 0 THEN summed ELSE documents[i].stated
TotalOf(role) == SumFunction([i \in Of(Indices, role) |-> Total(i)])
Overpaid ==
  /\ Present("payment")
  /\ TotalOf("payment") > TotalOf("invoice") + PaymentTolerance

(* Payments are told by their references, or else by their numbers (which   *)
(* differ from the references of others).                                   *)
PaidTwice ==
  \E i, j \in Of(Indices, "payment") :
    /\ i < j /\ Total(i) = Total(j)
    /\ documents[i].reference = documents[j].reference
    /\ documents[i].reference # "" \/ documents[i].number = documents[j].number

(* build_process_conformance: roles that come before one the chain has.     *)
MissingBetween ==
  LET course == IF Usual # <<>> THEN Usual
                ELSE <<IF Commercial = {} THEN "order" ELSE CommercialRole(Indices),
                       "invoice", "payment">>
      met    == {n \in DOMAIN course : Present(course[n])}
  IN {n \in DOMAIN course : ~Present(course[n]) /\ \E m \in met : n < m}
-----------------------------------------------------------------------------
(* assess_risk                                                             *)

Actions == {"approve_invoice", "approve_payment", "accept_delivery"}
ActionRole ==
  [approve_invoice |-> "invoice", approve_payment |-> "payment", accept_delivery |-> "delivery"]

\* mutant: high findings weigh less
LighterWeight == [low |-> 4, medium |-> 10, high |-> 20, critical |-> 36]
SeverityWeight == [low |-> 4, medium |-> 10, high |-> 22, critical |-> 36]
CaseScore(f)   == SeverityWeight[f.severity] * Max({40, f.confidence})

Points(n, condition) == IF condition THEN 100 * n ELSE 0

Lacking == {e \in Expectations : e.status = "missing_proof"}
Late    == {e \in Expectations : e.status = "overdue"}
Reading == IF Indices = {} THEN 0 ELSE Min({documents[i].confidence : i \in Indices})

CommonScore ==
  SumFunction([f \in Findings |-> CaseScore(f)])
    + 2400 * Cardinality(Lacking)
    + SumFunction([e \in Late |-> IF e.required THEN 1600 ELSE 700])
    + Points(35, PaidTwice)
    + Min({2400, 800 * Cardinality(MissingBetween)})
    + Points(IF Reading < 70 THEN 18 ELSE 8, Reading < 85)

(* Per action.                                                              *)
Score ==
  LET common  == CommonScore
      lacking == Lacking
  IN [action \in Actions |->
        common + Points(70, ~Present(ActionRole[action]))
               + Points(25, action = "approve_invoice" /\ Cardinality(lacking) > 1)
               + Points(30, action = "approve_payment" /\ Overpaid)]

(* Rounded to tenths.                                                       *)
DecisionAt(score) ==
  LET tenths == (score + 5) \div 10
  IN IF tenths >= 700 THEN "block" ELSE IF tenths >= 200 THEN "review" ELSE "allow"
-----------------------------------------------------------------------------
(* Properties.                                                             *)

(* The documents that an action should rest on.                             *)
ProvedBy(action) ==
  /\ Commercial # {}
  /\ action = "approve_payment" => Present("invoice") /\ Present("payment")
  /\ action = "approve_invoice" => Present("invoice")
  /\ action = "accept_delivery" \/ (PhysicalGoods /\ Present("invoice")) => Present("delivery")

(* What is allowed rests on its documents, no high or critical finding      *)
(* speaks against it, and a payment, if nothing was set aside, does not     *)
(* exceed what was agreed but for lines that contradict themselves.         *)
AllowedIsSound ==
  LET score == Score
  IN \A action \in Actions : DecisionAt(score[action]) = "allow" =>
    /\ ProvedBy(action)
    /\ \A f \in Findings : f.severity \notin {"high", "critical"}
    /\ action = "approve_payment" /\ Whole /\ active = Proposed /\ Comparable
         => Paid <= Owed \/ \E f \in Findings : f.type = "line_total_mismatch"
=============================================================================
