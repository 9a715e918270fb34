------------------------------- MODULE Engine -------------------------------
(***************************************************************************)
(* The engine: what it learns, when it may act alone, what it finds, and   *)
(* what its findings and its assessments rest on, each on its own.  A      *)
(* behaviour concerns the part that scope names, and the variables of the  *)
(* others are Off.                                                         *)
(***************************************************************************)
EXTENDS Integers, Sequences, FiniteSets

CONSTANTS
  Off,                                          \* the value of a variable that is not in play
  Requests,
  Datasets, Engines, MaxRuns,                   \* see Automation
  BuiltIn, Learned, Minimum, MaxDocuments,      \* see Discovery
  Similar, Bars, Length, Fees, Units,           \* see Rules
  Days, Usual, PhysicalUnits,                   \* see Assessment
  Dealings, MaxDealt,                           \* documents that are assessed, how many
  Disputes, MaxDisputed, MaxChanges             \* documents that are disputed, see Support

ASSUME BoundsAssumption == MaxRuns \in Nat /\ Minimum \in Nat /\ MaxDocuments \in Nat
\* what is learned about a field has a code of its own: field_consistency:<field>
ASSUME RulesAssumption == BuiltIn \cap Learned = {}
ASSUME UnitsAssumption == \A unit \in DOMAIN Units : Units[unit].factor \in Nat \ {0}

VARIABLES
  scope,
  overlap, tx,
  engine, dataset, runs,
  counted, profile, proposal, analysed, decided, relearned,
  documents, cases, active

requests   == <<overlap, tx>>
automation == <<engine, dataset, runs>>
discovery  == <<counted, profile, proposal, analysed, decided, relearned>>
analysis   == <<documents, cases, active>>
vars == <<scope, requests, automation, discovery, analysis>>
-----------------------------------------------------------------------------
Automation == INSTANCE Automation
Discovery  == INSTANCE Discovery WITH documents <- counted
Assessment == INSTANCE Assessment WITH Corpus <- Dealings, MaxDocuments <- MaxDealt,
                                       Services <- Fees
Support    == INSTANCE Support WITH Corpus <- Disputes, MaxDocuments <- MaxDisputed

\* parse_decimal_field: a price has any sign; a discount is at most the price, a charge below none
Discounts == {n \in Int : n <= 100}
LineType ==
  [key : DOMAIN Bars, qty : Int, unit : DOMAIN Units, price : Int, discount : Discounts,
   tax : 0..100, total : Int, missing : SUBSET {"quantity", "price", "discount", "tax", "total"},
   direct : BOOLEAN]
DocumentType ==
  [role : Assessment!Roles, parsed : BOOLEAN, archived : BOOLEAN, currency : STRING, number : Nat,
   reference : STRING, lines : Seq(LineType), direct : BOOLEAN, read : Nat, age : Int,
   confidence : 0..100, nature : STRING, stated : Nat]
ASSUME DocumentsAssumption == Dealings \cup Disputes \subseteq DocumentType
\* parse_status: a document without lines needs a review
ASSUME ParsedAssumption == \A document \in Dealings : document.parsed => document.lines # <<>>
ASSUME UsualAssumption == Usual \in Seq(Assessment!Roles)

NoRequests   == overlap = Off /\ tx = Off
NoAutomation == engine = Off /\ dataset = Off /\ runs = Off
NoDiscovery  ==
  /\ counted = Off /\ profile = Off /\ proposal = Off /\ analysed = Off /\ decided = Off
  /\ relearned = Off
NoAnalysis == documents = Off /\ cases = Off /\ active = Off

AutomationInit == scope = "automation" /\ Automation!Init /\ NoDiscovery /\ NoAnalysis
DiscoveryInit  == scope = "discovery" /\ Discovery!Init /\ NoAutomation /\ NoAnalysis
AssessmentInit ==
  scope = "assessment" /\ Assessment!Init /\ cases = Off /\ NoRequests /\ NoAutomation /\ NoDiscovery
SupportInit ==
  scope = "support" /\ Support!Init /\ active = Off /\ NoRequests /\ NoAutomation /\ NoDiscovery

AutomationNext ==
  scope = "automation" /\ Automation!Next /\ UNCHANGED <<scope, discovery, analysis>>
DiscoveryNext ==
  scope = "discovery" /\ Discovery!Next /\ UNCHANGED <<scope, automation, analysis>>
AssessmentNext ==
  /\ scope = "assessment" /\ Assessment!Next
  /\ UNCHANGED <<scope, requests, automation, discovery, cases>>
SupportNext ==
  /\ scope = "support" /\ Support!Next
  /\ UNCHANGED <<scope, requests, automation, discovery, active>>

Init == AutomationInit \/ DiscoveryInit \/ AssessmentInit \/ SupportInit
Next == AutomationNext \/ DiscoveryNext \/ AssessmentNext \/ SupportNext
Spec == Init /\ [][Next]_vars
-----------------------------------------------------------------------------
(* What is approved has passed on enough real evidence, whatever overlaps;  *)
(* and when requests do not overlap an approval is of the latest run of an  *)
(* active dataset: every later run and every archiving has ended it.        *)
ApprovalsAreCurrent == scope = "automation" => Automation!ApprovalsAreCurrent

(* The gate does not close because of what happens to another dataset: a    *)
(* later synthetic test, or one that fails, does not hide an approved pilot *)
(* (requests that do not overlap).                                          *)
ApprovedIsNotHidden ==
  [][scope = "automation" /\ Automation!GateOpen => Automation!GateCloses]_vars

(* A rule learned from recurring fields is applied only if a reviewer has   *)
(* confirmed it.  When requests do not overlap, confirmations and refusals  *)
(* survive every later run, and the findings of a chain are those of the    *)
(* rules now active, unless the profile has been put back to learning.      *)
RulesAreObeyed == scope = "discovery" => Discovery!RulesAreObeyed

(* "Explicit human decisions survive subsequent learning runs."             *)
DecisionsSurvive == scope = "discovery" => Discovery!DecisionsSurvive

(* When every rule is in force, the payments of a chain that is clear do    *)
(* not exceed what was agreed, if its documents can be compared.            *)
ClearPaysWhatIsOwed == scope = "assessment" => Assessment!ClearPaysWhatIsOwed

(* What is allowed rests on its documents, no high or critical finding      *)
(* speaks against it, and a payment, if nothing was set aside, does not     *)
(* exceed what was agreed but for lines that contradict themselves.         *)
AllowedIsSound == scope = "assessment" => Assessment!AllowedIsSound

(* A judgment is linked to a finding only if the analysis of the documents  *)
(* as they are now would raise it, with the amount of the case: however     *)
(* stale the case is, and though its support is computed by other code (if  *)
(* no document needs a review and no other role joins the lines).           *)
JudgedIsCurrent == scope = "support" => Support!JudgedIsCurrent
=============================================================================
