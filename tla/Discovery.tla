------------------------------ MODULE Discovery ------------------------------
(***************************************************************************)
(* What the engine learns from a tenant's documents: the proposals of      *)
(* rules, the decisions of reviewers about them, and the rules that the    *)
(* analysis of a chain goes by.                                            *)
(*                                                                         *)
(* A request is a transaction, READ COMMITTED; a column is written if the  *)
(* value it is given differs from the one that was read.                   *)
(***************************************************************************)
EXTENDS Naturals, FiniteSets

CONSTANTS
  Requests,   \* requests and jobs that are at work at a time (a bound)
  BuiltIn,    \* rules of _RULE_CATALOG that a run always proposes
  Learned,    \* rules that a run proposes about fields it has seen recur
  Minimum,    \* DiscoverySettings.minimum_documents
  MaxDocuments

VARIABLES
  overlap,    \* whether requests overlap in this deployment
  documents,  \* how many documents are parsed and not archived
  profile,    \* document_count of the profile, {} before the first run
  proposal,   \* per rule: the status of its proposal
  analysed,   \* of one chain: the rules its findings were filtered with, {} before
  tx,
  decided,    \* history: per rule, the last decision of a reviewer
  relearned   \* history: whether a run has not been followed by an analysis of the chain

vars == <<overlap, documents, profile, proposal, analysed, tx, decided, relearned>>

Rules     == BuiltIn \cup Learned
Decisions == {"confirmed", "rejected", "inactive"}

Idle == [pc |-> "idle", read |-> {}, write |-> {}, profile |-> {}, learns |-> FALSE,
         adds |-> 0, archives |-> 0, analyses |-> FALSE, decides |-> {}]

(* active_rule_codes: every predefined rule when nothing has been proposed. *)
ActiveCodes(p) ==
  IF \A r \in Rules : p[r] = "absent" THEN BuiltIn
                                      ELSE {r \in Rules : p[r] \in {"auto_active", "confirmed"}}

Init ==
  /\ overlap \in BOOLEAN
  /\ documents = 0 /\ profile = {}
  /\ proposal = [r \in Rules |-> "absent"]
  /\ analysed = {}
  /\ tx = [t \in Requests |-> Idle]
  /\ decided = [r \in Rules |-> "absent"]
  /\ relearned = FALSE
-----------------------------------------------------------------------------
(* A run of the discovery.                                                 *)

(* discovered_status: the confidence is above the threshold, above that of  *)
(* confirmation, or below both.                                             *)
DiscoveredStatus(r, enough, confidence) ==
  IF confidence = "high" /\ r \in BuiltIn /\ enough THEN "auto_active"
  ELSE IF confidence = "low" THEN "inactive" ELSE "needs_confirmation"

\* mutant: a run has the last word
Overruled(status, discovered) == discovered
Upserted(status, discovered) ==
  IF status \in {"confirmed", "rejected"} THEN status ELSE discovered

(* Requests that overlap meet on learned rules (a bound).                   *)
Catalog == {r \in BuiltIn : ~overlap}

(* The statuses after a run that found proposals as they are in p.          *)
RunDiscovery(p) ==
  {[r \in Rules |-> IF r \in specified THEN Upserted(p[r], DiscoveredStatus(r, enough, confidence[r]))
                                       ELSE p[r]] :
     specified \in {Catalog \cup learned : learned \in SUBSET Learned},
     enough \in BOOLEAN, confidence \in [Rules -> {"low", "middle", "high"}]}

(* maybe_run_discovery                                                      *)
IsDue(count) == count >= Minimum /\ profile # {count}
-----------------------------------------------------------------------------
(* Requests: what they read and decide, then what they write.              *)

Begin(t, request) ==
  /\ tx[t] = Idle /\ (overlap \/ \A u \in Requests : tx[u] = Idle)
  /\ tx' = [tx EXCEPT ![t] = request]
  /\ UNCHANGED <<overlap, documents, profile, proposal, analysed, decided, relearned>>

Request(analyses) == [Idle EXCEPT !.pc = "read", !.read = {proposal}, !.write = {proposal},
                                  !.profile = profile, !.analyses = analyses]

Learning(analyses, learned) == [Request(analyses) EXCEPT !.write = {learned}, !.learns = TRUE]

(* upload_document and jobs: the chain of the document, then a run if due,  *)
(* and then every chain.                                                    *)
Upload(t) ==
  /\ documents < MaxDocuments
  /\ IF IsDue(documents + 1)
     THEN \E learned \in RunDiscovery(proposal) :
            Begin(t, [Learning(TRUE, learned) EXCEPT !.adds = 1])
     ELSE \E this \in BOOLEAN : Begin(t, [Request(this) EXCEPT !.adds = 1])

(* archive_document: the chain of the document, and no run.                 *)
Archive(t) ==
  /\ documents > 0
  /\ \E this \in BOOLEAN : Begin(t, [Request(this) EXCEPT !.archives = 1])

ExecuteDiscovery(t) ==
  \E learned \in RunDiscovery(proposal) : Begin(t, Learning(TRUE, learned))

(* decide_activity_profile("relearn"): a run that no analysis follows.      *)
Relearn(t) ==
  /\ profile # {}
  /\ \E learned \in RunDiscovery(proposal) : Begin(t, Learning(FALSE, learned))

DecideRule(t) ==
  \E r \in Rules, decision \in Decisions :
    /\ proposal[r] # "absent"
    /\ Begin(t, [Request(TRUE) EXCEPT !.write = {[proposal EXCEPT ![r] = decision]},
                                      !.decides = {r}])

Changed(t) == {r \in Rules : \E p \in tx[t].read, w \in tx[t].write : p[r] # w[r]}
Added(t)   == {r \in Changed(t) : \E p \in tx[t].read : p[r] = "absent"}

(* What the transaction sees after its flush.                               *)
Seen(t) == [r \in Rules |-> IF r \in Changed(t) THEN (CHOOSE w \in tx[t].write : TRUE)[r]
                                                ELSE proposal[r]]

Refuse(t) ==
  /\ tx' = [tx EXCEPT ![t] = Idle]
  /\ UNCHANGED <<overlap, documents, profile, proposal, analysed, decided, relearned>>

(* uq_rule_proposal_tenant_code, uq_activity_profile_tenant                 *)
Taken(t) ==
  \/ \E r \in Added(t) : proposal[r] # "absent"
  \/ tx[t].learns /\ tx[t].profile = {} /\ profile # {}

(* The flush, the analysis of the chains and the commit, as one step; what  *)
(* is analysed is followed where requests do not overlap (a bound).         *)
Commit(t) ==
  LET seen  == Seen(t)
      count == documents + tx[t].adds - tx[t].archives
  IN /\ tx[t].pc = "read" /\ ~Taken(t) /\ count >= 0
     /\ proposal' = seen
     /\ documents' = count
     /\ profile' = IF tx[t].learns THEN {count} ELSE profile
     /\ analysed' = IF tx[t].analyses /\ ~overlap THEN {ActiveCodes(seen)} ELSE analysed
     /\ decided' = [r \in Rules |-> IF r \in tx[t].decides THEN seen[r] ELSE decided[r]]
     /\ relearned' = (~overlap /\ ~tx[t].analyses /\ (relearned \/ tx[t].learns))
     /\ tx' = [tx EXCEPT ![t] = Idle]
     /\ UNCHANGED overlap

Abort(t) == tx[t] # Idle /\ Refuse(t)

Next ==
  \E t \in Requests :
    \/ Upload(t) \/ Archive(t) \/ ExecuteDiscovery(t) \/ Relearn(t) \/ DecideRule(t)
    \/ Commit(t) \/ Abort(t)

Spec == Init /\ [][Next]_vars
-----------------------------------------------------------------------------
(* Properties.                                                             *)

(* A rule learned from recurring fields is applied only if a reviewer has   *)
(* confirmed it.  When requests do not overlap, confirmations and refusals  *)
(* survive every later run, and the findings of a chain are those of the    *)
(* rules now active, unless the profile has been put back to learning.      *)
RulesAreObeyed ==
  /\ \A r \in Learned : proposal[r] \in {"auto_active", "confirmed"} => decided[r] = "confirmed"
  /\ ~overlap =>
       /\ \A r \in Rules : decided[r] \in {"confirmed", "rejected"} => proposal[r] = decided[r]
       /\ relearned \/ analysed \subseteq {ActiveCodes(proposal)}

(* "Explicit human decisions survive subsequent learning runs."             *)
DecisionsSurvive ==
  ~overlap => \A r \in Rules : decided[r] # "absent" => proposal[r] = decided[r]
=============================================================================
