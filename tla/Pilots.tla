------------------------------- MODULE Pilots -------------------------------
(***************************************************************************)
(* A pilot: practices are added to a draft and reviewed blind by two       *)
(* people, the pilot is frozen with a manifest of what was reviewed, the   *)
(* reviews that differ are adjudicated, and a run compares the findings of *)
(* the engine with the reviews.                                            *)
(*                                                                         *)
(* No request locks the pilot before it tests its status; what the run     *)
(* finds is compared with the manifest instead.  A review is the set of    *)
(* findings it expects (the code counts them, here each occurs once), and  *)
(* a column that may be empty is a set of at most one value.               *)
(***************************************************************************)
EXTENDS Naturals, FiniteSets

CONSTANTS
  Requests,       \* requests that are at work at a time (a bound)
  PilotPractices, \* practices of the tenant
  Findings,       \* types of findings
  Critical,       \* those that are critical
  MinPractices,   \* 30 in the code
  MaxEvents       \* requests that are started and changes around them (a bound)

VARIABLES
  pilot,     \* status, manifest, engine that froze it
  result,    \* result_json: {} or the only result
  members,   \* practices with a row in rc15_pilot_cases
  review,    \* per practice: primary and secondary review, adjudication
  measured,  \* practices whose times and score are recorded
  documents, \* per practice: the state of its documents, 0 if it is deleted
  found,     \* per practice: types of its cases that are not superseded
  engine,    \* the release that is installed
  holder,    \* {} or the request that has locked the pilot's row
  events, tx

cases == <<members, review, measured>>
world == <<documents, found, engine>>
vars  == <<pilot, result, cases, world, holder, events, tx>>

Columns == {"primary", "secondary", "adjudicated"}
Entries == {{}} \cup {{f} : f \in SUBSET Findings}

Idle == [kind |-> "idle", on |-> {}, column |-> "none", value |-> {},
         manifest |-> {}, engine |-> 0, todo |-> {}, scenarios |-> {}]

(* A draft with some practices, reviewed and measured.                      *)
Init ==
  /\ pilot = [status |-> "draft", manifest |-> {}, engine |-> 0]
  /\ result = {}
  /\ members \in SUBSET PilotPractices
  /\ review \in [PilotPractices -> [primary : Entries, secondary : Entries, adjudicated : {{}}]]
  /\ \A p \in PilotPractices : (p \in members) = (review[p].primary # {})
                           /\ (p \in members) = (review[p].secondary # {})
  /\ measured = members
  /\ documents = [p \in PilotPractices |-> 1]
  /\ found \in [PilotPractices -> SUBSET Findings]
  /\ engine = 1
  /\ holder = {}
  /\ events = 0
  /\ tx = [t \in Requests |-> Idle]

Happens == events < MaxEvents /\ events' = events + 1

Begin(t, rec) ==
  /\ tx[t] = Idle /\ Happens
  /\ tx' = [tx EXCEPT ![t] = rec]

Close(t) == tx' = [tx EXCEPT ![t] = Idle] /\ holder' = holder \ {t}

Unlocked(t) == holder \subseteq {t}
-----------------------------------------------------------------------------
(* Practices and reviews.                                                  *)

Add(t) ==
  /\ pilot.status = "draft"
  /\ \E p \in PilotPractices \ members :
       documents[p] > 0 /\ Begin(t, [Idle EXCEPT !.kind = "add", !.on = {p}])
  /\ UNCHANGED <<pilot, result, cases, world, holder>>

CommitAdd(t) ==
  /\ tx[t].kind = "add"
  /\ members' = members \cup tx[t].on
  /\ Close(t)
  /\ UNCHANGED <<pilot, result, review, measured, world, events>>

(* Reviews are for a draft, adjudications for a frozen pilot, measurements  *)
(* for any that is not archived, by the status that the request has read.   *)
Editable(column) ==
  CASE column = "adjudicated" -> pilot.status = "frozen"
    [] column = "measures"    -> pilot.status # "archived"
    [] OTHER                  -> pilot.status = "draft"

Update(t) ==
  /\ \E p \in members, c \in Columns \cup {"measures"}, v \in SUBSET Findings :
       /\ Editable(c)
       /\ Begin(t, [Idle EXCEPT !.kind = "update", !.on = {p}, !.column = c, !.value = {v}])
  /\ UNCHANGED <<pilot, result, cases, world, holder>>

CommitUpdate(t) ==
  /\ tx[t].kind = "update"
  /\ review' = [p \in PilotPractices |->
                  IF p \in tx[t].on /\ tx[t].column \in Columns
                  THEN [review[p] EXCEPT ![tx[t].column] = tx[t].value] ELSE review[p]]
  /\ measured' = IF tx[t].column = "measures" THEN measured \cup tx[t].on ELSE measured
  /\ Close(t)
  /\ UNCHANGED <<pilot, result, members, world, events>>
-----------------------------------------------------------------------------
(* The freeze lists the cases, needs both reviews of each and records them  *)
(* with the state of the documents.                                         *)
Entry(p) == [practice |-> p, documents |-> documents[p],
             primary |-> review[p].primary, secondary |-> review[p].secondary]

Freeze(t) ==
  /\ pilot.status = "draft"
  /\ Cardinality(members) >= MinPractices
  /\ \A p \in members : review[p].primary # {} /\ review[p].secondary # {} /\ documents[p] > 0
  /\ Begin(t, [Idle EXCEPT !.kind = "freeze", !.engine = engine,
                           !.manifest = {Entry(p) : p \in members}])
  /\ UNCHANGED <<pilot, result, cases, world, holder>>

CommitFreeze(t) ==
  /\ tx[t].kind = "freeze" /\ Unlocked(t)
  /\ pilot' = [status |-> "frozen", manifest |-> tx[t].manifest, engine |-> tx[t].engine]
  /\ Close(t)
  /\ UNCHANGED <<result, cases, world, events>>

(* Archiving asks for no status.                                            *)
Archive ==
  /\ holder = {} /\ pilot.status # "archived" /\ Happens
  /\ pilot' = [pilot EXCEPT !.status = "archived"]
  /\ UNCHANGED <<result, cases, world, holder, tx>>
-----------------------------------------------------------------------------
(* A run reads the pilot, then its cases, and locks the row of the pilot by *)
(* setting the status, which nobody sees.                                   *)
Run(t) ==
  /\ pilot.status \in {"frozen", "completed"} /\ pilot.engine = engine
  /\ Begin(t, [Idle EXCEPT !.kind = "start", !.manifest = pilot.manifest])
  /\ UNCHANGED <<pilot, result, cases, world, holder>>

Row(p) == [practice |-> p, review |-> review[p], measured |-> p \in measured]

ReadCases(t) ==
  /\ tx[t].kind = "start" /\ Unlocked(t)
  /\ holder' = {t}
  /\ tx' = [tx EXCEPT ![t].kind = "run", ![t].todo = {Row(p) : p \in members}]
  /\ UNCHANGED <<pilot, result, cases, world, events>>

(* The case is what was frozen; the expected findings are those on which    *)
(* the reviews agree, or the adjudicated ones.                              *)
\* mutant: the reviews are not compared with the manifest
SameDocuments(t, c) ==
  \E e \in tx[t].manifest : e.practice = c.practice /\ e.documents = documents[c.practice]
Unchanged(t, c) ==
  /\ documents[c.practice] > 0
  /\ [practice |-> c.practice, documents |-> documents[c.practice],
      primary |-> c.review.primary, secondary |-> c.review.secondary] \in tx[t].manifest

Truth(r) == IF r.primary = r.secondary THEN r.primary ELSE r.adjudicated

Compare(t) ==
  /\ tx[t].kind = "run"
  /\ \E c \in tx[t].todo :
       IF Unchanged(t, c) /\ Truth(c.review) # {}
       THEN /\ \E expected \in Truth(c.review) :
                 tx' = [tx EXCEPT ![t].todo = @ \ {c},
                                  ![t].scenarios = @ \cup
                                    {[practice |-> c.practice, expected |-> expected,
                                      actual |-> found[c.practice], measured |-> c.measured]}]
            /\ UNCHANGED holder
       ELSE Close(t)
  /\ UNCHANGED <<pilot, result, cases, world, events>>

Missed(s) == s.expected \ s.actual

Decision(scenarios) ==
  IF \E s \in scenarios : ~s.measured                        THEN "incomplete"
  ELSE IF \E s \in scenarios : Missed(s) \cap Critical # {} THEN "unfit"
  ELSE IF \E s \in scenarios : Missed(s) # {}               THEN "reinforced review"
  ELSE                                                            "human review"

(* The ORM writes the columns that differ from what the run had read.       *)
CommitRun(t) ==
  /\ tx[t].kind = "run" /\ tx[t].todo = {}
  /\ LET decision == Decision(tx[t].scenarios)
     IN  /\ result' = {[manifest |-> tx[t].manifest, scenarios |-> tx[t].scenarios,
                        decision |-> decision]}
         /\ pilot' = [pilot EXCEPT !.status = IF decision = "incomplete" THEN "frozen"
                                              ELSE "completed"]
  /\ Close(t)
  /\ UNCHANGED <<cases, world, events>>
-----------------------------------------------------------------------------
(* The documents of a practice change or are deleted, analyses find other   *)
(* cases, a release is installed.                                           *)
Change(p) ==
  /\ documents[p] = 1 /\ Happens
  /\ \E v \in {0, 2} : documents' = [documents EXCEPT ![p] = v]
  /\ UNCHANGED <<pilot, result, cases, found, engine, holder, tx>>

Reanalyse(p) ==
  /\ Happens
  /\ \E f \in SUBSET Findings : f # found[p] /\ found' = [found EXCEPT ![p] = f]
  /\ UNCHANGED <<pilot, result, cases, documents, engine, holder, tx>>

Upgrade ==
  /\ engine = 1 /\ engine' = 2 /\ Happens
  /\ UNCHANGED <<pilot, result, cases, documents, found, holder, tx>>

Next ==
  \/ \E t \in Requests :
       \/ Add(t) \/ CommitAdd(t) \/ Update(t) \/ CommitUpdate(t)
       \/ Freeze(t) \/ CommitFreeze(t)
       \/ Run(t) \/ ReadCases(t) \/ Compare(t) \/ CommitRun(t)
  \/ \E p \in PilotPractices : Change(p) \/ Reanalyse(p)
  \/ Archive \/ Upgrade

Spec == Init /\ [][Next]_vars
-----------------------------------------------------------------------------
(* Properties.                                                             *)

TypeOK ==
  /\ pilot.status \in {"draft", "frozen", "completed", "archived"}
  /\ members \subseteq PilotPractices /\ measured \subseteq PilotPractices
  /\ review \in [PilotPractices -> [Columns -> Entries]]
  /\ Cardinality(result) <= 1 /\ Cardinality(holder) <= 1
  /\ \A t \in Requests : {c.practice : c \in tx[t].todo} \subseteq PilotPractices

(* The findings that a result expects are those of the blind reviews that   *)
(* were frozen, wherever the reviews agree, for every practice of the       *)
(* freeze or none, although reviews, practices and documents may still be   *)
(* changed by requests that read the draft; and a favourable decision means *)
(* that the engine had found all of them.                                   *)
ResultRestsOnFreeze ==
  \A r \in result :
    /\ \A s \in r.scenarios :
         \E e \in r.manifest :
           /\ e.practice = s.practice
           /\ e.primary = e.secondary => e.primary = {s.expected}
    /\ r.decision = "human review" => \A s \in r.scenarios : s.expected \subseteq s.actual
    /\ {s.practice : s \in r.scenarios} = {e.practice : e \in r.manifest}
=============================================================================
