------------------------------- MODULE Cases -------------------------------
(***************************************************************************)
(* The discrepancy case of one chain: raised and revised by the analyses   *)
(* of corrections, reprocessing and re-analysis, decided by reviews and    *)
(* transitions, its findings recorded in versions, its judgments resting   *)
(* on the support that the documents give at the time.                     *)
(*                                                                         *)
(* A request is a PostgreSQL transaction, READ COMMITTED.  What it sets is *)
(* in tx and becomes visible at its commit; the row locks it takes on the  *)
(* way are in locks, and a lock it waits for is a disabled step.  The rows *)
(* are "chain", "docs" (links, documents and lines), "case" and "finding"  *)
(* (the next version of the case's finding).                               *)
(*                                                                         *)
(* The discrepancy is a number: how far the lines are from agreeing, 0 if  *)
(* they agree.  What was read from the document is the fact of the line.   *)
(***************************************************************************)
EXTENDS Naturals, FiniteSets

CONSTANTS
  Requests,   \* requests that are at work at a time (a bound)
  Amounts,    \* discrepancies of the lines, with 0
  MaxLines    \* line rows that reprocessing may create (a bound)

ASSUME CasesAssumption ==
  /\ IsFiniteSet(Requests)
  /\ Amounts \subseteq Nat /\ 0 \in Amounts
  /\ MaxLines \in Nat \ {0}

Undecided == {"open", "needs_review"}
Decisions == {"needs_review", "confirmed", "dismissed", "resolved"}
Statuses  == Undecided \cup Decisions \cup {"superseded"}
Rows      == {"chain", "docs", "case", "finding"}
Modes     == {"update", "write", "share"}  \* FOR UPDATE, UPDATE, a foreign key's KEY SHARE
Contents  == [line : 1..MaxLines, value : Amounts, fact : Amounts]

Analyses  == {"correct", "reprocess", "reanalyse"}

CASE_TRANSITIONS ==
  [s \in Statuses |->
     CASE s = "open"         -> {"needs_review", "confirmed", "dismissed"}
       [] s = "needs_review" -> {"confirmed", "dismissed"}
       [] s = "confirmed"    -> {"resolved", "needs_review", "dismissed"}
       [] s = "dismissed"    -> {"needs_review"}
       [] s = "resolved"     -> {"needs_review"}
       [] s = "superseded"   -> {}]

VARIABLES
  provable,    \* the case's rule has a provenance contract (P1)
  content,     \* the line, its value and the fact extracted for it
  status,      \* discrepancy_cases.status, "none" before the first finding
  amount,      \* discrepancy_cases.amount_estimate
  chainStatus, \* operation_chains.status
  finding,     \* the latest provenance_findings row: its version and support
  locks, tx

rows == <<content, status, amount, chainStatus, finding>>
vars == <<provable, rows, locks, tx>>

Idle == [pc      |-> "idle",
         kind    |-> "none",
         want    |-> {},      \* locks of the statement that is executing
         content |-> [line |-> 1, value |-> 0, fact |-> 0], \* the lines it analyses
         seen    |-> "none",  \* the status it read
         sets    |-> {},      \* the columns of the case that it writes
         chain   |-> "clear", \* the chain status it read
         status  |-> "none",  \* what it decided or computed for the case
         version |-> 0,       \* of the finding it inserts
         judges  |-> 0]       \* version of the finding its judgment names

(* A case may be older than the tables of its provenance.                   *)
Init ==
  /\ provable \in BOOLEAN
  /\ \E v \in Amounts : content = [line |-> 1, value |-> v, fact |-> v]
  /\ \/ status = "none" /\ amount = 0 /\ chainStatus = "clear"
     \/ /\ content.value > 0
        /\ status = "open" /\ amount = content.value /\ chainStatus = "review"
  /\ finding = [version |-> 0, line |-> 0]
  /\ locks = {}
  /\ tx = [t \in Requests |-> Idle]
-----------------------------------------------------------------------------
(* Row locks.                                                              *)

Conflicting(m, n) == "update" \in {m, n} \/ (m = "write" /\ n = "write")

Blockers(t, l) == {k \in locks : k.row = l.row /\ k.by # t /\ Conflicting(k.mode, l.mode)}

(* A review locks one row after another in the order of its statements; the *)
(* order within one flush is the unit of work's, and may be any.            *)
ReviewOrder == [r \in Rows |-> CASE r = "chain" -> 1 [] r = "docs" -> 2
                                 [] r = "case" -> 3 [] OTHER -> 4]
Turn(t) ==
  {l \in tx[t].want : tx[t].kind = "review" =>
                        \A k \in tx[t].want : ReviewOrder[l.row] <= ReviewOrder[k.row]}

Wants(t, row, mode) == [by |-> t, row |-> row, mode |-> mode]

Acquire(t) ==
  \E l \in Turn(t) :
    /\ Blockers(t, l) = {}
    /\ locks' = locks \cup {l}
    /\ tx' = [tx EXCEPT ![t].want = @ \ {l}]
    /\ UNCHANGED <<provable, rows>>

(* Requests that wait for one another.                                      *)
Deadlocked(S) ==
  \A t \in S : tx[t].want # {} /\ \A l \in Turn(t) : \E k \in Blockers(t, l) : k.by \in S

Release(t) ==
  /\ locks' = {k \in locks : k.by # t}
  /\ tx' = [tx EXCEPT ![t] = Idle]

Abort(t) == Release(t) /\ UNCHANGED <<provable, rows>>

At(t, pc) == tx[t].pc = pc /\ tx[t].want = {}

Begin(t, kind, pc, want, read, chain) ==
  /\ tx[t].pc = "idle"
  /\ tx' = [tx EXCEPT ![t] = [Idle EXCEPT !.kind = kind, !.pc = pc, !.want = want,
                                          !.content = read, !.chain = chain]]
  /\ UNCHANGED <<provable, rows, locks>>
-----------------------------------------------------------------------------
(* Analysis, in the transaction that changes the lines.                    *)

(* correct_document_line sets the value of a line and leaves its fact.      *)
CorrectLine(t) ==
  \E v \in Amounts \ {content.value} :
    Begin(t, "correct", "evaluate", {}, [content EXCEPT !.value = v], chainStatus)

(* reprocess_document takes the document out of the chain and replaces its  *)
(* lines; the new ones have new identities and facts.                       *)
UsedLines == {content.line, finding.line} \cup {tx[u].content.line : u \in Requests}

Reprocess(t) ==
  \E n \in 1..MaxLines, v \in Amounts :
    /\ n - 1 \in UsedLines /\ \A m \in UsedLines : m < n
    /\ Begin(t, "reprocess", "evaluate", {Wants(t, "docs", "write")},
             [line |-> n, value |-> v, fact |-> v], chainStatus)

Reanalyse(t) == Begin(t, "reanalyse", "evaluate", {}, content, chainStatus)

Fires(t) == tx[t].content.value > 0

(* A new, open or superseded case is open after the finding, or to be       *)
(* reviewed if its confidence is low; the rules with a provenance contract  *)
(* are confident.  Reprocessing has superseded an undecided case when it    *)
(* took the document out of the chain.                                      *)
Raised == IF provable THEN {"open"} ELSE Undecided

StatusesAfter(t) ==
  CASE ~Fires(t) -> {IF status \in Undecided THEN "superseded" ELSE status}
    [] Fires(t)  -> IF \/ status \in {"none", "open", "superseded"}
                       \/ (tx[t].kind = "reprocess" /\ status \in Undecided)
                    THEN Raised ELSE {status}

(* The columns that the next flush writes, and the locks it needs: a line   *)
(* that is corrected, the link that reprocessing restores, the foreign key  *)
(* of a new row, the case.                                                  *)
Changes(t, s) ==
  {c \in {"status", "amount"} :
     \/ c = "status" /\ \/ s # status
                        \/ tx[t].kind = "reprocess" /\ status \in Undecided
     \/ c = "amount" /\ Fires(t) /\ amount # tx[t].content.value}

FlushLocks(t, s) ==
  {l \in {Wants(t, "docs", "write"), Wants(t, "chain", "share"), Wants(t, "case", "write")} :
     \/ l.row = "docs"  /\ tx[t].kind = "correct"
     \/ l.row = "chain" /\ (tx[t].kind = "reprocess" \/ (Fires(t) /\ status = "none"))
     \/ l.row = "case"  /\ Changes(t, s) # {}}

(* analyze_chain reads the case and computes what becomes of it.            *)
Evaluate(t) ==
  /\ At(t, "evaluate")
  /\ \E s \in StatusesAfter(t) :
       tx' = [tx EXCEPT ![t].pc     = IF Fires(t) THEN "record" ELSE "summarise",
                        ![t].want   = FlushLocks(t, s),
                        ![t].seen   = status,
                        ![t].sets   = Changes(t, s),
                        ![t].status = s]
  /\ UNCHANGED <<provable, rows, locks>>

(* A statement that cannot be executed: a line that is gone, a fingerprint  *)
(* or a version that another transaction has committed.                     *)
LineGone(t)     == tx[t].kind = "correct" /\ content.line # tx[t].content.line
CaseTaken(t)    == Fires(t) /\ tx[t].seen = "none" /\ status # "none"

\* mutant: two findings of one version are let in
VersionTakenByLater(t) == tx[t].version > 0 /\ finding.version > tx[t].version
VersionTaken(t) == tx[t].version > 0 /\ finding.version >= tx[t].version

(* Every input of the finding is a fact read from the document.             *)
Direct(c) == c.value > 0 /\ c.fact = c.value

(* The finding is recorded anew unless the latest one has this support.     *)
RecordFinding(t) ==
  /\ At(t, "record") /\ ~LineGone(t) /\ ~CaseTaken(t)
  /\ LET new == provable /\ Direct(tx[t].content) /\ finding.line # tx[t].content.line
     IN  tx' = [tx EXCEPT ![t].pc      = "summarise",
                          ![t].version = IF new THEN finding.version + 1 ELSE 0,
                          ![t].want    = IF new THEN {Wants(t, "finding", "write"),
                                                      Wants(t, "case", "share")} ELSE {}]
  /\ UNCHANGED <<provable, rows, locks>>

\* mutant: the chain takes the status of the case
ChainStatusOfCase(t) == tx[t].status
ChainStatus(t) == IF tx[t].status \in Undecided THEN "review" ELSE "clear"

Summarise(t) ==
  /\ At(t, "summarise") /\ ~LineGone(t) /\ ~VersionTaken(t)
  /\ tx' = [tx EXCEPT ![t].pc   = "commit",
                      ![t].want = IF ChainStatus(t) # tx[t].chain
                                  THEN {Wants(t, "chain", "write")} ELSE {}]
  /\ UNCHANGED <<provable, rows, locks>>

Refused(t) ==
  /\ \/ At(t, "record") /\ (LineGone(t) \/ CaseTaken(t))
     \/ At(t, "summarise") /\ (LineGone(t) \/ VersionTaken(t))
  /\ Abort(t)

(* The commit of an analysis: an UPDATE has only the columns that differ    *)
(* from what the session had read.                                          *)
CommitAnalysis(t) ==
  /\ At(t, "commit") /\ tx[t].kind \in Analyses
  /\ content' = CASE tx[t].kind = "correct"   -> [content EXCEPT !.value = tx[t].content.value]
                  [] tx[t].kind = "reprocess" -> tx[t].content
                  [] OTHER                    -> content
  /\ status' = IF "status" \in tx[t].sets THEN tx[t].status ELSE status
  /\ amount' = IF "amount" \in tx[t].sets THEN tx[t].content.value ELSE amount
  /\ chainStatus' = IF ChainStatus(t) # tx[t].chain THEN ChainStatus(t) ELSE chainStatus
  /\ finding' = IF tx[t].version > 0
                THEN [version |-> tx[t].version, line |-> tx[t].content.line] ELSE finding
  /\ Release(t)
  /\ UNCHANGED provable
-----------------------------------------------------------------------------
(* Decisions.                                                              *)

(* The latest finding names exactly the current direct facts and the case   *)
(* has their amount.  That the bytes they were read from match as well is   *)
(* any answer: files are no rows, and no lock holds them (see Evidence).    *)
SupportedBy(matches) ==
  /\ provable /\ finding.version > 0 /\ matches
  /\ Direct(content) /\ finding.line = content.line /\ amount = content.value

\* mutant: the case is locked, its support is not
ReviewLockingCaseOnly(t) ==
  /\ status # "none"
  /\ Begin(t, "review", "validate", {Wants(t, "case", "update")}, Idle.content, Idle.chain)

(* The request of a review names a decision; the rows of the support are    *)
(* locked before the case if its rule has a provenance contract.            *)
Review(t) ==
  /\ status # "none"
  /\ Begin(t, "review", "validate",
           {Wants(t, "case", "update")} \cup
             (IF provable THEN {Wants(t, "chain", "update"), Wants(t, "docs", "update")} ELSE {}),
           Idle.content, Idle.chain)

(* The judgment needs a note; without a judgment a provable case is not     *)
(* decided (409).                                                           *)
Validate(t) ==
  /\ At(t, "validate")
  /\ \E d \in Decisions, noted, matches \in BOOLEAN :
       IF provable /\ ~(SupportedBy(matches) /\ noted)
       THEN Abort(t)
       ELSE /\ tx' = [tx EXCEPT ![t].pc     = "commit",
                                ![t].seen   = status,
                                ![t].status = d,
                                ![t].judges = IF provable THEN finding.version ELSE 0]
            /\ UNCHANGED <<provable, rows, locks>>

(* transition_case reads the status without a lock and takes the row with   *)
(* its flush; its judgment is recorded if the support happens to be current.*)
Transition(t) ==
  \E target \in CASE_TRANSITIONS[IF status = "none" THEN "superseded" ELSE status] :
    /\ tx[t].pc = "idle"
    /\ tx' = [tx EXCEPT ![t] = [Idle EXCEPT !.kind = "transition", !.pc = "link",
                                            !.want = {Wants(t, "case", "write")},
                                            !.seen = status, !.status = target]]
    /\ UNCHANGED <<provable, rows, locks>>

LinkJudgment(t) ==
  /\ At(t, "link")
  /\ \E matches \in BOOLEAN :
       tx' = [tx EXCEPT ![t].pc = "commit",
                        ![t].judges = IF SupportedBy(matches) THEN finding.version ELSE 0]
  /\ UNCHANGED <<provable, rows, locks>>

CommitDecision(t) ==
  /\ At(t, "commit") /\ tx[t].kind \in {"review", "transition"}
  /\ status' = IF tx[t].status # tx[t].seen THEN tx[t].status ELSE status
  /\ Release(t)
  /\ UNCHANGED <<provable, content, amount, chainStatus, finding>>
-----------------------------------------------------------------------------
(* PostgreSQL ends a deadlock by aborting one of the requests.              *)
DeadlockVictim(t) ==
  /\ \E S \in SUBSET Requests : t \in S /\ Deadlocked(S)
  /\ Abort(t)

Start(t) == CorrectLine(t) \/ Reprocess(t) \/ Reanalyse(t) \/ Review(t) \/ Transition(t)

Proceed(t) ==
  \/ Evaluate(t) \/ RecordFinding(t) \/ Summarise(t) \/ Refused(t) \/ CommitAnalysis(t)
  \/ Validate(t) \/ LinkJudgment(t) \/ CommitDecision(t)
  \/ DeadlockVictim(t)

Next == \E t \in Requests : Start(t) \/ Acquire(t) \/ Proceed(t)

Spec == Init /\ [][Next]_vars
-----------------------------------------------------------------------------
(* Properties.                                                             *)

States ==
  [pc : {"idle", "evaluate", "record", "summarise", "validate", "link", "commit"},
   kind : {"none", "review", "transition"} \cup Analyses,
   want : SUBSET [by : Requests, row : Rows, mode : Modes],
   content : Contents, seen : Statuses \cup {"none"}, sets : SUBSET {"status", "amount"},
   chain : {"clear", "review"}, status : Statuses \cup {"none"},
   version : Nat, judges : Nat]

TypeOK ==
  /\ provable \in BOOLEAN
  /\ content \in Contents
  /\ status \in Statuses \cup {"none"}
  /\ amount \in Amounts
  /\ chainStatus \in {"clear", "review"}
  /\ finding \in [version : Nat, line : 0..MaxLines]
  /\ locks \subseteq [by : Requests, row : Rows, mode : Modes]
  /\ tx \in [Requests -> States]

Concludes(t, kind) == tx[t].kind = kind /\ tx[t].pc = "commit" /\ tx'[t].pc = "idle"

(* A review of a provable case commits only while the support it validated  *)
(* is still the current one and the status it recorded as the previous one  *)
(* still is the case's, whatever the analyses, corrections and other        *)
(* decisions of the same moment do: the locks of                            *)
(* lock_p1_support_for_update and _locked_case_query hold until the commit. *)
ReviewsRestOnCurrentSupport ==
  [][\A t \in Requests : Concludes(t, "review") /\ provable =>
       /\ tx[t].judges = finding.version /\ finding.line = content.line
       /\ Direct(content) /\ amount = content.value
       /\ tx[t].seen = status]_vars

(* A finding that is recorded has the version after the latest one and      *)
(* other support than it has, also when two analyses record at a time       *)
(* (record_finding with uq_prov_finding_version).                           *)
VersionsAdvance ==
  [][\A t \in Requests : (\E k \in Analyses : Concludes(t, k)) /\ tx[t].version > 0 =>
       /\ tx[t].version = finding.version + 1
       /\ finding.line # tx[t].content.line]_vars

(* A review and a re-analysis do not wait for each other's rows: the order  *)
(* of lock_p1_support_for_update is chosen to keep them apart.              *)
ReviewsDoNotDeadlock ==
  \A t, u \in Requests :
    tx[t].kind = "review" /\ tx[u].kind = "reanalyse" => ~Deadlocked({t, u})
=============================================================================
