------------------------------ MODULE Readings ------------------------------
(***************************************************************************)
(* One document that is read again: retries of its acquisition, requests   *)
(* and jobs that reprocess it, and reviewers who classify its acquisition  *)
(* by hand, under READ COMMITTED (app/rc15_api.py, app/services/rc15.py,   *)
(* app/services/ingestion.py, app/services/jobs.py).                       *)
(*                                                                         *)
(* What a transaction deletes, inserts or updates it holds until it ends;  *)
(* a DELETE removes rows it saw when it began and that are still there     *)
(* when it gets them; an UPDATE carries the columns that differ from the   *)
(* row as it was read.  Lines and links are known by the reading they come *)
(* from.  A state "not_acquired" stands also for blocked and out of scope. *)
(***************************************************************************)
EXTENDS Naturals, FiniteSets

CONSTANTS Readers,    \* requests and jobs that read the document again, each once
          Reviewers   \* requests that classify it, each once

VARIABLES
  document,  \* the parse_status column of the document
  link,      \* its link to a chain, if it has one
  lines,     \* the readings its lines come from
  record,    \* its intake record, if it has one: a state, and whether it is automatic
  tx,        \* the transactions
  verdicts,  \* the states reviewers have given it
  loose      \* the readings that replaced the lines while another one did, without
             \* having taken the document out of its chain

vars == <<document, link, lines, record, tx, verdicts, loose>>

Read      == {"parsed", "review_required"}
Statuses  == Read \cup {"failed"}
States    == {"acquired", "review_required", "not_acquired"}
Records   == [state : States, automatic : BOOLEAN]
Sources   == Readers \cup {"original"}

Idle == [pc |-> "idle", kind |-> "none", status |-> "failed", record |-> {}, link |-> {},
         rows |-> {}, gone |-> {}, took |-> FALSE, outcome |-> "failed", holds |-> {}]

(* A document that could not be read at upload has neither lines nor link;  *)
(* one that could be is in a chain unless it was detached.                  *)
Init ==
  /\ document \in {"failed", "parsed"}
  /\ lines = IF document = "failed" THEN {} ELSE {"original"}
  /\ link \in IF document = "failed" THEN {{}} ELSE {{}, {"original"}}
  /\ record = {}
  /\ tx = [t \in Readers \cup Reviewers |-> Idle]
  /\ verdicts = {}
  /\ loose = {}

-----------------------------------------------------------------------------
(* What the classification says without a record, and what the list of     *)
(* acquisitions shows.                                                      *)
Automatic(status) ==
  CASE status = "parsed"          -> "acquired"
    [] status = "review_required" -> "review_required"
    [] status = "failed"          -> "not_acquired"

Shown == IF record = {} THEN {Automatic(document)} ELSE {entry.state : entry \in record}

(* The columns that differ from the record as it was read.                  *)
Written(seen, new) ==
  {[column \in {"state", "automatic"} |->
      IF seen[column] # new[column] THEN new[column] ELSE entry[column]] : entry \in record}

(* No other transaction holds it.                                           *)
Free(t, what) == \A other \in DOMAIN tx \ {t} : what \notin tx[other].holds
Hold(t, what) == tx[t].holds \cup {what}

End(t) == tx' = [tx EXCEPT ![t] = [Idle EXCEPT !.pc = "ended"]]

(* What a reading does once the file is parsed.  The deletion of the links  *)
(* is flushed before the lines are deleted.                                 *)
\* mutant: the lines are deleted first
LinesFirst == <<"snapshot", "erase", "links", "unlink", "write", "place", "commit">>
Order      == <<"links", "unlink", "snapshot", "erase", "write", "place", "commit">>

(* It has seen the lines it will delete and may still insert its own.       *)
Replacing(t) == tx[t].pc \in {"erase", "write", "place", "commit"}

At(t, pc)  == tx[t].pc = pc
NextPc(pc) == LET i == CHOOSE k \in DOMAIN Order : Order[k] = pc IN Order[i + 1]

-----------------------------------------------------------------------------
(* Reading again.                                                          *)

(* The document is read, and by a retry its record, to count the attempt.   *)
Begin(r) ==
  /\ At(r, "idle")
  /\ \E kind \in {"retry", "reprocess"} :
       tx' = [tx EXCEPT ![r].pc = "parse", ![r].kind = kind, ![r].status = document,
                        ![r].record = IF kind = "retry" THEN record ELSE {}]
  /\ UNCHANGED <<document, link, lines, record, verdicts, loose>>

Parse(r) ==
  /\ At(r, "parse")
  /\ \E outcome \in Read : tx' = [tx EXCEPT ![r].pc = Order[1], ![r].outcome = outcome]
  /\ UNCHANGED <<document, link, lines, record, verdicts, loose>>

(* It cannot be: a retry commits its verdict, on the record it has read or  *)
(* finds now, or on a new one; a reprocessing commits a message only.       *)
ParseFails(r) ==
  LET verdict == [state |-> "not_acquired", automatic |-> TRUE]
      seen    == IF tx[r].record = {} THEN record ELSE tx[r].record
  IN
  /\ At(r, "parse")
  /\ IF tx[r].kind = "retry"
       THEN /\ Free(r, "record")
            /\ record' = IF seen = {} THEN {verdict}
                         ELSE UNION {Written(entry, verdict) : entry \in seen}
       ELSE UNCHANGED record
  /\ End(r)
  /\ UNCHANGED <<document, link, lines, verdicts, loose>>

ReadLinks(r) ==
  /\ At(r, "links")
  /\ tx' = [tx EXCEPT ![r].pc = NextPc(@), ![r].link = link]
  /\ UNCHANGED <<document, link, lines, record, verdicts, loose>>

(* The flush writes the count of the attempt, if there is a record of it,   *)
(* and deletes the link.  One that somebody else deletes is waited for; it  *)
(* may then be gone.                                                        *)
Unlink(r) ==
  LET took    == tx[r].link # {} /\ link = tx[r].link
      counted == IF tx[r].record = {} THEN {} ELSE {"record"}
  IN
  /\ At(r, "unlink")
  /\ counted # {} => Free(r, "record")
  /\ tx[r].link # {} => Free(r, "link")
  /\ tx' = [tx EXCEPT ![r].pc = NextPc(@), ![r].took = took,
                      ![r].holds = counted \cup IF took THEN {"link"} ELSE {}]
  /\ UNCHANGED <<document, link, lines, record, verdicts, loose>>

(* The lines to delete are those of this moment ...                         *)
Snapshot(r) ==
  /\ At(r, "snapshot")
  /\ tx' = [tx EXCEPT ![r].pc = NextPc(@), ![r].rows = lines]
  /\ UNCHANGED <<document, link, lines, record, verdicts, loose>>

(* ... and are deleted if they are still there after the others that delete *)
(* them have ended.                                                         *)
Erase(r) ==
  /\ At(r, "erase")
  /\ \A other \in Readers \ {r} : tx[r].rows \cap tx[other].gone = {}
  /\ tx' = [tx EXCEPT ![r].pc = NextPc(@), ![r].gone = tx[r].rows \cap lines]
  /\ UNCHANGED <<document, link, lines, record, verdicts, loose>>

(* The document is updated if anything of it differs from what was read.    *)
Write(r) ==
  /\ At(r, "write")
  /\ \E differs \in BOOLEAN :
       /\ tx[r].outcome # tx[r].status => differs
       /\ differs => Free(r, "document")
       /\ tx' = [tx EXCEPT ![r].pc = NextPc(@),
                           ![r].holds = IF differs THEN Hold(r, "document") ELSE @]
  /\ UNCHANGED <<document, link, lines, record, verdicts, loose>>

(* It is placed in a chain: a link to that chain is inserted unless there   *)
(* is one already; if the document is in another chain, Fail.               *)
Place(r) ==
  LET inserts == tx[r].took \/ link = {}
  IN
  /\ At(r, "place")
  /\ inserts => Free(r, "link")
  /\ tx' = [tx EXCEPT ![r].pc = NextPc(@), ![r].link = IF inserts THEN {r} ELSE {},
                      ![r].holds = IF inserts THEN Hold(r, "link") ELSE @]
  /\ UNCHANGED <<document, link, lines, record, verdicts, loose>>

(* The record, if there is one, says what the reading has found.            *)
Commit(r) ==
  LET verdict == [state |-> Automatic(tx[r].outcome), automatic |-> TRUE]
      seen    == IF tx[r].record = {} THEN record ELSE tx[r].record
  IN
  /\ At(r, "commit")
  /\ IF tx[r].kind = "retry" /\ seen # {}
       THEN /\ Free(r, "record")
            /\ record' = UNION {Written(entry, verdict) : entry \in seen}
       ELSE UNCHANGED record
  /\ document' = IF tx[r].outcome # tx[r].status THEN tx[r].outcome ELSE document
  /\ lines' = (lines \ tx[r].gone) \cup {r}
  /\ link' = IF tx[r].link # {} THEN tx[r].link ELSE link
  /\ loose' = IF ~tx[r].took /\ (\/ tx[r].rows # lines
                               \/ \E other \in Readers \ {r} : Replacing(other))
              THEN loose \cup {r} ELSE loose
  /\ End(r)
  /\ UNCHANGED verdicts

(* An error, a conflict or a deadlock: everything is rolled back.           *)
Fail(t) ==
  /\ tx[t].pc \notin {"idle", "ended"}
  /\ End(t)
  /\ UNCHANGED <<document, link, lines, record, verdicts, loose>>

-----------------------------------------------------------------------------
(* Classifying by hand.                                                    *)
ReadRecord(t) ==
  /\ At(t, "idle")
  /\ tx' = [tx EXCEPT ![t].pc = "classify", ![t].record = record]
  /\ UNCHANGED <<document, link, lines, record, verdicts, loose>>

(* A second record of the document is refused.                              *)
Classify(t) ==
  /\ At(t, "classify")
  /\ Free(t, "record")
  /\ tx[t].record = {} => record = {}
  /\ \E state \in States :
       LET verdict == [state |-> state, automatic |-> FALSE]
       IN /\ record' = IF tx[t].record = {} THEN {verdict}
                       ELSE UNION {Written(entry, verdict) : entry \in tx[t].record}
          /\ verdicts' = verdicts \cup {state}
  /\ End(t)
  /\ UNCHANGED <<document, link, lines, loose>>

ReadAgain(r) ==
  \/ Begin(r) \/ Parse(r) \/ ParseFails(r) \/ ReadLinks(r) \/ Unlink(r) \/ Snapshot(r)
  \/ Erase(r) \/ Write(r) \/ Place(r) \/ Commit(r)

Next ==
  \/ \E r \in Readers : ReadAgain(r)
  \/ \E t \in Reviewers : ReadRecord(t) \/ Classify(t)
  \/ \E t \in Readers \cup Reviewers : Fail(t)

Spec == Init /\ [][Next]_vars
-----------------------------------------------------------------------------
TypeOK ==
  /\ document \in Statuses
  /\ link \subseteq Sources /\ Cardinality(link) <= 1
  /\ lines \subseteq Sources
  /\ record \subseteq Records /\ Cardinality(record) <= 1
  /\ verdicts \subseteq States
  /\ loose \subseteq Readers

(* Readings that have taken the document out of its chain replace its lines *)
(* one after the other, and one that finds it taken waits: its lines are    *)
(* those of one reading in any overlap, unless a reading replaced them      *)
(* together with another one and without a link to hold.                    *)
ReadingsReplace == loose = {} => Cardinality(lines) <= 1

(* A document has lines exactly if it could be read, and one that could not *)
(* is shown as acquired only if a reviewer has said so.                     *)
FailuresAreShown ==
  /\ document \in Read <=> lines # {}
  /\ document = "failed" => Shown \subseteq (States \ {"acquired"}) \cup verdicts

(* However readings overlap, the document has the lines of one of them.     *)
OneReading == Cardinality(lines) <= 1
=============================================================================
