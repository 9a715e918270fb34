------------------------------ MODULE Batches -------------------------------
(***************************************************************************)
(* An archive of documents read as one job, or by one request: each member *)
(* is ingested in a savepoint of its own, and all of them, the report and  *)
(* the end of the job are one transaction (app/services/jobs.py,           *)
(* app/api.py, app/services/ingestion.py).  Another upload brings a member *)
(* of the archive at the same time.                                        *)
(*                                                                         *)
(* A content is stored under its hash and its name, which the other upload *)
(* shares; the unique index lets one uncommitted row of a content in, and  *)
(* a second insert waits for the end of the first (READ COMMITTED).        *)
(***************************************************************************)
EXTENDS Naturals, Sequences

CONSTANTS
  Contents,     \* contents of files
  Archives,     \* archives: sequences of members, each Foreign or a content
  Foreign,      \* a member of an unsupported format or with an unsafe path
  Unreadable,   \* the contents that the parsers refuse
  Rival,        \* the content the other upload brings
  MaxAttempts   \* settings.worker_max_attempts

VARIABLES
  kind,      \* "job" or "request"
  archive,   \* the members
  held,      \* the archive's file is still there
  job,       \* its status and attempts
  rows,      \* the committed documents: their status and who inserted them
  originals, \* the contents with a file in the storage
  run,       \* the transaction of the batch
  other      \* that of the other upload

vars == <<kind, archive, held, job, rows, originals, run, other>>

NoRow == [status |-> "none", by |-> "nobody"]
Quiet == [pc |-> "idle", made |-> [c \in Contents |-> NoRow], report |-> <<>>]

Init ==
  /\ kind \in {"job", "request"}
  /\ archive \in Archives
  /\ held = TRUE
  /\ job = [status |-> "queued", attempts |-> 0, report |-> <<>>]
  /\ rows = [c \in Contents |-> NoRow]
  /\ originals = {}
  /\ run = Quiet
  /\ other = Quiet

Member == archive[Len(run.report) + 1]

(* What a statement of the transaction t sees of a content; whether t has   *)
(* no uncommitted row of it that the other one would wait for.              *)
Sees(t, c)  == IF t.made[c] = NoRow THEN rows[c] ELSE t.made[c]
Vacant(t, c) == t.made[c] = NoRow

(* A parser refuses a content, or a file that is no longer there.           *)
Verdict(c) == IF c \in Unreadable \/ c \notin originals THEN "failed" ELSE "parsed"

-----------------------------------------------------------------------------
(* The batch.                                                              *)

(* The job is claimed, or the request arrives, and the archive is opened.   *)
Start ==
  /\ run.pc = "idle"
  /\ job.status = "queued"
  /\ held
  /\ job' = [job EXCEPT !.status = "running", !.attempts = @ + 1]
  /\ run' = [Quiet EXCEPT !.pc = "members"]
  /\ UNCHANGED <<kind, archive, held, rows, originals, other>>

Report(entry) == [run EXCEPT !.pc = "members", !.report = Append(@, entry)]

(* A member that is not ingested at all.                                    *)
Skip ==
  /\ run.pc = "members" /\ Len(run.report) < Len(archive)
  /\ Member = Foreign
  /\ run' = Report("skipped")
  /\ UNCHANGED <<kind, archive, held, job, rows, originals, other>>

(* A content that has a row, here or committed, is a duplicate; otherwise   *)
(* the file is copied to its place in the storage.                          *)
Look ==
  /\ run.pc = "members" /\ Len(run.report) < Len(archive)
  /\ Member # Foreign
  /\ IF Sees(run, Member) # NoRow
       THEN run' = Report("duplicate") /\ UNCHANGED originals
       ELSE run' = [run EXCEPT !.pc = "insert"] /\ originals' = originals \cup {Member}
  /\ UNCHANGED <<kind, archive, held, job, rows, other>>

(* A file that the scanner or the check of its shape refuses has no row.    *)
Refuse ==
  /\ run.pc = "members" /\ Len(run.report) < Len(archive)
  /\ Member # Foreign
  /\ run' = Report("failed")
  /\ UNCHANGED <<kind, archive, held, job, rows, originals, other>>

(* The row is inserted before the file is read.  If another one has been    *)
(* committed meanwhile, the savepoint is rolled back and the file stays.    *)
Insert ==
  /\ run.pc = "insert"
  /\ Vacant(other, Member)
  /\ run' = IF rows[Member] # NoRow THEN Report("failed")
            ELSE [run EXCEPT !.pc = "parse",
                             !.made[Member] = [status |-> "processing", by |-> "batch"]]
  /\ UNCHANGED <<kind, archive, held, job, rows, originals, other>>

(* The member is read, or refused by the parser: its row says so.           *)
Parse ==
  /\ run.pc = "parse"
  /\ run' = [Report(IF Verdict(Member) = "failed" THEN "parse_failed" ELSE "ingested")
               EXCEPT !.made[Member].status = Verdict(Member)]
  /\ UNCHANGED <<kind, archive, held, job, rows, originals, other>>

(* Anything else is raised: the stored file is unlinked and the savepoint   *)
(* rolled back, which lets the other upload's insert pass.                  *)
Raise ==
  /\ run.pc = "parse"
  /\ run' = [run EXCEPT !.pc = "unlinked"]
  /\ originals' = originals \ {Member}
  /\ UNCHANGED <<kind, archive, held, job, rows, other>>

\* mutant: the savepoint is not rolled back
KeepSavepoint ==
  /\ run.pc = "unlinked"
  /\ run' = Report("failed")
  /\ UNCHANGED <<kind, archive, held, job, rows, originals, other>>

RollBackMember ==
  /\ run.pc = "unlinked"
  /\ run' = [Report("failed") EXCEPT !.made[Member] = NoRow]
  /\ UNCHANGED <<kind, archive, held, job, rows, originals, other>>

(* Every member has an entry: the end of the job is flushed and the archive *)
(* unlinked, by the job before the commit and by the request after it.      *)
Finish ==
  /\ run.pc = "members" /\ Len(run.report) = Len(archive)
  /\ run' = [run EXCEPT !.pc = "finished"]
  /\ held' = (held /\ kind = "request")
  /\ UNCHANGED <<kind, archive, job, rows, originals, other>>

Merged(t) == [c \in Contents |-> Sees(t, c)]

Commit ==
  /\ run.pc = "finished"
  /\ rows' = Merged(run)
  /\ job' = [job EXCEPT !.status = "completed", !.report = run.report]
  /\ held' = FALSE
  /\ run' = Quiet
  /\ UNCHANGED <<kind, archive, originals, other>>

(* The transaction is rolled back: by an error outside of the members, an   *)
(* archive that is refused or the death of the process.  A job is queued    *)
(* again as long as it has attempts; without its archive they all fail.  A  *)
(* request removes its archive.                                             *)
RollBack ==
  /\ run.pc # "idle"
  /\ job' = [job EXCEPT !.status =
               IF kind = "job" /\ held /\ job.attempts < MaxAttempts THEN "queued" ELSE "failed"]
  /\ held' = (held /\ kind = "job")
  /\ run' = Quiet
  /\ UNCHANGED <<kind, archive, rows, originals, other>>

-----------------------------------------------------------------------------
(* The other upload, by the same steps.                                    *)
OtherLook ==
  /\ other.pc = "idle"
  /\ rows[Rival] = NoRow
  /\ other' = [other EXCEPT !.pc = "insert"]
  /\ originals' = originals \cup {Rival}
  /\ UNCHANGED <<kind, archive, held, job, rows, run>>

OtherInsert ==
  /\ other.pc = "insert"
  /\ Vacant(run, Rival)
  /\ other' = IF rows[Rival] # NoRow THEN Quiet
              ELSE [other EXCEPT !.pc = "parse",
                                 !.made[Rival] = [status |-> "processing", by |-> "upload"]]
  /\ UNCHANGED <<kind, archive, held, job, rows, originals, run>>

OtherParse ==
  /\ other.pc = "parse"
  /\ other' = [other EXCEPT !.pc = "parsed", !.made[Rival].status = Verdict(Rival)]
  /\ UNCHANGED <<kind, archive, held, job, rows, originals, run>>

OtherRaises ==
  /\ other.pc = "parse"
  /\ other' = [other EXCEPT !.pc = "raised"]
  /\ originals' = originals \ {Rival}
  /\ UNCHANGED <<kind, archive, held, job, rows, run>>

OtherEnds ==
  /\ \/ other.pc = "parsed" /\ rows' = Merged(other)
     \/ other.pc # "idle" /\ UNCHANGED rows
  /\ other' = Quiet
  /\ UNCHANGED <<kind, archive, held, job, originals, run>>

Next ==
  \/ Start \/ Skip \/ Look \/ Refuse \/ Insert \/ Parse \/ Raise \/ RollBackMember \/ Finish
  \/ Commit \/ RollBack
  \/ OtherLook \/ OtherInsert \/ OtherParse \/ OtherRaises \/ OtherEnds

Spec == Init /\ [][Next]_vars
-----------------------------------------------------------------------------
Entries(c, outcomes) ==
  {i \in DOMAIN job.report : archive[i] = c /\ job.report[i] \in outcomes}

(* What a completed batch reports is what it left: every member has an      *)
(* entry, a member reported as ingested, refused or a duplicate has the row *)
(* that says so, and a row of the batch was reported exactly once.          *)
ReportsAreTrue ==
  job.status = "completed" =>
    /\ DOMAIN job.report = DOMAIN archive
    /\ \A c \in Contents :
         /\ Entries(c, {"ingested"}) # {}     => rows[c] = [status |-> "parsed", by |-> "batch"]
         /\ Entries(c, {"parse_failed"}) # {} => rows[c] = [status |-> "failed", by |-> "batch"]
         /\ Entries(c, {"duplicate"}) # {}    => rows[c] # NoRow
         /\ rows[c].by = "batch" <=> Entries(c, {"ingested", "parse_failed"}) # {}

(* A batch that has not completed has left no document behind.              *)
AllOrNothing ==
  job.status # "completed" => \A c \in Contents : rows[c].by # "batch"

(* What is committed as read has its original, whatever the two raise.      *)
OriginalsStay == \A c \in Contents : rows[c].status = "parsed" => c \in originals

(* No document is left in the middle of its ingestion.                      *)
NoneInProgress == \A c \in Contents : rows[c].status # "processing"

BatchesAreTrue == ReportsAreTrue /\ AllOrNothing /\ OriginalsStay /\ NoneInProgress
=============================================================================
