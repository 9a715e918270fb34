----------------------------- MODULE Practices -----------------------------
(***************************************************************************)
(* A practice, the documents of its chain and their originals: uploads     *)
(* that store a file before the row, deletions that move the files before  *)
(* the commit, judgments that seal a copy of the bytes in the database and *)
(* downloads that serve them.                                              *)
(*                                                                         *)
(* The database undoes a transaction, the file system does not.  A         *)
(* document is identified by the hash of its content, which is also where  *)
(* its file is stored.  A file is "good" if it has that hash; somebody     *)
(* with access to the storage may alter it.                                *)
(***************************************************************************)
EXTENDS Naturals, FiniteSets

CONSTANTS
  Requests,   \* requests that are at work at a time (a bound)
  Deleters,   \* those that may delete the practice
  Documents   \* contents that are uploaded (a bound)

VARIABLES
  practice,  \* rc15_practices.status, "none" before it is created
  chained,   \* it has a chain (chain_id)
  inPilot,   \* a pilot that is not archived contains it
  row,       \* per document: "none", "linked" to the chain, or "elsewhere"
  parsed,    \* documents that were read without a parse error
  file,      \* per document: what is at storage_path
  staged,    \* per document: what is in the staging directory of the deletion
  stranded,  \* history: documents whose file a deletion that died has left staged
  erased,    \* history: those of them whose file a deletion that failed has removed
  snapshot,  \* per document: its sealed evidence
  tx

rows == <<practice, chained, inPilot, row, parsed, snapshot>>
disk == <<file, staged, stranded, erased>>
vars == <<rows, disk, tx>>

Bytes == {"none", "good", "altered"}

Idle == [kind |-> "idle", pc |-> "idle",
         docs  |-> {},       \* the document, or those that the deletion listed
         moved |-> {},       \* files that it has moved
         saw   |-> "none",   \* the status, bytes or snapshot that it read
         sets  |-> "none"]   \* the status that it writes, the bytes that it answers

Init ==
  /\ practice = "none" /\ chained = TRUE /\ inPilot = FALSE
  /\ row = [d \in Documents |-> "none"]
  /\ parsed = {}
  /\ file = [d \in Documents |-> "none"]
  /\ staged = [d \in Documents |-> "none"]
  /\ stranded = {} /\ erased = {}
  /\ snapshot = [d \in Documents |-> "none"]
  /\ tx = [t \in Requests |-> Idle]

Begin(t, kind, pc, docs, saw, sets) ==
  /\ tx[t].pc = "idle"
  /\ tx' = [tx EXCEPT ![t] = [Idle EXCEPT !.kind = kind, !.pc = pc, !.docs = docs,
                                          !.saw = saw, !.sets = sets]]

At(t, kind, pc) == tx[t].kind = kind /\ tx[t].pc = pc

Goto(t, pc) == tx' = [tx EXCEPT ![t].pc = pc]

\* mutant: what the request has read is kept for the next one
EndKeeping(t) == tx' = [tx EXCEPT ![t].pc = "idle"]
End(t) == tx' = [tx EXCEPT ![t] = Idle]
-----------------------------------------------------------------------------
(* Upload of a content, ingest_path.                                       *)

(* A content that has a row is a duplicate and changes nothing.             *)
Upload(t, d) ==
  /\ row[d] = "none"
  /\ Begin(t, "upload", "copy", {d}, "none", "none")
  /\ UNCHANGED <<rows, disk>>

CopyFile(t) ==
  /\ At(t, "upload", "copy")
  /\ file' = [d \in Documents |-> IF d \in tx[t].docs THEN "good" ELSE file[d]]
  /\ Goto(t, "insert")
  /\ UNCHANGED <<rows, staged, stranded, erased>>

(* The insert waits for another of the same hash that is not committed, and *)
(* is refused by one that is; the file stays then.                          *)
Inserted(u) == tx[u].kind = "upload" /\ tx[u].pc \in {"parse", "commit", "fail"}

InsertRow(t) ==
  /\ At(t, "upload", "insert")
  /\ \A u \in Requests : Inserted(u) => tx[u].docs # tx[t].docs
  /\ IF \E d \in tx[t].docs : row[d] # "none" THEN End(t) ELSE Goto(t, "parse")
  /\ UNCHANGED <<rows, disk>>

(* A file that cannot be opened is a parse error for the JSON parser and an *)
(* exception for the others.                                                *)
Parses(t, r) ==
  /\ At(t, "upload", "parse")
  /\ r = "parsed" => \A d \in tx[t].docs : file[d] # "none"

Parse(t) ==
  /\ \E r \in {"parsed", "failed"} :
       Parses(t, r) /\ tx' = [tx EXCEPT ![t].pc = "commit", ![t].sets = r]
  /\ UNCHANGED <<rows, disk>>

(* Another exception while the document is parsed, matched or analysed.     *)
UploadRaises(t) ==
  /\ At(t, "upload", "parse")
  /\ file' = [d \in Documents |-> IF d \in tx[t].docs THEN "none" ELSE file[d]]
  /\ Goto(t, "fail")
  /\ UNCHANGED <<rows, staged, stranded, erased>>

(* The caller rolls back; nobody removes the file if the commit fails.      *)
UploadRollsBack(t) ==
  /\ \/ At(t, "upload", "fail")
     \/ At(t, "upload", "commit")
  /\ End(t)
  /\ UNCHANGED <<rows, disk>>

CommitUpload(t) ==
  /\ At(t, "upload", "commit")
  /\ \E place \in {"elsewhere"} \cup (IF chained THEN {"linked"} ELSE {}) :
       row' = [d \in Documents |-> IF d \in tx[t].docs THEN place ELSE row[d]]
  /\ parsed' = IF tx[t].sets = "parsed" THEN parsed \cup tx[t].docs ELSE parsed
  /\ End(t)
  /\ UNCHANGED <<practice, chained, inPilot, snapshot, disk>>

(* A reprocessing opens the stored file.                                    *)
Reprocess(d) ==
  /\ row[d] # "none" /\ file[d] # "none"
  /\ parsed' = parsed \cup {d}
  /\ UNCHANGED <<practice, chained, inPilot, row, snapshot, disk, tx>>

(* Documents are attached to the chain and detached from it.                *)
Relink(d) ==
  /\ chained
  /\ \/ row[d] = "linked"    /\ row' = [row EXCEPT ![d] = "elsewhere"]
     \/ row[d] = "elsewhere" /\ row' = [row EXCEPT ![d] = "linked"]
  /\ UNCHANGED <<practice, chained, inPilot, parsed, snapshot, disk, tx>>
-----------------------------------------------------------------------------
(* The life of the practice.                                               *)

CreatePractice ==
  /\ practice = "none"
  /\ practice' = "active"
  /\ UNCHANGED <<chained, inPilot, row, parsed, snapshot, disk, tx>>

(* add_practice_to_pilot, and the archiving of the pilot.                   *)
Enlist ==
  /\ \/ ~inPilot /\ practice \in {"active", "archived"} /\ inPilot' = TRUE
     \/ inPilot /\ inPilot' = FALSE
  /\ UNCHANGED <<practice, chained, row, parsed, snapshot, disk, tx>>

(* The status is read without a lock and written if it differs.             *)
SetStatus(t) ==
  /\ practice \in {"active", "archived"}
  /\ \E s \in {"active", "archived"} : Begin(t, "status", "commit", {}, practice, s)
  /\ UNCHANGED <<rows, disk>>

CommitStatus(t) ==
  /\ At(t, "status", "commit")
  /\ practice' = IF tx[t].sets # tx[t].saw THEN tx[t].sets ELSE practice
  /\ End(t)
  /\ UNCHANGED <<chained, inPilot, row, parsed, snapshot, disk>>
-----------------------------------------------------------------------------
(* Deletion, delete_practice_transaction.                                  *)

Delete(t) ==
  /\ t \in Deleters
  /\ practice \in {"active", "archived"} /\ chained /\ ~inPilot
  /\ Begin(t, "delete", "move", {d \in Documents : row[d] = "linked"}, "none", "none")
  /\ UNCHANGED <<rows, disk>>

MoveFile(t) ==
  /\ At(t, "delete", "move")
  /\ \E d \in {e \in tx[t].docs \ tx[t].moved : file[e] # "none"} :
       /\ staged' = [staged EXCEPT ![d] = file[d]]
       /\ file' = [file EXCEPT ![d] = "none"]
       /\ stranded' = stranded \ {d} /\ erased' = erased \ {d}
       /\ tx' = [tx EXCEPT ![t].moved = @ \cup {d}]
  /\ UNCHANGED rows

(* The listed documents go, wherever they are linked by now, with their     *)
(* snapshots; others of the chain stay without one.                         *)
CommitDeletion(t) ==
  /\ At(t, "delete", "move")
  /\ \A d \in tx[t].docs \ tx[t].moved : file[d] = "none"
  /\ row' = [d \in Documents |-> IF d \in tx[t].docs THEN "none"
                                 ELSE IF row[d] = "linked" THEN "elsewhere" ELSE row[d]]
  /\ parsed' = parsed \ tx[t].docs
  /\ snapshot' = [d \in Documents |-> IF d \in tx[t].docs THEN "none" ELSE snapshot[d]]
  /\ practice' = "deleted" /\ chained' = FALSE
  /\ stranded' = stranded \ tx[t].docs /\ erased' = erased \ tx[t].docs
  /\ Goto(t, "unlink")
  /\ UNCHANGED <<inPilot, file, staged>>

(* A failure puts the files back where they were and removes the directory, *)
(* with whatever an earlier deletion has left in it.                        *)
\* mutant: the directory is removed before the files are put back
PutNothingBack(t) == [d \in Documents |-> file[d]]
PutBack(t) ==
  [d \in Documents |-> IF d \in tx[t].moved /\ staged[d] # "none" THEN staged[d] ELSE file[d]]

DeletionFails(t) ==
  /\ At(t, "delete", "move")
  /\ file' = PutBack(t)
  /\ staged' = [d \in Documents |-> "none"]
  /\ erased' = erased \cup stranded /\ stranded' = {}
  /\ End(t)
  /\ UNCHANGED rows

UnlinkStaged(t) ==
  /\ At(t, "delete", "unlink")
  /\ staged' = [d \in Documents |-> IF d \in tx[t].moved THEN "none" ELSE staged[d]]
  /\ End(t)
  /\ UNCHANGED <<rows, file, stranded, erased>>
-----------------------------------------------------------------------------
(* Evidence, evidence_integrity.py.                                        *)

(* A judgment of a finding verifies the snapshot of the document or seals   *)
(* one: the bytes are read once, verified and inserted.                     *)
Qualify(t, d) ==
  /\ row[d] # "none" /\ snapshot[d] = "none" /\ file[d] = "good"
  /\ Begin(t, "qualify", "seal", {d}, file[d], "none")
  /\ UNCHANGED <<rows, disk>>

\* mutant: the bytes are read again for the insert
PayloadReadAgain(t, d) == file[d]
Payload(t, d) == tx[t].saw

(* The snapshot is committed with the judgment, or neither is: a document   *)
(* that is gone or sealed refuses it.                                       *)
Seal(t) ==
  /\ At(t, "qualify", "seal")
  /\ \E d \in tx[t].docs :
       IF row[d] # "none" /\ snapshot[d] = "none"
       THEN \E s \in {Payload(t, d), "none"} : snapshot' = [snapshot EXCEPT ![d] = s]
       ELSE UNCHANGED snapshot
  /\ End(t)
  /\ UNCHANGED <<practice, chained, inPilot, row, parsed, disk>>

(* A download serves a snapshot that verifies; storage is asked only if     *)
(* there is no snapshot.  "none" stands for 410.                            *)
Verified(bytes) == IF bytes = "good" THEN bytes ELSE "none"

Download(t, d) ==
  /\ row[d] # "none"
  /\ Begin(t, "download", IF snapshot[d] # "none" THEN "answer" ELSE "read", {d},
           snapshot[d], Verified(snapshot[d]))
  /\ UNCHANGED <<rows, disk>>

ReadStorage(t) ==
  /\ At(t, "download", "read")
  /\ tx' = [tx EXCEPT ![t].pc   = "answer",
                      ![t].sets = CHOOSE b \in Bytes : \E d \in tx[t].docs : b = Verified(file[d])]
  /\ UNCHANGED <<rows, disk>>

Answer(t) == At(t, "download", "answer") /\ End(t) /\ UNCHANGED <<rows, disk>>
-----------------------------------------------------------------------------
(* Somebody writes to the storage.                                         *)
Alter(d) ==
  /\ file[d] = "good"
  /\ file' = [file EXCEPT ![d] = "altered"]
  /\ UNCHANGED <<rows, staged, stranded, erased, tx>>

(* The process of a request dies: its transaction is undone, and the files  *)
(* that a deletion has moved stay in the staging directory, as do those not *)
(* put back when putting one back raises.                                   *)
Crash(t) ==
  /\ tx[t].pc # "idle"
  /\ stranded' = IF At(t, "delete", "move") THEN stranded \cup tx[t].moved ELSE stranded
  /\ End(t)
  /\ UNCHANGED <<rows, file, staged, erased>>

Next ==
  \/ CreatePractice \/ Enlist
  \/ \E d \in Documents : Relink(d) \/ Reprocess(d) \/ Alter(d)
  \/ \E t \in Requests, d \in Documents : Upload(t, d) \/ Qualify(t, d) \/ Download(t, d)
  \/ \E t \in Requests :
       \/ CopyFile(t) \/ InsertRow(t) \/ Parse(t) \/ UploadRaises(t)
       \/ UploadRollsBack(t) \/ CommitUpload(t)
       \/ SetStatus(t) \/ CommitStatus(t)
       \/ Delete(t) \/ MoveFile(t) \/ CommitDeletion(t) \/ DeletionFails(t) \/ UnlinkStaged(t)
       \/ Seal(t) \/ ReadStorage(t) \/ Answer(t)
       \/ Crash(t)

Spec == Init /\ [][Next]_vars
-----------------------------------------------------------------------------
(* Properties.                                                             *)

TypeOK ==
  /\ practice \in {"none", "active", "archived", "deleted"}
  /\ chained \in BOOLEAN /\ inPilot \in BOOLEAN
  /\ row \in [Documents -> {"none", "linked", "elsewhere"}]
  /\ parsed \subseteq Documents
  /\ file \in [Documents -> Bytes] /\ staged \in [Documents -> Bytes]
  /\ stranded \subseteq Documents /\ erased \subseteq Documents
  /\ snapshot \in [Documents -> Bytes]
  /\ \A t \in Requests :
       /\ tx[t].docs \subseteq Documents /\ tx[t].moved \subseteq tx[t].docs
       /\ tx[t].kind = "idle" <=> tx[t].pc = "idle"

(* The original of a document that has been read is lost in one way only: a *)
(* deletion dies after it has moved the file, and a later one that fails    *)
(* removes the staging directory.  Otherwise, whatever uploads of the same  *)
(* content, deletions, failures and crashes do, it is stored, staged by the *)
(* deletion under way, or still where one that died has left it.            *)
OriginalsAreKept ==
  \A d \in parsed :
    \/ file[d] # "none"
    \/ /\ staged[d] # "none"
       /\ d \in stranded \/ \E t \in Requests : tx[t].kind = "delete" /\ d \in tx[t].moved
    \/ d \in erased

(* A document that is sealed can be served for as long as it has a row, and *)
(* what is served is the original: no later write to the storage matters,   *)
(* nor one between the verification of the bytes and their insertion.       *)
SealedIsServed ==
  /\ \A d \in Documents : snapshot[d] \in {"none", "good"}
  /\ \A t \in Requests :
       At(t, "download", "answer") /\ tx[t].saw # "none" => tx[t].sets = "good"
=============================================================================
