------------------------------ MODULE Backups ------------------------------
(***************************************************************************)
(* A backup of the database and of the stored originals while the service  *)
(* works, its verification, and its restoration into a target.             *)
(*                                                                         *)
(* The database is copied at one moment, the files one by one after it,    *)
(* and the bundle is written in place: what is at its path before the      *)
(* manifest is complete does not verify.  A restoration puts what it       *)
(* replaces aside and puts it back if a later replacement fails.           *)
(***************************************************************************)
EXTENDS FiniteSets

CONSTANT Documents

VARIABLES
  engine,   \* "sqlite" or "postgresql"
  rows,     \* documents of the database
  stored,   \* documents whose file is at its path
  upload,   \* {} or the document that is being uploaded
  deletion, \* {} or the document that is being deleted
  touched,  \* documents that deletions moved while the backup ran (not in the code)
  backup,   \* create_backup: where it is, its copy of the database, files to copy
  bundle,   \* what is at the output path
  target,   \* per part of the target: "none", "old" or "new"
  aside,    \* per part: what the restoration has put aside
  existed,  \* parts that there were before the restoration (not in the code)
  restore   \* where it is, and the parts that are installed

place   == <<target, aside, existed>>
service == <<engine, rows, stored, upload, deletion, touched>>
saving  == <<backup, bundle>>
vars    == <<service, saving, place, restore>>

Parts == {"database", "storage"}

NoBundle == [exists |-> FALSE, database |-> {}, storage |-> FALSE, files |-> {}, manifest |-> FALSE,
             intact |-> TRUE, excused |-> {}]

Init ==
  /\ engine \in {"sqlite", "postgresql"}
  /\ rows = {} /\ stored = {} /\ upload = {} /\ deletion = {} /\ touched = {}
  /\ backup = [pc |-> "idle", database |-> {}, todo |-> {}]
  /\ bundle = NoBundle
  /\ target \in [Parts -> {"none", "old"}]
  /\ engine = "postgresql" => target["database"] = "old"
  /\ aside = [p \in Parts |-> "none"]
  /\ existed = {p \in Parts : target[p] = "old"}
  /\ restore = [pc |-> "idle", installed |-> {}]
-----------------------------------------------------------------------------
(* The service: ingest_path stores the file before the row,                *)
(* delete_practice_transaction moves it away before the row is deleted.    *)
(* A restoration goes to another target and does not depend on it.         *)

Serving == restore.pc = "idle"

BeginUpload(d) ==
  /\ Serving /\ upload = {} /\ d \notin rows \cup stored \cup deletion
  /\ upload' = {d} /\ stored' = stored \cup {d}
  /\ UNCHANGED <<engine, rows, deletion, touched, saving, place, restore>>

EndUpload ==
  /\ Serving /\ upload # {}
  /\ \/ rows' = rows \cup upload /\ UNCHANGED stored
     \/ stored' = stored \ upload /\ UNCHANGED rows
  /\ upload' = {}
  /\ UNCHANGED <<engine, deletion, touched, saving, place, restore>>

BeginDeletion(d) ==
  /\ Serving /\ deletion = {} /\ d \in rows \cap stored
  /\ deletion' = {d} /\ stored' = stored \ {d} /\ touched' = touched \cup {d}
  /\ UNCHANGED <<engine, rows, upload, saving, place, restore>>

EndDeletion ==
  /\ Serving /\ deletion # {}
  /\ \/ rows' = rows \ deletion /\ UNCHANGED stored
     \/ stored' = stored \cup deletion /\ UNCHANGED rows
  /\ deletion' = {}
  /\ UNCHANGED <<engine, upload, touched, saving, place, restore>>
-----------------------------------------------------------------------------
(* create_backup.                                                          *)

Snapshot == backup' = [pc |-> "open", database |-> rows, todo |-> {}]

BackUp ==
  /\ Serving /\ backup.pc = "idle"
  /\ Snapshot
  /\ touched' = deletion
  /\ UNCHANGED <<engine, rows, stored, upload, deletion, bundle, place, restore>>

(* The bundle that was at the path is gone from here on.                    *)
\* mutant: the database is copied after the files
WrittenLate(storage, files, manifest) ==
  [exists |-> TRUE, database |-> rows, storage |-> storage, files |-> files,
   manifest |-> manifest, intact |-> TRUE, excused |-> IF manifest THEN touched ELSE {}]
Written(storage, files, manifest) ==
  [exists |-> TRUE, database |-> backup.database, storage |-> storage, files |-> files,
   manifest |-> manifest, intact |-> TRUE, excused |-> IF manifest THEN touched ELSE {}]

Listed(storage) == IF storage THEN stored ELSE {}

OpenBundle ==
  /\ backup.pc = "open"
  /\ \E storage \in BOOLEAN :
       /\ bundle' = Written(storage, {}, FALSE)
       /\ backup' = [backup EXCEPT !.pc = "copy", !.todo = Listed(storage)]
  /\ UNCHANGED <<service, place, restore>>

CopyOriginal ==
  /\ backup.pc = "copy"
  /\ \E d \in backup.todo \cap stored :
       /\ bundle' = Written(bundle.storage, bundle.files \cup {d}, FALSE)
       /\ backup' = [backup EXCEPT !.todo = @ \ {d}]
  /\ UNCHANGED <<service, place, restore>>

(* A file that is no longer there, a full disk or a crash ends the backup.  *)
BackupFails ==
  /\ backup.pc # "idle"
  /\ backup' = [pc |-> "idle", database |-> {}, todo |-> {}]
  /\ UNCHANGED <<service, bundle, place, restore>>

CloseBundle ==
  /\ backup.pc = "copy" /\ backup.todo = {}
  /\ bundle' = Written(bundle.storage, bundle.files, TRUE)
  /\ backup' = [pc |-> "idle", database |-> {}, todo |-> {}]
  /\ UNCHANGED <<service, place, restore>>

(* The medium damages the bundle.                                           *)
Damage ==
  /\ Serving /\ bundle.exists /\ bundle.intact /\ backup.pc = "idle"
  /\ bundle' = [bundle EXCEPT !.intact = FALSE]
  /\ UNCHANGED <<service, backup, place, restore>>

(* verify_backup: the entries are those of the manifest, with their hashes. *)
Verified == bundle.exists /\ bundle.manifest /\ bundle.intact
-----------------------------------------------------------------------------
(* Restoration, restore_sqlite and restore_postgres.                       *)

(* Both are refused if a part exists, unless they are forced; the dump of a *)
(* PostgreSQL database asks for a confirmation instead.                     *)
Restore ==
  /\ restore.pc = "idle" /\ backup.pc = "idle" /\ Verified
  /\ restore' = [pc |-> "replace", installed |-> {}]
  /\ UNCHANGED <<service, saving, place>>

(* The database first.  pg_restore replaces it in a single transaction and  *)
(* keeps nothing; a file is put aside, then the staged one takes its place. *)
Turn(p) == p = "storage" => "database" \in restore.installed

RestoreDump ==
  /\ restore.pc = "replace" /\ engine = "postgresql" /\ restore.installed = {}
  /\ target' = [target EXCEPT !["database"] = "new"]
  /\ restore' = [restore EXCEPT !.installed = {"database"}]
  /\ UNCHANGED <<service, saving, aside, existed>>

PutAside(p) ==
  /\ restore.pc = "replace" /\ p \notin restore.installed /\ Turn(p)
  /\ p = "database" => engine = "sqlite"
  /\ target[p] = "old"
  /\ target' = [target EXCEPT ![p] = "none"]
  /\ aside' = [aside EXCEPT ![p] = "old"]
  /\ UNCHANGED <<service, saving, existed, restore>>

Install(p) ==
  /\ restore.pc = "replace" /\ p \notin restore.installed /\ Turn(p)
  /\ p = "database" => engine = "sqlite"
  /\ target[p] = "none"
  /\ target' = [target EXCEPT ![p] = "new"]
  /\ restore' = [restore EXCEPT !.installed = @ \cup {p}]
  /\ UNCHANGED <<service, saving, aside, existed>>

(* An exception: what has been put aside goes back, what was installed is   *)
(* removed.  The dump stays restored.                                       *)
\* mutant: only the part that failed goes back
UndoneForFailed(p) ==
  IF p \in restore.installed THEN target[p] ELSE IF aside[p] = "old" THEN "old" ELSE target[p]
Undone(p) ==
  IF p = "database" /\ engine = "postgresql" THEN target[p]
  ELSE IF aside[p] = "old"                   THEN "old"
  ELSE IF p \in restore.installed            THEN "none"
  ELSE                                            target[p]

RestoreFails ==
  /\ restore.pc = "replace" /\ restore.installed # Parts
  /\ target' = [p \in Parts |-> Undone(p)]
  /\ aside' = [p \in Parts |-> "none"]
  /\ restore' = [restore EXCEPT !.pc = "failed"]
  /\ UNCHANGED <<service, saving, existed>>

RemoveAside(p) ==
  /\ restore.pc = "replace" /\ restore.installed = Parts
  /\ aside[p] = "old" /\ (p = "storage" => aside["database"] = "none")
  /\ aside' = [aside EXCEPT ![p] = "none"]
  /\ UNCHANGED <<service, saving, target, existed, restore>>

RestoreReturns ==
  /\ restore.pc = "replace" /\ restore.installed = Parts
  /\ \A p \in Parts : aside[p] = "none"
  /\ restore' = [restore EXCEPT !.pc = "done"]
  /\ UNCHANGED <<service, saving, place>>

RestoreCrashes ==
  /\ restore.pc = "replace"
  /\ restore' = [restore EXCEPT !.pc = "crashed"]
  /\ UNCHANGED <<service, saving, place>>

Next ==
  \/ \E d \in Documents : BeginUpload(d) \/ BeginDeletion(d)
  \/ EndUpload \/ EndDeletion
  \/ BackUp \/ OpenBundle \/ CopyOriginal \/ BackupFails \/ CloseBundle \/ Damage
  \/ Restore \/ RestoreDump \/ RestoreFails \/ RestoreReturns \/ RestoreCrashes
  \/ \E p \in Parts : PutAside(p) \/ Install(p) \/ RemoveAside(p)

Spec == Init /\ [][Next]_vars
-----------------------------------------------------------------------------
(* Properties.                                                             *)

TypeOK ==
  /\ rows \cup stored \cup upload \cup deletion \cup touched \subseteq Documents
  /\ bundle.database \cup bundle.files \subseteq Documents
  /\ target \in [Parts -> {"none", "old", "new"}]
  /\ aside \in [Parts -> {"none", "old"}]
  /\ restore.installed \subseteq Parts

(* A bundle that verifies and was taken with the originals has that of      *)
(* every document of its database, whatever was uploaded meanwhile, except  *)
(* for documents that a deletion had moved while the backup was written.    *)
BackupsAreComplete ==
  Verified /\ bundle.storage => bundle.database \subseteq bundle.files \cup bundle.excused

(* Every part that is replaced by renaming (the database of PostgreSQL is   *)
(* not) is as before if the restoration failed, and until all parts are     *)
(* installed what was there is in its place or aside, also after a crash.   *)
RestoreIsAllOrNothing ==
  \A p \in Parts : engine = "sqlite" \/ p = "storage" =>
    /\ restore.pc = "failed" => target[p] = IF p \in existed THEN "old" ELSE "none"
    /\ restore.installed # Parts /\ p \in existed => "old" \in {target[p], aside[p]}
    /\ restore.pc = "done" => target[p] = "new" /\ aside[p] = "none"
=============================================================================
