------------------------------ MODULE JobQueue ------------------------------
(***************************************************************************)
(* The persistent processing queue: the processing_jobs table, the files   *)
(* staged for its jobs, the workers that claim and execute jobs, and the   *)
(* API requests that enqueue, cancel and retry them                        *)
(* (app/services/jobs.py, scripts/run_worker.py, app/api.py).              *)
(*                                                                         *)
(* A step is one statement whose effect others can see: a committed read,  *)
(* a commit, a file operation.  Rows are read without a lock and written   *)
(* later by an UPDATE of the changed columns (READ COMMITTED, the default  *)
(* of the PostgreSQL deployment).  SQLite serialises more of these steps,  *)
(* so its behaviours are among the ones below.                             *)
(*                                                                         *)
(* Time is abstract: leaseOver[j] says that locked_at is older than the    *)
(* lease, ready[j] that available_at has passed.                           *)
(***************************************************************************)
EXTENDS Naturals, FiniteSets

CONSTANTS
  Jobs,                 \* identities a row of processing_jobs can take
  Ingest,               \* the ingest_document and ingest_batch jobs: they carry a staged file
  Rank,                 \* Rank[j]: the priority column (lower is claimed first)
  Workers,              \* worker processes, each with its own worker_id
  Clerks,               \* API requests that can be in progress at the same time
  Reviewers,            \* those made with the reviewer role: they may cancel and retry
  Keys,                 \* idempotency keys clients send
  NoKey, NoWorker, NoJob,
  MaxAttempts,          \* settings.worker_max_attempts
  Weathers              \* the circumstances considered: "storm", "calm", "quiet"

ASSUME JobsAssumption ==
  /\ Ingest \subseteq Jobs
  /\ Rank \in [Jobs -> Nat]
  /\ NoJob \notin Jobs

ASSUME WorkersAssumption == IsFiniteSet(Workers) /\ NoWorker \notin Workers

ASSUME ClerksAssumption == Reviewers \subseteq Clerks

ASSUME KeysAssumption == NoKey \notin Keys /\ Jobs \cap (Keys \cup {NoKey}) = {}

ASSUME LimitsAssumption ==
  /\ MaxAttempts \in Nat \ {0}
  /\ Weathers \subseteq {"storm", "calm", "quiet"}

VARIABLES
  status,        \* the status column; "absent" before the insert, "purged" after retention
  attempts,      \* the attempts column
  lockedBy,      \* the locked_by column
  leaseOver,     \* locked_at < now - lease
  ready,         \* available_at <= now
  key,           \* the idempotency_key column
  rejectedPath,  \* input_json names a rejected_path
  file,          \* where the uploaded bytes are: none, quarantine, rejected, gone
  journal,       \* actions of the audit events that name the job
  effects,       \* transactions in which the handler's work was committed
  wpc,           \* what each worker is doing
  wjob,          \* the job a worker has claimed
  wstale,        \* rows recover_stale_jobs has read, by what it will write to them
  wread,         \* the row as _record_execution_failure read it after its rollback
  cpc,           \* what each API request is doing
  carg,          \* its job or its idempotency key
  weather        \* the circumstances, which are those of the whole behaviour

rowVars  == <<status, attempts, lockedBy, leaseOver, ready, key, rejectedPath>>
outVars  == <<file, journal, effects>>
wVars    == <<wpc, wjob, wstale, wread>>
cVars    == <<cpc, carg>>
vars     == <<rowVars, outVars, wVars, cVars, weather>>

Terminal == {"completed", "failed", "cancelled"}
Live     == {"queued", "running"} \cup Terminal
Statuses == {"absent", "purged"} \cup Live
Files    == {"none", "quarantine", "rejected", "gone"}
Events   == {"job.queued", "job.retried", "job.completed", "job.failed", "job.cancelled"}

NoStale == [requeue |-> {}, expire |-> {}]
NoRead  == [status |-> "absent", retry |-> FALSE, locked |-> FALSE, moved |-> FALSE]

TypeOK ==
  /\ status \in [Jobs -> Statuses]
  /\ attempts \in [Jobs -> Nat]
  /\ lockedBy \in [Jobs -> Workers \cup {NoWorker}]
  /\ leaseOver \in [Jobs -> BOOLEAN]
  /\ ready \in [Jobs -> BOOLEAN]
  /\ key \in [Jobs -> Keys \cup {NoKey}]
  /\ rejectedPath \in [Jobs -> BOOLEAN]
  /\ file \in [Jobs -> Files]
  /\ journal \in [Jobs -> SUBSET Events]
  /\ effects \in [Jobs -> Nat]
  /\ wpc \in [Workers -> {"idle", "recovering", "claimed", "executing",
                          "holding", "unlinked", "failing", "recording"}]
  /\ wjob \in [Workers -> Jobs \cup {NoJob}]
  /\ wstale \in [Workers -> [requeue : SUBSET Jobs, expire : SUBSET Jobs]]
  /\ wread \in [Workers -> [status : Statuses, retry : BOOLEAN,
                            locked : BOOLEAN, moved : BOOLEAN]]
  /\ cpc \in [Clerks -> {"idle", "insert", "cancel", "unlinked"}]
  /\ carg \in [Clerks -> Jobs \cup Keys \cup {NoKey}]
  /\ weather \in Weathers

Init ==
  /\ status = [j \in Jobs |-> "absent"]
  /\ attempts = [j \in Jobs |-> 0]
  /\ lockedBy = [j \in Jobs |-> NoWorker]
  /\ leaseOver = [j \in Jobs |-> FALSE]
  /\ ready = [j \in Jobs |-> TRUE]
  /\ key = [j \in Jobs |-> NoKey]
  /\ rejectedPath = [j \in Jobs |-> FALSE]
  /\ file = [j \in Jobs |-> "none"]
  /\ journal = [j \in Jobs |-> {}]
  /\ effects = [j \in Jobs |-> 0]
  /\ wpc = [w \in Workers |-> "idle"]
  /\ wjob = [w \in Workers |-> NoJob]
  /\ wstale = [w \in Workers |-> NoStale]
  /\ wread = [w \in Workers |-> NoRead]
  /\ cpc = [c \in Clerks |-> "idle"]
  /\ carg = [c \in Clerks |-> NoKey]
  /\ weather \in Weathers

(* In a storm processes die, leases run out under slow handlers and jobs    *)
(* outwait the retention of their files.  In calm weather no process dies   *)
(* and no handler runs longer than settings.worker_lease_seconds; in quiet  *)
(* times, besides, no job waits longer than                                 *)
(* settings.quarantine_retention_hours and no reviewer intervenes.          *)
WorkersMayCrash      == weather = "storm"
LeaseOutlivesHandler == weather # "storm"
BacklogYoung         == weather = "quiet"
Unattended           == weather = "quiet"

-----------------------------------------------------------------------------
(* What the steps share.                                                   *)

(* Progress is flushed inside the handler, so from that flush to the commit *)
(* the transaction holds the lock of the job's row.                         *)
HoldsRow(w, j) == wjob[w] = j /\ wpc[w] \in {"holding", "unlinked"}
RowFree(j)     == \A w \in Workers : ~HoldsRow(w, j)

(* The staged file is there, or the job needs none.                         *)
\* mutant: a missing file is tolerated
HasInputOrHadIt(j) == j \in Ingest => file[j] \in {"quarantine", "gone"}
HasInput(j) == j \in Ingest => file[j] = "quarantine"

(* An attempt is left.                                                      *)
\* mutant: off by one
MayRetryOnceMore(n) == n <= MaxAttempts
MayRetry(n) == n < MaxAttempts

(* Some worker still has a decision about the job in its memory.            *)
InFlight(j) == \E w \in Workers : \/ wjob[w] = j
                                  \/ j \in wstale[w].requeue \cup wstale[w].expire

KeyTaken(k) == k # NoKey /\ \E j \in Jobs : status[j] \in Live /\ key[j] = k

(* A new row: the file is in quarantine before the row is inserted.         *)
InsertRow(j, k, event) ==
  /\ status[j] = "absent"
  /\ status' = [status EXCEPT ![j] = "queued"]
  /\ key' = [key EXCEPT ![j] = k]
  /\ file' = [file EXCEPT ![j] = IF j \in Ingest THEN "quarantine" ELSE "none"]
  /\ journal' = [journal EXCEPT ![j] = @ \cup {event}]
  /\ UNCHANGED <<attempts, lockedBy, leaseOver, ready, rejectedPath, effects>>

GoIdle(w) ==
  /\ wpc' = [wpc EXCEPT ![w] = "idle"]
  /\ wjob' = [wjob EXCEPT ![w] = NoJob]

-----------------------------------------------------------------------------
(* API requests.                                                           *)

(* enqueue_job looks for the idempotency key before it inserts; a request   *)
(* whose key is taken answers with the existing job and changes nothing.    *)
EnqueueLookup(c, k) ==
  /\ cpc[c] = "idle"
  /\ ~KeyTaken(k)
  /\ cpc' = [cpc EXCEPT ![c] = "insert"]
  /\ carg' = [carg EXCEPT ![c] = k]
  /\ UNCHANGED <<rowVars, outVars, wVars>>

EnqueueInsert(c, j) ==
  /\ cpc[c] = "insert"
  /\ InsertRow(j, carg[c], "job.queued")
  /\ cpc' = [cpc EXCEPT ![c] = "idle"]
  /\ carg' = [carg EXCEPT ![c] = NoKey]
  /\ UNCHANGED wVars

(* The unique constraint rejects the insert: the savepoint is rolled back   *)
(* and the request answers with the row that won.                           *)
EnqueueConflict(c) ==
  /\ cpc[c] = "insert"
  /\ cpc' = [cpc EXCEPT ![c] = "idle"]
  /\ carg' = [carg EXCEPT ![c] = NoKey]
  /\ UNCHANGED <<rowVars, outVars, wVars>>

EnqueueFlush(c) ==
  IF KeyTaken(carg[c]) THEN EnqueueConflict(c) ELSE \E j \in Jobs : EnqueueInsert(c, j)

(* cancel_job: the status is tested on a row read without a lock ...        *)
CancelRead(c, j) ==
  /\ c \in Reviewers /\ ~Unattended
  /\ cpc[c] = "idle"
  /\ status[j] = "queued"
  /\ cpc' = [cpc EXCEPT ![c] = "cancel"]
  /\ carg' = [carg EXCEPT ![c] = j]
  /\ UNCHANGED <<rowVars, outVars, wVars>>

(* ... the staged file is removed ...                                       *)
CancelUnlink(c) ==
  /\ cpc[c] = "cancel"
  /\ cpc' = [cpc EXCEPT ![c] = "unlinked"]
  /\ file' = [file EXCEPT ![carg[c]] = IF @ = "quarantine" THEN "gone" ELSE @]
  /\ UNCHANGED <<rowVars, journal, effects, wVars, carg>>

(* ... and the UPDATE overwrites whatever the status has become.            *)
CancelCommit(c) ==
  /\ cpc[c] = "unlinked"
  /\ RowFree(carg[c])
  /\ status' = [status EXCEPT ![carg[c]] = "cancelled"]
  /\ journal' = [journal EXCEPT ![carg[c]] = @ \cup {"job.cancelled"}]
  /\ cpc' = [cpc EXCEPT ![c] = "idle"]
  /\ carg' = [carg EXCEPT ![c] = NoKey]
  /\ UNCHANGED <<attempts, lockedBy, leaseOver, ready, key, rejectedPath,
                 file, effects, wVars>>

(* The request dies before its commit (for one, as the victim of the        *)
(* deadlock between its tenant-row lock and the worker's job-row lock).     *)
CancelAborts(c) ==
  /\ cpc[c] = "unlinked"
  /\ cpc' = [cpc EXCEPT ![c] = "idle"]
  /\ carg' = [carg EXCEPT ![c] = NoKey]
  /\ UNCHANGED <<rowVars, outVars, wVars>>

(* retry_job copies the preserved file into quarantine and enqueues a new   *)
(* job without a key; it never writes to the old one.                       *)
Retry(c, old, new) ==
  /\ c \in Reviewers /\ ~Unattended
  /\ cpc[c] = "idle"
  /\ status[old] \in {"failed", "cancelled"}
  /\ old \in Ingest <=> new \in Ingest
  /\ Rank[old] = Rank[new]
  /\ old \in Ingest => file[old] = IF rejectedPath[old] THEN "rejected" ELSE "quarantine"
  /\ InsertRow(new, NoKey, "job.retried")
  /\ UNCHANGED <<wVars, cVars>>

-----------------------------------------------------------------------------
(* Workers: claiming.                                                      *)

\* mutant: exhausted jobs are left alone
StaleRowOfRetryable(j) == /\ status[j] = "running"
                          /\ lockedBy[j] # NoWorker
                          /\ leaseOver[j]
                          /\ MayRetry(attempts[j])
StaleRow(j) == status[j] = "running" /\ lockedBy[j] # NoWorker /\ leaseOver[j]

(* recover_stale_jobs, first half: read the running rows whose lease is     *)
(* over and decide what to write to each.                                   *)
ReadStale(w) ==
  LET stale == {j \in Jobs : StaleRow(j)}
  IN
  /\ wpc[w] = "idle"
  /\ wpc' = [wpc EXCEPT ![w] = "recovering"]
  /\ wstale' = [wstale EXCEPT ![w] =
                  [requeue |-> {j \in stale : MayRetry(attempts[j])},
                   expire  |-> {j \in stale : ~MayRetry(attempts[j])}]]
  /\ UNCHANGED <<rowVars, outVars, wjob, wread, cVars>>

Requeued(w)  == wstale[w].requeue
Expired(w)   == wstale[w].expire
Recovered(w) == Requeued(w) \cup Expired(w)

(* The status column after the UPDATEs of recover_stale_jobs.               *)
\* mutant: a status the table does not know
StatusAfterMistypedRecovery(w) ==
  [j \in Jobs |-> IF j \in Recovered(w) THEN "stale" ELSE status[j]]
StatusAfterRecovery(w) ==
  [j \in Jobs |-> IF j \in Requeued(w) THEN "queued"
                  ELSE IF j \in Expired(w) THEN "failed" ELSE status[j]]

Claimable(w) ==
  {j \in Jobs : /\ StatusAfterRecovery(w)[j] = "queued"
                /\ ready[j] \/ j \in Recovered(w)
                /\ RowFree(j)}

(* Second half of recovery (the UPDATEs wait for the rows' locks), then the *)
(* claim of the first available row, skipping locked ones, and the commit.  *)
Claim(w, j) ==
  /\ wpc[w] = "recovering"
  /\ \A k \in Recovered(w) : RowFree(k)
  /\ j \in Claimable(w)
  /\ \A k \in Claimable(w) : Rank[j] <= Rank[k]
  /\ status' = [StatusAfterRecovery(w) EXCEPT ![j] = "running"]
  /\ attempts' = [attempts EXCEPT ![j] = @ + 1]
  /\ lockedBy' = [k \in Jobs |-> IF k = j THEN w
                                 ELSE IF k \in Recovered(w) THEN NoWorker ELSE lockedBy[k]]
  /\ leaseOver' = [k \in Jobs |-> leaseOver[k] /\ k # j /\ k \notin Recovered(w)]
  /\ ready' = [k \in Jobs |-> ready[k] \/ k \in Recovered(w)]
  /\ wpc' = [wpc EXCEPT ![w] = "claimed"]
  /\ wjob' = [wjob EXCEPT ![w] = j]
  /\ wstale' = [wstale EXCEPT ![w] = NoStale]
  /\ UNCHANGED <<key, rejectedPath, outVars, wread, cVars>>

ClaimNothing(w) ==
  /\ wpc[w] = "recovering"
  /\ \A k \in Recovered(w) : RowFree(k)
  /\ Claimable(w) = {}
  /\ status' = StatusAfterRecovery(w)
  /\ lockedBy' = [k \in Jobs |-> IF k \in Recovered(w) THEN NoWorker ELSE lockedBy[k]]
  /\ leaseOver' = [k \in Jobs |-> leaseOver[k] /\ k \notin Recovered(w)]
  /\ ready' = [k \in Jobs |-> ready[k] \/ k \in Recovered(w)]
  /\ wpc' = [wpc EXCEPT ![w] = "idle"]
  /\ wstale' = [wstale EXCEPT ![w] = NoStale]
  /\ UNCHANGED <<attempts, key, rejectedPath, outVars, wjob, wread, cVars>>

-----------------------------------------------------------------------------
(* Workers: executing.                                                     *)

(* run_once re-reads the row in a new transaction and drops the claim when  *)
(* the job is no longer its own.                                            *)
Owns(w) == status[wjob[w]] = "running" /\ lockedBy[wjob[w]] = w

DropClaim(w) ==
  /\ wpc[w] = "claimed"
  /\ ~Owns(w)
  /\ GoIdle(w)
  /\ UNCHANGED <<rowVars, outVars, wstale, wread, cVars>>

(* The handler starts; without its staged file it raises at once.           *)
StartExecution(w) ==
  /\ wpc[w] = "claimed"
  /\ Owns(w)
  /\ wpc' = [wpc EXCEPT ![w] = IF HasInput(wjob[w]) THEN "executing" ELSE "failing"]
  /\ UNCHANGED <<rowVars, outVars, wjob, wstale, wread, cVars>>

(* The first flush after job.progress was set takes the row's lock.         *)
HandlerFlush(w) ==
  /\ wpc[w] = "executing"
  /\ RowFree(wjob[w])
  /\ wpc' = [wpc EXCEPT ![w] = "holding"]
  /\ UNCHANGED <<rowVars, outVars, wjob, wstale, wread, cVars>>

(* The handler, an audit call or a database statement raises.               *)
HandlerRaises(w) ==
  /\ wpc[w] \in {"executing", "holding"}
  /\ wpc' = [wpc EXCEPT ![w] = "failing"]
  /\ UNCHANGED <<rowVars, outVars, wjob, wstale, wread, cVars>>

(* The work is done and flushed: the staged file is unlinked before the     *)
(* commit; if it is no longer there, only HandlerRaises is possible.        *)
FinishHandler(w) ==
  /\ wpc[w] = "holding"
  /\ HasInput(wjob[w])
  /\ wpc' = [wpc EXCEPT ![w] = "unlinked"]
  /\ file' = [file EXCEPT ![wjob[w]] = IF wjob[w] \in Ingest THEN "gone" ELSE @]
  /\ UNCHANGED <<rowVars, journal, effects, wjob, wstale, wread, cVars>>

\* mutant: the status and the lock are not written
CommitWithoutStatus(w) ==
  /\ wpc[w] = "unlinked"
  /\ journal' = [journal EXCEPT ![wjob[w]] = @ \cup {"job.completed"}]
  /\ effects' = [effects EXCEPT ![wjob[w]] = @ + 1]
  /\ GoIdle(w)
  /\ UNCHANGED <<rowVars, file, wstale, wread, cVars>>

(* The commit publishes the work, the status and the audit event together.  *)
CommitCompletion(w) ==
  /\ wpc[w] = "unlinked"
  /\ status' = [status EXCEPT ![wjob[w]] = "completed"]
  /\ lockedBy' = [lockedBy EXCEPT ![wjob[w]] = NoWorker]
  /\ leaseOver' = [leaseOver EXCEPT ![wjob[w]] = FALSE]
  /\ journal' = [journal EXCEPT ![wjob[w]] = @ \cup {"job.completed"}]
  /\ effects' = [effects EXCEPT ![wjob[w]] = @ + 1]
  /\ GoIdle(w)
  /\ UNCHANGED <<attempts, ready, key, rejectedPath, file, wstale, wread, cVars>>

\* mutant: every failure moves the file
AlwaysMovesToRejected(j) == j \in Ingest /\ file[j] = "quarantine"
MovesToRejected(j) == ~MayRetry(attempts[j]) /\ j \in Ingest /\ file[j] = "quarantine"

(* _record_execution_failure: after the rollback the row is read again and, *)
(* when no attempt is left, the staged file is moved to the rejected area.  *)
FailReread(w) ==
  LET j     == wjob[w]
      retry == MayRetry(attempts[j])
      moved == MovesToRejected(j)
  IN
  /\ wpc[w] = "failing"
  /\ wpc' = [wpc EXCEPT ![w] = "recording"]
  /\ wread' = [wread EXCEPT ![w] = [status |-> status[j], retry |-> retry,
                                    locked |-> lockedBy[j] # NoWorker, moved |-> moved]]
  /\ file' = [file EXCEPT ![j] = IF moved THEN "rejected" ELSE @]
  /\ UNCHANGED <<rowVars, journal, effects, wjob, wstale, cVars>>

(* An UPDATE carries only the columns whose value differs from the row as   *)
(* it was read.                                                             *)
WrittenStatus(read, target, now) == IF read # target THEN target ELSE now

(* The outcome is written: the status if it changes, the lock columns if    *)
(* they were set, the next attempt's time if there is one.                  *)
FailCommit(w) ==
  LET j      == wjob[w]
      read   == wread[w]
      target == IF read.retry THEN "queued" ELSE "failed"
  IN
  /\ wpc[w] = "recording"
  /\ RowFree(j)
  /\ status' = [status EXCEPT ![j] = WrittenStatus(read.status, target, @)]
  /\ lockedBy' = [lockedBy EXCEPT ![j] = IF read.locked THEN NoWorker ELSE @]
  /\ leaseOver' = [leaseOver EXCEPT ![j] = @ /\ ~read.locked]
  /\ ready' = [ready EXCEPT ![j] = @ /\ ~read.retry]
  /\ rejectedPath' = [rejectedPath EXCEPT ![j] = @ \/ read.moved]
  /\ journal' = [journal EXCEPT ![j] = IF read.retry THEN @ ELSE @ \cup {"job.failed"}]
  /\ wread' = [wread EXCEPT ![w] = NoRead]
  /\ GoIdle(w)
  /\ UNCHANGED <<attempts, key, file, effects, wstale, cVars>>

(* The process dies: what it had not committed is rolled back, its row lock *)
(* is released, its file operations stay.  It restarts with the same id.    *)
Crash(w) ==
  /\ WorkersMayCrash
  /\ wpc[w] # "idle"
  /\ GoIdle(w)
  /\ wstale' = [wstale EXCEPT ![w] = NoStale]
  /\ wread' = [wread EXCEPT ![w] = NoRead]
  /\ UNCHANGED <<rowVars, outVars, cVars>>

-----------------------------------------------------------------------------
(* Time and maintenance.                                                   *)

(* With LeaseOutlivesHandler no lease runs out while a live worker still    *)
(* works on the job.                                                        *)
LeaseExpires(j) ==
  /\ status[j] = "running"
  /\ lockedBy[j] # NoWorker
  /\ ~leaseOver[j]
  /\ LeaseOutlivesHandler => ~InFlight(j)
  /\ leaseOver' = [leaseOver EXCEPT ![j] = TRUE]
  /\ UNCHANGED <<status, attempts, lockedBy, ready, key, rejectedPath, outVars, wVars, cVars, weather>>

BackoffElapses(j) ==
  /\ status[j] = "queued"
  /\ ~ready[j]
  /\ ready' = [ready EXCEPT ![j] = TRUE]
  /\ UNCHANGED <<status, attempts, lockedBy, leaseOver, key, rejectedPath, outVars, wVars, cVars, weather>>

(* run_maintenance deletes finished rows past their retention, which is     *)
(* days: nothing in flight is that old.                                     *)
PurgeFinished(j) ==
  /\ status[j] \in Terminal
  /\ ~InFlight(j)
  /\ \A c \in Clerks : carg[c] # j
  /\ status' = [status EXCEPT ![j] = "purged"]
  /\ UNCHANGED <<attempts, lockedBy, leaseOver, ready, key, rejectedPath, outVars, wVars, cVars>>

(* run_maintenance unlinks every quarantine file past the retention,        *)
(* whatever the job it was staged for is doing.                             *)
SweepQuarantine(j) ==
  /\ file[j] = "quarantine"
  /\ BacklogYoung => status[j] \notin {"queued", "running"}
  /\ file' = [file EXCEPT ![j] = "gone"]
  /\ UNCHANGED <<rowVars, journal, effects, wVars, cVars>>

-----------------------------------------------------------------------------
FinishPoll(w) ==
  /\ (\E j \in Jobs : Claim(w, j)) \/ ClaimNothing(w)
  /\ UNCHANGED weather

WorkerStep(w) ==
  /\ \/ ReadStale(w)
     \/ FinishPoll(w)
     \/ DropClaim(w)
     \/ StartExecution(w)
     \/ HandlerFlush(w)
     \/ HandlerRaises(w)
     \/ FinishHandler(w)
     \/ CommitCompletion(w)
     \/ FailReread(w)
     \/ FailCommit(w)
  /\ UNCHANGED weather

ClerkStep(c) ==
  \/ \E k \in Keys \cup {NoKey} : EnqueueLookup(c, k)
  \/ EnqueueFlush(c)
  \/ \E j \in Jobs : CancelRead(c, j)
  \/ CancelUnlink(c)
  \/ CancelCommit(c)
  \/ CancelAborts(c)
  \/ \E old, new \in Jobs : Retry(c, old, new)

Environment ==
  \/ \E w \in Workers : Crash(w)
  \/ \E j \in Jobs : LeaseExpires(j)
  \/ \E j \in Jobs : BackoffElapses(j)
  \/ \E j \in Jobs : PurgeFinished(j)
  \/ \E j \in Jobs : SweepQuarantine(j)

Next ==
  /\ \/ \E w \in Workers : WorkerStep(w)
     \/ \E c \in Clerks : ClerkStep(c)
     \/ Environment
  /\ UNCHANGED weather

Spec == Init /\ [][Next]_vars

(* The worker loop never stops polling, a handler ends, a restarted worker  *)
(* is not killed in every one of its polls, and time passes.  Nothing is    *)
(* assumed of users or maintenance, and crashes elsewhere are unlimited.    *)
Fairness ==
  /\ \A w \in Workers : WF_vars(WorkerStep(w)) /\ SF_vars(FinishPoll(w))
  /\ \A j \in Jobs : WF_vars(LeaseExpires(j)) /\ WF_vars(BackoffElapses(j))

FairSpec == Spec /\ Fairness
-----------------------------------------------------------------------------
(* Properties.                                                             *)

(* However workers, leases and cancellations interleave, the attempts of a  *)
(* job exceed its limit by at most one per other worker: a row recovered    *)
(* from a read older than the last claim is claimed once more.              *)
AttemptsBounded ==
  \A j \in Jobs : attempts[j] <= MaxAttempts + Cardinality(Workers) - 1

(* Whatever is executed twice, the work of an upload is committed once: the *)
(* unlink before the commit leaves nothing for a second execution.          *)
IngestedOnce == \A j \in Ingest : effects[j] <= 1

(* The work of any job is committed at most once.                           *)
EffectOnce == \A j \in Jobs : effects[j] <= 1

(* No two workers run the handler of a job at the same time.                *)
OneExecutor ==
  \A v, w \in Workers :
    (/\ v # w
     /\ wpc[v] \in {"executing", "holding", "unlinked"}
     /\ wpc[w] \in {"executing", "holding", "unlinked"}) => wjob[v] # wjob[w]

(* A job that still has to run has its file, or it is in a worker's hands.  *)
PendingHasInput ==
  \A j \in Ingest :
    status[j] \in {"queued", "running"}
      => \/ HasInput(j)
         \/ \E w \in Workers : wjob[w] = j /\ wpc[w] \in {"unlinked", "recording"}

(* While leases outlive handlers no two workers execute a job at the same   *)
(* time, and the work of any job is committed at most once.                 *)
WorkedOnce == LeaseOutlivesHandler => OneExecutor /\ EffectOnce

(* While files outlive the backlog and nobody cancels, a job that still has *)
(* to run has the file it was created for, except while a worker is between *)
(* removing or moving it and the commit.                                    *)
InputIsKept == BacklogYoung => PendingHasInput

(* The audit trail tells one ending: no job is reported both as completed   *)
(* and as failed for good, whatever crashed between its attempts.           *)
OneVerdict == \A j \in Jobs : ~({"job.completed", "job.failed"} \subseteq journal[j])

(* A queued job reaches a final state and stays final.                      *)
Settled(j) == status[j] \in Terminal \cup {"purged"}
Settles == \A j \in Jobs : status[j] = "queued" ~> []Settled(j)

-----------------------------------------------------------------------------
(* What a single worker promises: JobLifecycle, under this mapping.         *)
StateName(s) ==
  CASE s = "queued"    -> "pending"
    [] s = "running"   -> "active"
    [] s = "completed" -> "done"
    [] s = "failed"    -> "dead"
    [] s = "cancelled" -> "withdrawn"
    [] s = "purged"    -> "forgotten"
    [] s = "absent"    -> "absent"

Lifecycle == INSTANCE JobLifecycle WITH
  life     <- [j \in Jobs |-> StateName(status[j])],
  tries    <- attempts,
  underway <- [j \in Jobs |-> \E w \in Workers : wjob[w] = j],
  done     <- effects

(* Served by one worker, every job lives the promised lifecycle.            *)
ImplementsLifecycle == Lifecycle!Spec
=============================================================================
