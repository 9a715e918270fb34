# TLA+ models of ThisTinti

ThisTinti receives commercial documents (orders, deliveries, invoices, payments,
...), groups them into *operation chains*, compares them and raises *cases* that
people review. It is one FastAPI application (`app/`), a worker process
(`scripts/run_worker.py`) and a database: PostgreSQL for deployments, SQLite for
the edition on one computer. Around it are backups, a launcher with a control
window, and the command line of a blind pilot. This directory models the parts
whose correctness depends on the order in which requests, workers, people and
crashes act, and the rules by which a chain is judged.

Four facts about the session (`app/db.py:30`) shape the models of requests:

* `autoflush=False`: a query does not see what the transaction has set or added
  and not flushed;
* READ COMMITTED on PostgreSQL: each statement sees what is committed when it
  starts, so what one statement read may be old when the next one writes;
* the identity map: a row that is in the session is not refreshed by a later
  query, even one with `FOR UPDATE`, unless `populate_existing` asks for it;
* an UPDATE writes only the columns whose value differs from what was read.

## Inventory

| Component | State | Operations | Hard behaviour | What makes it correct |
|---|---|---|---|---|
| **Job queue and workers** (`services/jobs.py`, `scripts/run_worker.py`) | `processing_jobs`, staged files, idempotency keys | enqueue, cancel, retry, recover, claim, execute, fail, purge, sweep | crashes, leases that run out under a handler, unlocked reads, files that no rollback restores | work committed once, attempts limited, every job settles |
| **Audit chain** (`audit.py`) | `audit_events`, `tenants.audit_sequence` | append, verify | concurrent appends, stale objects, no row locks on SQLite | events numbered 1..n and chained |
| **Documents and chains** (`ingestion.py`, `matching.py`, chain endpoints) | documents, chains with primaries, links | upload, match, attach, detach, archive, reprocess, analyse | flush order, checks on stale rows | one link per document, primaries linked, one supplier |
| **Acquisition and reprocessing** (`rc15_api.py`, `rc15.py`) | intake records, lines | retry, classify, reprocess | overlapping readings of one document | the lines are those of one reading; failures stay visible |
| **Batch uploads** (`jobs.py` 355-422) | an archive, savepoints | members one by one | one member fails among others; same content elsewhere | the report says what became of every member |
| **Cases and review** (`rules.py`, `legacy_cases_api.py`, `rc15.py`) | cases, findings, decisions | analyse, review, transition | lock order, lines replaced under a review | a judgment rests on current support |
| **Provenance** (`*_provenance.py`, `evidence_integrity.py`) | facts, findings, support | record, require | support recomputed by other code than raised the case | a judged case would be raised again |
| **Analysis rules** (`rules.py`, `line_matching.py`, `units.py`) | none | group lines, compare | units, similarity, tolerances, sums | a clear chain does not overpay |
| **Risk and calibration** (`intelligence.py`, `validation.py`) | datasets, runs, approvals | run, approve, assess | stale approvals, selection among datasets | nothing acts alone without current approval |
| **Discovery** (`discovery.py`) | proposals, profile | learn, decide | decisions against later runs | confirmations and refusals survive |
| **Accounts** (`security.py`, `api.py` 640-977) | users, sessions, credentials | log in, change role/status/password, issue | count-then-write, tokens of old versions | an administrator remains; sessions end |
| **Rate limits** (`rate_limit.py`) | fixed windows | consume, purge | window boundary, late statements | at most twice the limit |
| **Practices** (`rc15.py` 845-1210) | practices, originals, sealed bytes | create, delete, seal, download | files moved before the commit | no single failure loses an original |
| **Company profile** (`rc15.py` 667-742) | versions | create, activate | nothing is locked | numbered without gaps, one active |
| **Pilots** (`rc15_pilot.py`) | pilot, reviews, manifest | review, freeze, run | status read without a lock | what is evaluated is what was frozen |
| **Procurement pilot** (`scripts/procurement_pilot/`) | files of a workspace | prepare, freeze, seal, record, evaluate | interruption, edits between commands | results are blind |
| **Backup and restore** (`scripts/backup_system.py`, `restore_backup.py`) | bundle, target | back up, verify, restore | copies while the service works, half-done replacement | complete bundles; all or nothing |
| **Local edition** (`local_launcher.py`, `local_runtime.py`, migrations) | windows, child processes, copies | start, close, upgrade | closing while starting, deaths | the window tells the truth; copies precede upgrades |
| **Parsers, web client, packaging** | - | - | - | not modelled |

A worker runs the handler of a job, which uploads or reprocesses documents; each
of these places the document in a chain and analyses it, which reconciles cases
and records their evidence; every operation appends to the audit chain in the
same transaction. `PROJECT.json` lists the hazards of each component at the line
where they bite, and the lines each definition models.

## Modules

| Module | Models |
|---|---|
| `JobQueue`, `JobLifecycle` | The queue, one action per statement whose effect others see; what it promises for one job |
| `AuditChain` | The audit stream of one tenant |
| `Chains` | Documents, links, primaries, suppliers, what an analysis considers |
| `Readings` | One document read again by overlapping requests, and its intake record |
| `Batches` | An archive's members, in savepoints, and another upload of a member |
| `Cases` | One case, its chain, documents and lines under row locks |
| `Rules` <- `Evidence` | What an analysis finds; what its recorders and a review require. State-independent operators over `documents` |
| `Analysis` <- `Assessment` | A chain that grows, with its findings; expectations, conformance and risk |
| `Support` | A chain whose documents change after the cases were recorded (uses `Evidence`) |
| `Automation`, `Discovery` | Datasets, runs, approvals and the gate; proposals of rules and decisions |
| `Accounts`, `RateLimits`, `Practices`, `CompanyProfiles`, `Pilots` | The services of those names |
| `Backups`, `LocalEdition`, `ProcurementPilot` | Programs around the service |
| `Services` | `Accounts` to `Pilots`, `Backups`, `LocalEdition`, `ProcurementPilot`, `Readings`, `Batches`, each on its own |
| `Engine` | `Automation`, `Discovery`, `Assessment` and `Support`, each on its own |
| `JobQueueProofs`, `AuditChainProofs`, `ChainsProofs`, `CasesProofs` | Theorems about the modules of those names |
| `EngineProofs` | Theorems about `Engine`: what is learned, and automation |
| `FindingsProofs` | Theorems about `Engine`: items, judgments, clear chains, allowed actions |
| `DocumentProofs`, `OperationsProofs` | Theorems about `Services`: readings, batches, practices; accounts, limits, profiles, pilots, backups, protocol, edition and all types |
| `MCJobQueue`, `MCWorkers`, `MCAuditChain`, `MCChains`, `MCCases`, `MCReadings`, `MCServices`, `MCEngine` | Instances for TLC |

Independent components are checked in one run by an umbrella: `Services` and
`Engine` give every component a *scope*; a behaviour belongs to one scope, its
module's `Init` and `Next` drive that module's variables, and the variables of
the others are the model value `Off`. A property of the umbrella is the module's
own under its scope. An umbrella composes nothing: components that interact
(chains and analyses; rules, evidence and reviews; readings, links and lines;
uploads and originals) are in one module. `MCEngine` gives `Engine` the documents
and tables of units it is checked on.

Some modules have a variable that no step changes and that says what a behaviour
is like, where a property or a part of it holds in some circumstances only:
`weather` in `JobQueue`, `serial` in `Chains`, `overlap` in `Automation`,
`Discovery` and `CompanyProfiles`, `careful` in `LocalEdition`. Their properties
name the circumstance; every choice is explored.

How state and actions correspond to the code:

* **JobQueue.** A function per column of `processing_jobs`, the staged `file`,
  the audit actions in `journal`, committed `effects`, and per worker its
  program counter and what it has read. Time is two Booleans, `leaseOver` and
  `ready`. A poll is split where a transaction ends or another process can act:
  the unlocked read of `recover_stale_jobs`, the commit that recovers and
  claims, the start of the handler, its first flush, the unlink of the file, the
  commit; on failure the read after the rollback, the move to the rejected area,
  the commit. A crash may come between any two. In a *storm* workers die, leases
  run out under handlers and jobs outwait the retention of their files; in
  *calm* weather no worker dies and no handler outlives its lease; in *quiet*
  times, besides, no job waits longer than its file is kept and nobody cancels
  or retries.
* **AuditChain.** `events`, `counter`, the holder of the tenant row, and per
  transaction what it has read and flushed. `Holders` loaded the tenant before
  `add_audit` (login), so the locked SELECT returns their old object. `RowLocks`
  is FALSE on SQLite. A hash is the identity of its event.
* **Chains.** The committed rows and, per transaction, a record of what it has
  set; `flushed` says whether its queries see its inserts and deletions. The
  matching by reference, overlap and date is a choice among the chains its
  queries can return. A link waits for the transaction that has inserted or
  deleted another one of the document (`uq_chain_document`). In a behaviour that
  is `serial` a transaction begins when no other is under way.
* **Readings.** The status of the document, its link, the readings its lines
  come from, the intake record, and per transaction the rows it holds. A DELETE
  removes the rows its snapshot saw that are still there when it gets them. An
  UPDATE carries the columns that changed. `not_acquired` stands for blocked and
  out of scope too.
* **Batches.** The handler's loop with its savepoints, the content-addressed
  originals, which a failure unlinks, and a rival upload of the same content.
  Limits of archives are a refusal; an attempt without the archive fails.
* **Cases.** The case, the chain status, lines (value, provable fact), findings
  by version, judgments; `locks` holds the row locks, waiting is a disabled
  step, `DeadlockVictim` what PostgreSQL does to a cycle. A discrepancy is a
  number.
* **Rules, Evidence.** Documents are records (role, currency, reference, lines
  with key, quantity, unit, price, discount, tax, total, and which fields are
  missing). `Rules` groups lines into items by unit dimension and similarity and
  has one operator per rule, with its tolerance, grade and confidence;
  `Evidence` has per qualified rule what its recorder links and its matcher
  requires. Word similarity is the relation `Similar`.
* **Analysis, Support, Assessment.** Documents are attached, archived, read
  again or corrected; each analysis replaces the findings. `Assessment` computes
  expectations, reconciled payments, conformance and the risk decision per
  action in hundredths of a point.
* **Automation, Discovery.** A request is read-then-commit; `overlap` says
  whether the deployment lets them overlap. Whether a run's scenarios pass, and
  the confidence a run discovers for a proposal, is any.
* **Accounts.** Rows of users, active sessions (user, version), credentials;
  logins and changes in two steps, since the token carries the version read.
* **Practices.** Rows, original, staged copy and sealed bytes per document;
  uploads, deletion file by file, putting back, sealing, download, alteration of
  files. A request may crash at any step, and fail where the code handles a
  failure, in one behaviour as often as it happens. Two history variables remember what the disk no longer shows: `stranded`, the
  documents whose file a deletion that died has left staged, and `erased`, those
  whose file a later deletion that failed has removed with the directory.
* **Pilots.** Status, manifest, reviews and what the engine finds; freeze and
  run in their steps; `holder` has locked the row of the pilot by a flush.
* **CompanyProfiles.** Versions, and what a request has read before it writes;
  the two unique constraints refuse a commit.
* **Backups.** The database copied at one moment, files one by one; the two
  parts of the target put aside, installed, undone, with crashes.
* **LocalEdition.** Windows with the handles of their children, server and
  worker processes, schema versions, copies before an update with their
  eviction.
* **ProcurementPilot.** Every file of the workspace as {} or its content; each
  command writes its files in order, may stop between two, and checks hashes as
  the code does; people edit files between commands.
* **RateLimits.** One key; the clock is read before the counting statement.

## What the runs show

| Run | Instance | Shows |
|---|---|---|
| `JobQueue_single` | 1 worker, 2 uploads (one may be the retry of the other), crashes, expiring leases, late cancellations, sweeps | one verdict per job in the audit trail (`OneVerdict`), every queued job settles (`Settles`), each job follows `JobLifecycle` (`ImplementsLifecycle`) |
| `JobQueue_workers` | 2 workers; a *storm* with 1 job, *calm* and *quiet* with 2 jobs; 2 requests with one key | attempts exceed the limit by at most one, uploads are committed once; but in a storm one executor at a time and any work committed once (`WorkedOnce`); in quiet times pending uploads keep their file (`InputIsKept`) |
| `AuditChain_postgres` | 3 transactions of up to 2 events, one with an old tenant object | the committed chain verifies; transactions end |
| `Chains_requests` | 2 documents, 2 chains, 2 transactions that overlap in 1 role without suppliers, or come one at a time with 2 roles and 2 suppliers | one link per document, only a detachment unlinks; primaries linked, one supplier, findings about own documents |
| `Cases_requests` | 2 requests, lines that agree or differ, 2 line rows | a review commits on the support it validated; findings are versioned one by one |
| `Engine` | chains of up to 4 documents of 14 (assessment), up to 3 of 8 and one later change (support), 2 overlapping requests (learning) | see below |
| `Services` | ten scopes, bounds below | see below |

Five runs expect a violation: what the code does is not what its documents,
comments or messages say (quoted under "findings" in `PROJECT.json`).

| Run | What happens |
|---|---|
| `AuditChain_login` | a login that holds an old tenant object collides and fails |
| `Chains_unflushed` | the analysis after a manual attachment does not see the new link |
| `Cases_deadlock` | a re-analysis and a review of one case wait for each other |
| `Discovery_inactive` | a rule a reviewer turned off is turned on by the next run |
| `Readings_overlap` | two readings of a document without a link leave the lines of both |

`Engine`: `ApprovalsAreCurrent` and `ApprovedIsNotHidden` (the gate of
automation opens on passed, sufficient, latest runs, and another dataset does
not close it), `RulesAreObeyed` (learned rules apply only if confirmed,
confirmations and refusals survive, findings are those of the rules in force),
`ClearPaysWhatIsOwed` (a chain whose status is clear, under all rules, does not
pay more than was agreed), `AllowedIsSound` (what the risk decision allows rests
on its documents and has no serious finding against it, and a payment is within
what was agreed), and `JudgedIsCurrent` (a judgment is linked only if today's
documents would raise the case).

`Services`: `OriginalsAreKept` (no upload, deletion, failure or crash loses the
original of a document but a deletion that dies and a later one that fails),
`SealedIsServed` (a judgment's bytes), `ResultRestsOnFreeze` (pilots),
`AdminRemains`, `SessionsEndWithChanges`, `VersionsAreConsistent`,
`BackupsAreComplete`, `RestoreIsAllOrNothing`, `WindowsTellTheTruth` and
`UpgradesAreBackedUp` (local edition), `TwiceTheLimit`, `EvaluatedIsBlind`
(procurement pilot), `ReadingsReplace` (lines and shown failures),
`BatchesAreTrue`.

Each property has a mutant in `PROJECT.json`: a plausible bug in a mapped
definition that makes TLC find it violated.

### Conditions the properties carry

They are in the properties because the code does not guarantee more:

* `SuppliersAgree`, `PrimariesAreLinked`, `AnalysesAreOwn`: one transaction at a
  time. With two, supplier checks read rows that others change, and a
  replacement primary may be on its way out.
* `OneVerdict`, `ImplementsLifecycle`: one worker. With two, one whose lease ran
  out may report another ending of a job that has ended.
* `WorkedOnce`: calm weather or quiet times. Otherwise a second worker executes
  a job whose lease ran out.
* `InputIsKept`: quiet times. Otherwise a crash between unlink and commit or a
  cancellation that aborts loses the input, and retention sweeps the file of a
  queued job (`jobs.py:80`; `docs/OPERATIONS.md:164` speaks of orphans).
* `ReadingsReplace`: not if overlapping readings both began without a link.
* `AdminRemains`: one change at a time (`Changers` has one member); two that
  overlap can each count the other's administrator, or share one token version.
* `VersionsAreConsistent`: one active version only without overlap; two requests
  may leave two or none.
* `ApprovalsAreCurrent` is not about releases: a new release leaves an approval
  standing, and the gate compares the release of its run. `RulesAreObeyed` is
  about confirmations and refusals: a rule that was turned off is turned on by
  the next run (`Discovery_inactive`).
* `ApprovalsAreCurrent`, `RulesAreObeyed`: part of each without overlap. An
  approval overlapping a run that revokes it survives
  (`docs/VALIDATION_PROTOCOL.md:127` promises the revocation), and a decision
  overlapping a learning run may be lost.
* `OriginalsAreKept`: except originals that a deletion moved before it died
  (`rc15.py:1165`) and a later deletion of the practice removed when it failed:
  the retry finds no file to move, so it has nothing to put back, and its handler
  removes the staging directory (`rc15.py:1187-1191`) with the only copy, while
  the row stays. And one deletion at a time (`Deleters` has one member), since
  two share that directory. Documents that were not read may have no file.
* `WindowsTellTheTruth`: a careful user. Two windows together run two workers
  with one id; closing while starting leaves children
  (`docs/LOCAL_EDITION.md:24`).
* `BackupsAreComplete`: except documents whose deletion had moved the file
  (`THREAT_MODEL.md:71-73` admits it).
* `TwiceTheLimit` and not the limit: a fixed window lets both sides of its
  boundary through; and in stretches shorter than a window by the delay between
  reading the clock and counting, since a request that was held up is let
  through by a window that is over.

## Disagreements and limits seen while modelling

No run of their own; each can be seen in the model named.

* **Queue.** A cancellation (`api.py:1357`) overwrites a job claimed or finished
  after its status was read. Two workers that recover a row from one old read
  attempt it once more than allowed. With three workers a late failure clears
  the lock of a running attempt and recovery never sees the row. A job whose
  last lease expired has no `job.failed` event.
* **Audit, SQLite.** Two requests can read one counter; the second append is
  refused.
* **Chains.** Archiving analyses before its flag is flushed. Two detachments can
  leave two chains analysed with one document.
* **Cases.** An analysis that read a case as open supersedes it after a decision
  (`rules.py:937`). `transition_case` decides P1 cases without a judgment, which
  a review refuses (409), and records a previous state read without a lock
  (`docs/PROVENANCE_CONTRACT_V0.md:173`). Reprocessing turns a human
  "needs_review" into "open". An old analysis may overwrite a newer amount. Two
  transitions sealing one document collide on the snapshot. The second insert of
  a fingerprint is refused with its request (`rules.py:883`, action `Refused`).
* **Readings.** Overlapping requests mix the columns of the intake record and of
  the document. A record stays "not_acquired" when another path reprocesses with
  success; a retry of a parsed document whose file is missing marks it so. The
  retry endpoint lacks `_ensure_synchronous_ingestion_allowed`. Three readings
  can double the lines even of a placed document. A stored intake record
  serialises two retries by accident.
* **Batches.** A member that failed transiently is not retried: the job is
  completed and the archive removed. Failed, skipped and rejected members are in
  the job's result and not in the intake list. A rollback of the whole leaves
  orphan originals.
* **Support.** Lines of other roles may join two items for the matcher and not
  for the analysis (`delivered_over_order_provenance.py:25`); support may come
  from a document the engine set aside; the currency matcher ignores the parse
  status.
* **Rules.** Negative quantities, negative prices (most parsers give
  `unit_price` no minimum) and absolute totals, unknown totals (no payment
  check), delivered items without a commercial line (price unchecked), mixed
  discounts, and unmatched invoice lines (low or medium) weaken what "clear"
  means; `ClearPaysWhatIsOwed` states the comparability it needs.
* **Assessment.** `line_total_mismatch` is medium (8.8 points), so a payment
  inflated through a line's total is allowed. Archived and unread deliveries
  satisfy expectations. `safe_to_automate` ignores graph coherence although
  `intelligence.py` near 1272 says automation requires it. An order alone can be
  "verified" and blocked.
* **Economic assessments (not modelled).** Overlapping writes can store
  "unknown" with an amount, which `tests/test_rc15_pilot_ready.py:67` excludes.
* **Discovery.** Learning is skipped while the count of documents is the same;
  the first run can turn rules off; `relearn` is not followed by an analysis.
* **Practices.** A parser reports a missing file as a parse error, so a "failed"
  document may have no file. Two deletions share a staging directory. A crash
  and then a failing retry lose the original (see the conditions above).
  A status change can resurrect a deleted practice. A document attached elsewhere after the listing is still
  deleted; a pilot may be joined after the check.
* **Pilots.** Two freezes, an addition after the freeze, a run that un-archives,
  and reviews written after the freeze are possible; the run refuses what
  differs from the manifest.
* **Accounts.** A credential outlives the disabling of the administrator who
  issued it, and an issue authenticated before that still commits.
* **Backups.** A restore leaves an old `-wal` beside the new database;
  `--database-only --force` empties the storage; a backup to an existing path
  destroys the old bundle before the new one is complete; PostgreSQL is
  committed before the storage is replaced.
* **Local edition.** A death or a closing while starting leaves orphans; the
  next window attaches to a server without a worker; five refused starts of an
  older program evict the copies made before the update.
* **Procurement pilot.** Results and the truth seal are not bound to the
  manifest, so a second freeze lets results of one manifest be evaluated under
  another (`freeze.py`, "i risultati non possono essere mescolati"). The
  software version is text; documents are not hashed again after the inventory,
  which may predate the last of them; preparing again overwrites the register
  and results; a results file moved away allows sealing again; a first-schema
  matrix is accepted with a second-schema pack when they agree.

## Bounds

* Two requests, workers or transactions show every pairwise race; where a third
  actor changes the picture it is said above. `MaxAttempts = 2`: a first and a
  last attempt.
* A purged job's identity is not reused; a retry takes a fresh one. Chains are
  never deleted in `Chains` and are used up. `MaxEvents = 2` in `AuditChain`: a
  transaction that appends twice sees its own first event.
* `Chains`: overlapping transactions meet on documents of one role without a
  supplier (`Restricted`), since suppliers and roles restrict where a document
  is placed and the races are about one place; alone they have all of them. The
  theorems are about `Spec`, without this bound. `JobQueue`: a storm has one job
  (`WeatherNext`), as workers meet on a job; the order of claims among two is
  that of the calm.
* `Cases`: two line rows are the line and its replacement by a reading; amounts
  0 and 1 are agreement and a discrepancy; more amounts add only sizes.
* `Engine`: `Dealings` holds documents of every role but the proposal, two units
  of one dimension and one of another, similar keys, a fee, a discount, a
  disagreeing total, an old order, a doubtful reading, a service and a payment
  whose amount only its metadata states. Chains of 4
  hold an agreement, a delivery, an invoice and a payment. `Disputes` holds what
  raises each qualified finding. `Usual` is empty (also tried: order to
  payment), `MaxChanges` is 1 (2 also passed). `Days` are the defaults.
  Documents are attached in the order of roles, which is that of the analysis.
  What `Engine` assumes of its documents and units (`DocumentsAssumption`,
  `ParsedAssumption`, `UnitsAssumption`) is evaluated on these.
* `Services`: two requests per scope; practices have one document (two were
  checked alone, 6.7 million states); pilots four events (an update of each
  review, a freeze and a run), two practices, one critical finding; accounts two
  users, a login and a change at a time, two versions, one credential; backups
  two documents; the edition two windows, three schema versions, two copies
  kept; limits 2 per window of 3 and a delay of 1 over 7 ticks; the protocol six
  edits or commands over two blind cases and packs of both schemas; batches of
  up to three members with a duplicate, an unreadable one and one whose rival is
  uploaded at the same time.
* In `ProcurementPilot` no edit is undone and none happens during a command.
* `VIEW Membership` (races) leaves out results of analyses, the archive flag and
  the parse status; `Distinguished` (`Cases`) the facts of the lines of a case
  without provenance. No guard and no checked property reads these. Symmetry
  permutes identities that no constant orders; no run with symmetry checks
  liveness.
* `CHECK_DEADLOCK FALSE` where the instance is used up or a behaviour may end:
  one-shot transactions (`AuditChain`, `Readings`), chains and events that run
  out, commands and windows that are over.

## Fairness

`JobQueue_single`: a worker that polls goes on (`WF` of its steps), a restarted
worker is not killed in every one of its polls (`SF` of `FinishPoll`), time
passes (`WF` of lease expiry and backoff). The loop of `run_worker.py` has no
exit but a signal, and the service manager restarts the process. Nothing is
assumed of users, retention or crashes elsewhere. `AuditChain`: a request that
can take its next step takes it. The other components have no fairness: a user
may never come back, and their properties are safety.

## What is proved

TLAPS proves every invariant and action property that the runs check, but for
the two liveness properties listed at the end, for every value of the constants. A theorem is about
the definition its run checks, so that the run shows on a small instance what
the theorem says of all.

The assumptions on constants are stated where these are declared: identities are
disjoint, workers and users are finite sets, bounds are natural numbers, limits
and windows positive (`consume_rate_limit` refuses others), `Keep` is at least 1
(`create_pre_migration_backup` keeps `max(1, keep)` copies), an archive is a
sequence of contents, built-in rules are not learned ones, the usual course is a
sequence of roles. The documents of `Engine` are any documents the parsers can
produce: quantities, prices and totals of any sign, a discount of at most 100
percent and possibly negative (a charge; `effective_discount_rate`), confidence
in percent; one that was parsed has lines (`parse_status`); the factor of a unit
is positive (`units.py`). Some theorems name a circumstance besides, because the
code does not keep the promise without it:

* `OneWorker` (one worker process): `VerdictsAreFinal`, `QueueKeepsItsPromise`.
  With two, one can fail a job that the other has completed.
* `OneChanger` (changes of accounts do not overlap): `AdministratorsRemain`,
  `SessionsEnd`, and `TypesStayCorrect` for the versions of accounts. The active
  administrators are counted without a lock, and both may write one version.
* `OneDeleter` (deletions do not overlap): `OriginalsStay`. Two deletions of a
  practice share a staging directory (`.rc15-delete/<id>`), and an original can
  be lost between them. Crashes and failures need no assumption: the property
  names the sequence of both that loses an original.

The invariants, by module; each is inductive, includes the types, and is
stronger than the property for the reason given:

* `JobQueueProofs`. `IngestedAtMostOnce`: no fencing protects the row, so it
  cannot follow from the status; the staged file is a token. An effect implies
  that the file is gone, and at most one worker is between the unlink and the
  commit. `AttemptsStayBounded`: a worker that remembers a stale row to requeue
  is a debtor; attempts are related to the debts still open. `NobodyWorksTwice`:
  while leases last, a running job is in the hands of the worker that locked it,
  so that no lease is over and recovery finds nothing to do.
  `InputsOutliveTheBacklog`: besides, a job in a worker's hands is running, and
  one that will be retried has its file. `VerdictsAreFinal`: what the one worker
  remembers of a job (that it is under way, and whether it may be retried) stays
  true until it is written. `QueueKeepsItsPromise`: from the same invariant,
  `JobQueue` implements `JobLifecycle` under the mapping of `Lifecycle`: in
  every step each job takes a step of that module or none.
* `AuditChainProofs`. `ChainStaysIntact`: each transaction's view (committed and
  flushed) is a chain up to its counter, what it read is not ahead of its view,
  and the hash it read belongs to an event at or after the number it read. If
  equal the append extends the chain; otherwise the number is taken and the
  constraint refuses it.
* `ChainsProofs`. `DocumentsHaveOneLink` (`IInv`): a commit adds links that were
  checked when they were flushed; they stay free of the committed ones they do
  not replace and of those that others have flushed. `DetachmentAloneUnlinks`
  (`Kept`): what a transaction deletes stays there for it, nobody else deletes
  it, and a document that is processed again has its new link before the commit.
  `PrimariesStayLinked`, `SuppliersStayAgreed`, `AnalysesStayOwn` (`Ordered`):
  one transaction at a time; the record of the one under way, which sets
  primaries, a supplier and findings before its links are written, describes the
  rows as they will be after its commit.
* `CasesProofs`. `ReviewsRestOnSupport`, `FindingsAreVersioned`: locks are
  exclusive, who validated still holds the rows it validated, and a version is
  written by the holder of its row and follows the latest.
* `EngineProofs`. `ApprovalsStayCurrent`: what is about to be approved has
  passed, and requests one at a time still find what they read (the latest run
  of an active dataset, of whatever release).
  `ApprovedStaysVisible`: from the same invariant, step by step.
  `RulesStayObeyed`: what a request is going to write overrules no confirmation
  or refusal it does not make and activates nothing learned.
* `FindingsProofs`. Two facts carry it. Sums over lines are folds, whose
  induction the provers cannot instantiate; that a sum does not depend on the
  order, splits over parts and is monotonic (`OverAdds`, `OverParts`,
  `OverWithin`) is shown by a counterexample of the smallest finite set. And the
  items of an analysis are the least sets of keys that no link crosses, so that
  they partition the lines (`EachLineHasItsItem`), whatever is similar to what.
  `JudgedStaysCurrent` (`SupportInv`): every case has the shape of what its rule
  records, an excess is no negative amount, and the case of a number stays with
  the role and number of its documents, which never change; a recorder that
  finds its facts again computes an item the analysis has too. `ClearStaysPaid`
  (`AssessmentInv`): without findings a line that is invoiced exceeds what is
  owed for its own item in neither quantity, price, discount nor total; summed
  over items, invoices are within what is owed, and payments are within
  tolerance of invoices. `AllowedStaysSound`: the decision allows below
  19.95 points, while a high finding scores at least 20.02, a document that an
  action lacks 24 and the absence of its own 70; the payment is argued as before.
* `DocumentProofs`. `ReadingsReplaceEachOther`: the link is held by one reading
  that has taken it out; a reading that is replacing will erase all lines, or
  has overlooked some; as long as none was loose the lines are of one and takers
  have seen them all. `BatchReportsAreTrue`: the outcomes reported so far match
  the rows made so far, of which one at most, the current member's, is in
  progress, and rows of one content exclude each other. `SealedStaysServed`:
  bytes about to be sealed were verified. `OriginalsStay`: an inserted row keeps
  the content to its upload, and a deletion holds what it has moved until it
  puts it back, its rows are gone, or it dies and leaves it in the staging
  directory; a failure turns what was left there into what is lost, and nothing
  else does.
* `OperationsProofs`. `AdministratorsRemain`, `SessionsEnd`: a pending login carries
  version and changes of one moment, a pending change leaves another
  administrator. `LimitsAreKept`: windows are disjoint, each counts on, and a
  request is let through late by no more than its delay, so that a stretch meets
  two windows. `VersionsStayConsistent`: a number that was read is at most the
  next one, so that a refused commit is one whose number is taken.
  `ResultsRestOnFreezes`: a manifest lists members, and what
  a run has compared and has still to compare covers it. `VerifiedIsComplete`,
  `RestoresAreAllOrNothing`: what the copied database lists is stored or was
  moved since; per part of the target, what is in place, aside or installed.
  `EvaluationsAreBlind`: truth is older than its seal, the seal older than any
  result, and manifests are valid as they were frozen. `WindowsAreTrue`,
  `UpgradesHaveCopies`: a careful user's children are those of the one open
  window, and a server about to upgrade has the database as its newest copy.
  `TypesStayCorrect`: the types of all services from these invariants; that a
  document has one record and one link needs that no transaction remembers two.

Only model-checked:

* `Settles` and `TransactionsEnd`: liveness and `ENABLED` are beyond the prover.

## Not modelled, and why

* Parsers and file checks: pure functions of a file; the models have their
  result.
* Web client, site, packaging, reports, dashboards, exports, source export of
  the launcher: they read, or present. The web client has races of its own
  (`static/app-core.js`: answers applied out of order, polling of jobs that
  stops after a failed poll, decisions on `state.selectedCase`), which touch no
  server state.
* Hashes of passwords, cookies, CSRF, tenant status; the cryptography of tokens.
* Dynamic field rules (`rules.py` 225-312), aliases and the computation of word
  similarity; the profile discovery builds; proof graph, red team and pattern
  pack of the intelligence.
* Ranking of link options (`matching.py` 92-170) and economic assessments
  (`rc15.py` 466-555): a choice among matches, and rows nothing else reads.
* Origins and identities of facts: evidence is compared by value, bytes are not
  hashed again. Failures of network and disk other than those named.

## Plan

Built: everything above. Left, in this order: a contract of the batch, of the backup and of the readings as
abstract specifications that those modules implement, as `JobLifecycle` is for
the queue; economic assessments and link options; learned rules on fields.
