------------------------------ MODULE Services ------------------------------
(***************************************************************************)
(* The services beside the chains: practices, pilots, accounts, company    *)
(* profiles, backups, the edition for one computer, the counters that      *)
(* limit requests, the protocol of the procurement pilot, documents that   *)
(* are read again and archives of documents, each checked on its own.  A   *)
(* behaviour concerns the one that scope names, and the variables of the   *)
(* others are Off.  tx holds the requests.                                 *)
(***************************************************************************)
EXTENDS Naturals, Sequences, FiniteSets

CONSTANTS
  Off,                                        \* the value of a variable that is not in play
  Requests, Configs,                          \* see Pilots, CompanyProfiles, RateLimits
  Limit, Window, MaxDelay, MaxTime,
  PilotPractices, Findings, Critical, MinPractices, MaxEvents,
  PracticeRequests, Deleters, Uploads,        \* see Practices
  Users, Logins, Changers, Credentials, MaxVersion,
  Documents,                                  \* see Backups
  Launchers, Programs, Keep, MaxData,         \* see LocalEdition
  Blind, Packs, Qualified, MaxClock,          \* see ProcurementPilot
  Readers, Reviewers,
  Contents, Archives, Foreign, Unreadable, Rival, MaxAttempts  \* see Batches

ASSUME AccountsAssumption == IsFiniteSet(Users) /\ MaxVersion \in Nat

(* consume_rate_limit refuses a limit or a window below 1.                  *)
ASSUME LimitsAssumption ==
  Limit \in Nat \ {0} /\ Window \in Nat \ {0} /\ MaxDelay \in Nat /\ MaxTime \in Nat

(* create_pre_migration_backup keeps max(1, keep) copies.                   *)
ASSUME EditionAssumption == Keep \in Nat \ {0} /\ MaxData \in Nat

(* Readings are named by their requests, not like the original (Readings).  *)
ASSUME NamesAssumption == "original" \notin Readers

(* The members of an archive.                                               *)
ASSUME BatchesAssumption ==
  /\ Rival \in Contents /\ Foreign \notin Contents
  /\ Archives \subseteq Seq(Contents \cup {Foreign})

VARIABLES
  scope, tx,
  practice, chained, inPilot, row, parsed, file, staged, stranded, erased, snapshot,
  pilot, result, members, review, measured, documents, found, engine, holder, events,
  user, sessions, changes, credential,
  overlap, versions,
  backend, rows, stored, upload, deletion, touched, backup, bundle, target, aside, existed, restore,
  careful, accepted, program, db, backups, window, handle, server, worker,
  clock, counter, stamp, granted,
  now, register, filed, inventory, artefacts, command, locations, manifest, seal, truth,
  truthSeal, results, evaluated,
  document, link, lines, record, verdicts, loose,
  kind, archive, held, job, entered, originals, run, other

practices == <<practice, chained, inPilot, row, parsed, file, staged, stranded, erased, snapshot>>
pilots    == <<pilot, result, members, review, measured, documents, found, engine, holder, events>>
accounts  == <<user, sessions, changes, credential>>
profiles  == <<overlap, versions>>
backing   == <<backend, rows, stored, upload, deletion, touched, backup, bundle, target, aside,
               existed, restore>>
edition   == <<careful, accepted, program, db, backups, window, handle, server, worker>>
limits    == <<clock, counter, stamp, granted>>
protocol  == <<now, register, filed, inventory, artefacts, command, locations, manifest, seal,
               truth, truthSeal, results, evaluated>>
readings  == <<document, link, lines, record, verdicts, loose>>
batches   == <<kind, archive, held, job, entered, originals, run, other>>
vars == <<scope, tx, practices, pilots, accounts, profiles, backing, edition, limits, protocol,
          readings, batches>>

Practices == INSTANCE Practices WITH Requests <- PracticeRequests, Documents <- Uploads
Pilots == INSTANCE Pilots
Accounts == INSTANCE Accounts
Profiles == INSTANCE CompanyProfiles
Backups == INSTANCE Backups WITH engine <- backend
LocalEdition == INSTANCE LocalEdition
RateLimits == INSTANCE RateLimits
Pilot == INSTANCE ProcurementPilot
Readings == INSTANCE Readings
Batches == INSTANCE Batches WITH rows <- entered

NoPractices ==
  /\ practice = Off /\ chained = Off /\ inPilot = Off /\ row = Off
  /\ parsed = Off /\ file = Off /\ staged = Off /\ stranded = Off /\ erased = Off
  /\ snapshot = Off
NoPilots ==
  /\ pilot = Off /\ result = Off /\ members = Off /\ review = Off /\ measured = Off
  /\ documents = Off /\ found = Off /\ engine = Off /\ holder = Off /\ events = Off
NoAccounts == user = Off /\ sessions = Off /\ changes = Off /\ credential = Off
NoProfiles == overlap = Off /\ versions = Off
NoBackups ==
  /\ backend = Off /\ rows = Off /\ stored = Off /\ upload = Off /\ deletion = Off
  /\ touched = Off /\ backup = Off /\ bundle = Off /\ target = Off /\ aside = Off
  /\ existed = Off /\ restore = Off
NoEdition ==
  /\ careful = Off /\ accepted = Off /\ program = Off /\ db = Off /\ backups = Off
  /\ window = Off /\ handle = Off /\ server = Off /\ worker = Off
NoLimits == clock = Off /\ counter = Off /\ stamp = Off /\ granted = Off
NoProtocol ==
  /\ now = Off /\ register = Off /\ filed = Off /\ inventory = Off /\ artefacts = Off
  /\ command = Off /\ locations = Off /\ manifest = Off /\ seal = Off /\ truth = Off
  /\ truthSeal = Off /\ results = Off /\ evaluated = Off
NoReadings ==
  /\ document = Off /\ link = Off /\ lines = Off /\ record = Off /\ verdicts = Off /\ loose = Off
NoBatches ==
  /\ kind = Off /\ archive = Off /\ held = Off /\ job = Off /\ entered = Off
  /\ originals = Off /\ run = Off /\ other = Off

Init ==
  /\ \/ scope = "practices" /\ Practices!Init
     \/ scope = "pilots"    /\ Pilots!Init
     \/ scope = "accounts"  /\ Accounts!Init
     \/ scope = "profiles"  /\ Profiles!Init
     \/ scope = "readings"  /\ Readings!Init
     \/ scope \in {"backups", "edition", "limits", "protocol", "batches"} /\ tx = Off
  /\ scope = "backups" => Backups!Init
  /\ scope = "edition" => LocalEdition!Init
  /\ scope = "limits"  => RateLimits!Init
  /\ scope = "protocol" => Pilot!Init
  /\ scope = "batches" => Batches!Init
  /\ scope # "practices" => NoPractices
  /\ scope # "pilots"    => NoPilots
  /\ scope # "accounts"  => NoAccounts
  /\ scope # "profiles"  => NoProfiles
  /\ scope # "backups"   => NoBackups
  /\ scope # "edition"   => NoEdition
  /\ scope # "limits"    => NoLimits
  /\ scope # "protocol"  => NoProtocol
  /\ scope # "readings"  => NoReadings
  /\ scope # "batches"   => NoBatches

PracticesNext ==
  /\ scope = "practices" /\ Practices!Next
  /\ UNCHANGED <<scope, pilots, accounts, profiles, backing, edition, limits, protocol,
                 readings, batches>>
PilotsNext ==
  /\ scope = "pilots" /\ Pilots!Next
  /\ UNCHANGED <<scope, practices, accounts, profiles, backing, edition, limits, protocol,
                 readings, batches>>
AccountsNext ==
  /\ scope = "accounts" /\ Accounts!Next
  /\ UNCHANGED <<scope, practices, pilots, profiles, backing, edition, limits, protocol,
                 readings, batches>>
ProfilesNext ==
  /\ scope = "profiles" /\ Profiles!Next
  /\ UNCHANGED <<scope, practices, pilots, accounts, backing, edition, limits, protocol,
                 readings, batches>>
BackupsNext ==
  /\ scope = "backups" /\ Backups!Next
  /\ UNCHANGED <<scope, tx, practices, pilots, accounts, profiles, edition, limits, protocol,
                 readings, batches>>
EditionNext ==
  /\ scope = "edition" /\ LocalEdition!Next
  /\ UNCHANGED <<scope, tx, practices, pilots, accounts, profiles, backing, limits, protocol,
                 readings, batches>>
LimitsNext ==
  /\ scope = "limits" /\ RateLimits!Next
  /\ UNCHANGED <<scope, tx, practices, pilots, accounts, profiles, backing, edition,
                 protocol, readings, batches>>
ProtocolNext ==
  /\ scope = "protocol" /\ Pilot!Next
  /\ UNCHANGED <<scope, tx, practices, pilots, accounts, profiles, backing, edition, limits,
                 readings, batches>>
ReadingsNext ==
  /\ scope = "readings" /\ Readings!Next
  /\ UNCHANGED <<scope, practices, pilots, accounts, profiles, backing, edition, limits,
                 protocol, batches>>
BatchesNext ==
  /\ scope = "batches" /\ Batches!Next
  /\ UNCHANGED <<scope, tx, practices, pilots, accounts, profiles, backing, edition, limits,
                 protocol, readings>>

Next ==
  \/ PracticesNext \/ PilotsNext \/ AccountsNext \/ ProfilesNext
  \/ BackupsNext \/ EditionNext \/ LimitsNext \/ ProtocolNext
  \/ ReadingsNext \/ BatchesNext

Spec == Init /\ [][Next]_vars
-----------------------------------------------------------------------------
(* Every variable has its type.                                             *)
TypesOK ==
  /\ scope = "practices" => Practices!TypeOK
  /\ scope = "pilots"    => Pilots!TypeOK
  /\ scope = "accounts"  => Accounts!TypeOK
  /\ scope = "backups"   => Backups!TypeOK
  /\ scope = "edition"   => LocalEdition!TypeOK
  /\ scope = "readings"  => Readings!TypeOK

(* The original of a document that has been read is lost in one way only: a *)
(* deletion dies after it has moved the file, and a later one that fails    *)
(* removes the staging directory.  Otherwise, whatever uploads of the same  *)
(* content, deletions, failures and crashes do, it is stored, staged by the *)
(* deletion under way, or still where one that died has left it.            *)
OriginalsAreKept == scope = "practices" => Practices!OriginalsAreKept

(* A document that is sealed can be served for as long as it has a row, and *)
(* what is served is the original, whoever writes to the storage and when.  *)
SealedIsServed == scope = "practices" => Practices!SealedIsServed

(* What a pilot's result expects of the engine are the findings of the      *)
(* blind reviews that were frozen, for every practice of the freeze or      *)
(* none, whatever is edited by requests that read the pilot as a draft.     *)
ResultRestsOnFreeze == scope = "pilots" => Pilots!ResultRestsOnFreeze

(* An active administrator remains, whatever roles and statuses are changed *)
(* by sessions that began before (one change at a time).                    *)
AdminRemains == scope = "accounts" => Accounts!AdminRemains

(* No session outlives a change of its user: one that is accepted rests on  *)
(* a password, a status and a role read after the last change.              *)
SessionsEndWithChanges == scope = "accounts" => Accounts!SessionsEndWithChanges

(* Versions of the company's profile are numbered without gaps and no       *)
(* configuration is stored twice, however requests overlap; one is active   *)
(* when they do not.                                                        *)
VersionsAreConsistent == scope = "profiles" => Profiles!VersionsAreConsistent

(* A bundle that verifies and was taken with the originals has that of      *)
(* every document of its database, whatever was uploaded meanwhile, except  *)
(* for documents that a deletion had moved while the backup was written.    *)
BackupsAreComplete == scope = "backups" => Backups!BackupsAreComplete

(* A restoration that fails leaves what it replaces by renaming as it was,  *)
(* and one that is interrupted leaves it in place or aside.                 *)
RestoreIsAllOrNothing == scope = "backups" => Backups!RestoreIsAllOrNothing

(* The control window says what is true: ready means that a server and a    *)
(* worker run, failed or closed that none is left, for a user who opens one *)
(* at a time and waits for its start; after a failure also for others.      *)
WindowsTellTheTruth == scope = "edition" => LocalEdition!WindowsTellTheTruth

(* When the schema of a database changes, the newest copy is the database   *)
(* as it was.                                                               *)
UpgradesAreBackedUp ==
  [][scope = "edition" => LocalEdition!UpgradeIsBackedUp]_vars

(* Two limits are the most that any stretch of time as long as a window,    *)
(* less the delay of a request, lets through.                               *)
TwiceTheLimit == scope = "limits" => RateLimits!TwiceTheLimit

(* Results of the blind pilot that can be evaluated were recorded after the *)
(* ground truth was sealed, as it still is, in a workspace that is as a     *)
(* freeze validated it, whatever is edited and wherever commands stop.      *)
EvaluatedIsBlind == scope = "protocol" => Pilot!EvaluatedIsBlind

(* The lines of a document are those of one reading, however two readings   *)
(* overlap, unless both began without a link to hold; a document that could *)
(* not be read has none, and is shown as acquired only by a human verdict.  *)
ReadingsReplace ==
  scope = "readings" => Readings!ReadingsReplace /\ Readings!FailuresAreShown

(* A completed archive reports what became of every member and a failed one *)
(* has left no document, whatever members, processes and the upload of a    *)
(* member elsewhere do; what is committed as read has its original.         *)
BatchesAreTrue == scope = "batches" => Batches!BatchesAreTrue
=============================================================================
