---------------------------- MODULE LocalEdition ----------------------------
(***************************************************************************)
(* The edition for one computer: control windows that start a server and a *)
(* worker as child processes, and the server's migration of the database   *)
(* with the backups it makes before.                                       *)
(*                                                                         *)
(* A window keeps the handles of its children only once its start has      *)
(* returned them; whoever closes it earlier leaves them behind.            *)
(***************************************************************************)
EXTENDS Naturals, Sequences

CONSTANTS
  Launchers,  \* control windows (a bound)
  Programs,   \* schema versions of the releases, a set of numbers above 0
  Keep,       \* copies before an update that are kept
  MaxData     \* changes of the data (a bound)

VARIABLES
  careful,   \* one window at a time, not closed while it starts; no child dies
  accepted,  \* the terms of the release have been accepted
  program,   \* schema version of the release that is installed
  db,        \* tables, version of the schema (0: not recorded), data
  backups,   \* copies of the database before an update, newest first
  window, handle, server, worker

processes == <<window, handle, server, worker>>
disk == <<accepted, program, db, backups>>
vars == <<careful, disk, processes>>

Dead == {"none", "dead"}
Stages == {"check", "backup", "upgrade", "bind", "serving"}
Starting == {"starting", "booting", "waiting"}

Healthy == \E l \in Launchers : server[l] = "serving"
Working == \E l \in Launchers : worker[l] = "running"

Init ==
  /\ careful \in BOOLEAN
  /\ accepted = FALSE
  /\ program \in Programs
  /\ db \in [tables : {FALSE}, version : {0}, data : {0}]
        \cup [tables : {TRUE}, version : {0} \cup Programs, data : {0}]
  /\ backups = <<>>
  /\ window = [l \in Launchers |-> "closed"]
  /\ handle = [l \in Launchers |-> FALSE]
  /\ server = [l \in Launchers |-> "none"]
  /\ worker = [l \in Launchers |-> "none"]
-----------------------------------------------------------------------------
(* The window.                                                             *)

Show(l, w) == window' = [window EXCEPT ![l] = w]

Open(l) ==
  /\ window[l] = "closed"
  /\ careful => \A m \in Launchers : window[m] = "closed"
  /\ server[l] \in Dead /\ worker[l] \in Dead   \* (a bound: names are not reused)
  /\ Show(l, IF accepted THEN "starting" ELSE "terms")
  /\ UNCHANGED <<careful, disk, handle, server, worker>>

Accept(l) ==
  /\ window[l] = "terms"
  /\ accepted' = TRUE
  /\ Show(l, "starting")
  /\ UNCHANGED <<careful, program, db, backups, handle, server, worker>>

(* An instance that answers is used as it is, whatever else it has.         *)
Attach(l) ==
  /\ window[l] = "starting" /\ Healthy
  /\ Show(l, "ready")
  /\ UNCHANGED <<careful, disk, handle, server, worker>>

(* The port may also be taken by another program.                           *)
PortTaken(l) ==
  /\ window[l] = "starting"
  /\ Show(l, "failed")
  /\ UNCHANGED <<careful, disk, handle, server, worker>>

StartServer(l) ==
  /\ window[l] = "starting" /\ ~Healthy
  /\ server' = [server EXCEPT ![l] = "check"]
  /\ Show(l, "booting")
  /\ UNCHANGED <<careful, disk, handle, worker>>

(* Whatever answers at the port counts, if the child is still there.        *)
StartWorker(l) ==
  /\ window[l] = "booting" /\ server[l] # "dead" /\ Healthy
  /\ handle' = [handle EXCEPT ![l] = TRUE]
  /\ worker' = [worker EXCEPT ![l] = "running"]
  /\ Show(l, "waiting")
  /\ UNCHANGED <<careful, disk, server>>

Ready(l) ==
  /\ window[l] = "waiting" /\ server[l] # "dead" /\ worker[l] # "dead"
  /\ Healthy /\ Working
  /\ Show(l, "ready")
  /\ UNCHANGED <<careful, disk, handle, server, worker>>

Stopped(children, l) == [children EXCEPT ![l] = IF @ = "none" THEN @ ELSE "dead"]

(* A child has died or the time is over: both are stopped.                  *)
\* mutant: only the server is stopped
StopServerOnly(l) == server' = Stopped(server, l) /\ UNCHANGED worker
StopBoth(l) == server' = Stopped(server, l) /\ worker' = Stopped(worker, l)

StartFails(l) ==
  /\ window[l] \in {"booting", "waiting"}
  /\ StopBoth(l)
  /\ Show(l, "failed")
  /\ UNCHANGED <<careful, disk, handle>>

(* The children are stopped if the window has the handle of a server that   *)
(* runs.                                                                    *)
Close(l) ==
  /\ window[l] # "closed"
  /\ careful => window[l] \notin Starting
  /\ IF handle[l] /\ server[l] \notin Dead THEN StopBoth(l) ELSE UNCHANGED <<server, worker>>
  /\ Show(l, "closed")
  /\ handle' = [handle EXCEPT ![l] = FALSE]
  /\ UNCHANGED <<careful, disk>>
-----------------------------------------------------------------------------
(* The server migrates the database, then binds the port.                  *)

Stage(l, s) == server' = [server EXCEPT ![l] = s]

\* mutant: a database without a recorded version is not taken for an old one
NeedsRecordedUpgrade == db.tables /\ db.version > 0 /\ db.version # program
NeedsUpgrade == db.tables /\ db.version # program

CheckSchema(l) ==
  /\ server[l] = "check"
  /\ Stage(l, IF NeedsUpgrade THEN "backup" ELSE "upgrade")
  /\ UNCHANGED <<careful, disk, window, handle, worker>>

Kept(copies) == IF Len(copies) > Keep THEN SubSeq(copies, 1, Keep) ELSE copies

BackUp(l) ==
  /\ server[l] = "backup"
  /\ backups' = Kept(<<db>> \o backups)
  /\ Stage(l, "upgrade")
  /\ UNCHANGED <<careful, accepted, program, db, window, handle, worker>>

(* A newer schema, or an older one whose tables lack columns, ends it.      *)
RefuseSchema(l) ==
  /\ server[l] = "upgrade"
  /\ db.tables /\ db.version # program
  /\ Stage(l, "dead")
  /\ UNCHANGED <<careful, disk, window, handle, worker>>

Upgrade(l) ==
  /\ server[l] = "upgrade" /\ db.version <= program
  /\ db' = [db EXCEPT !.tables = TRUE, !.version = program]
  /\ Stage(l, "bind")
  /\ UNCHANGED <<careful, accepted, program, backups, window, handle, worker>>

Bind(l) ==
  /\ server[l] = "bind"
  /\ Stage(l, IF Healthy THEN "dead" ELSE "serving")
  /\ UNCHANGED <<careful, disk, window, handle, worker>>
-----------------------------------------------------------------------------
(* Requests and jobs change the data.                                       *)
Write ==
  /\ Healthy \/ Working
  /\ db.data < MaxData
  /\ db' = [db EXCEPT !.data = @ + 1]
  /\ UNCHANGED <<careful, accepted, program, backups, processes>>

Die(l) ==
  /\ ~careful
  /\ \/ server[l] \in Stages /\ Stage(l, "dead") /\ UNCHANGED worker
     \/ worker[l] = "running" /\ worker' = [worker EXCEPT ![l] = "dead"] /\ UNCHANGED server
  /\ UNCHANGED <<careful, disk, window, handle>>

(* Another release, perhaps with other terms.                               *)
InstallRelease ==
  /\ \A l \in Launchers : window[l] = "closed"
  /\ \E p \in Programs \ {program} : program' = p
  /\ accepted' \in {accepted, FALSE}
  /\ UNCHANGED <<careful, db, backups, processes>>

Next ==
  \/ \E l \in Launchers :
       \/ Open(l) \/ Accept(l) \/ Attach(l) \/ PortTaken(l) \/ StartServer(l) \/ StartWorker(l)
       \/ Ready(l) \/ StartFails(l) \/ Close(l)
       \/ CheckSchema(l) \/ BackUp(l) \/ RefuseSchema(l) \/ Upgrade(l) \/ Bind(l) \/ Die(l)
  \/ Write \/ InstallRelease

Spec == Init /\ [][Next]_vars
-----------------------------------------------------------------------------
(* Properties.                                                             *)

Databases == [tables : BOOLEAN, version : {0} \cup Programs, data : 0..MaxData]

TypeOK ==
  /\ program \in Programs /\ db \in Databases
  /\ Len(backups) <= Keep /\ \A i \in DOMAIN backups : backups[i] \in Databases
  /\ window \in [Launchers -> {"closed", "terms", "ready", "failed"} \cup Starting]
  /\ server \in [Launchers -> Dead \cup Stages]
  /\ worker \in [Launchers -> Dead \cup {"running"}]

(* A window that shows that it is ready has a server and a worker; one that *)
(* shows a failure, or is closed, has left none: for a user who opens one   *)
(* window at a time and waits for its start, whether it fails, takes too    *)
(* long or meets a newer database.  After a failure also for others.        *)
WindowsTellTheTruth ==
  \A l \in Launchers :
    /\ careful /\ window[l] = "ready" => server[l] = "serving" /\ worker[l] = "running"
    /\ careful /\ window[l] = "closed" => server[l] \in Dead /\ worker[l] \in Dead
    /\ window[l] = "failed" => server[l] \in Dead /\ worker[l] \in Dead

(* When the schema of a database changes, the newest copy is the database   *)
(* as it was, although the start that made the copy may have been stopped   *)
(* and repeated, or other releases may have been installed between.         *)
UpgradeIsBackedUp ==
  careful /\ db.tables /\ db'.version # db.version => backups # <<>> /\ Head(backups) = db
=============================================================================
