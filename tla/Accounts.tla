------------------------------ MODULE Accounts ------------------------------
(***************************************************************************)
(* The users of a tenant, their sessions, the changes administrators make  *)
(* to roles, status and passwords while users log in, and the credentials  *)
(* they issue to programs.                                                 *)
(*                                                                         *)
(* A token names a session, a user and the version that the user had when  *)
(* the login read it; it is accepted while the version is the user's.  A   *)
(* version is raised by each change, from the value that the request read. *)
(***************************************************************************)
EXTENDS Naturals, FiniteSets

CONSTANTS
  Users,       \* accounts of the tenant, created or not (a bound)
  Logins,      \* logins that are at work at a time (a bound)
  Changers,    \* changes that are at work at a time (a bound)
  Credentials, \* credentials of programs, issued or not (a bound)
  MaxVersion   \* changes of a user (a bound)

Roles == {"admin", "reviewer", "viewer"}

VARIABLES
  user,     \* per account: its row, {} before it is created
  sessions, \* active sessions: the token's user and version
  changes,  \* per account: changes that have been committed (not in the code)
  credential, \* per credential: its row, {} before it is issued
  tx

vars == <<user, sessions, changes, credential, tx>>

Idle == [pc |-> "idle", actor |-> {}, target |-> {}, row |-> {}, sees |-> 0]

NewUser(role) == {[role |-> role, active |-> TRUE, version |-> 0]}

(* Registration creates the tenant with an administrator.                   *)
Init ==
  /\ \E u \in Users : user = [v \in Users |-> IF v = u THEN NewUser("admin") ELSE {}]
  /\ sessions = {}
  /\ changes = [u \in Users |-> 0]
  /\ credential = [c \in Credentials |-> {}]
  /\ tx = [t \in Logins \cup Changers |-> Idle]

Active(u) == \E r \in user[u] : r.active
Admins == {u \in Users : \E r \in user[u] : r.active /\ r.role = "admin"}
-----------------------------------------------------------------------------
(* Sessions.                                                               *)

(* A login verifies the password of the row it has read.                    *)
Login(t, u) ==
  /\ tx[t] = Idle /\ Active(u)
  /\ tx' = [tx EXCEPT ![t] = [Idle EXCEPT !.pc = "login", !.target = {u}, !.row = user[u],
                                          !.sees = changes[u]]]
  /\ UNCHANGED <<user, sessions, changes, credential>>

\* mutant: the token names the version that the user has when it is issued
IssuedVersionNow(t, u) == CHOOSE v \in 0..MaxVersion : \E r \in user[u] : r.version = v
IssuedVersion(t, u) == CHOOSE v \in 0..MaxVersion : \E r \in tx[t].row : r.version = v

CommitLogin(t) ==
  /\ tx[t].pc = "login"
  /\ \E u \in tx[t].target :
       sessions' = sessions \cup
         {[user |-> u, version |-> IssuedVersion(t, u), after |-> tx[t].sees]}
  /\ tx' = [tx EXCEPT ![t] = Idle]
  /\ UNCHANGED <<user, changes, credential>>

Accepted(s) ==
  s \in sessions /\ \E r \in user[s.user] : r.active /\ r.version = s.version

(* A logout, a revocation or the end of the session's time.                 *)
EndSession ==
  /\ \E s \in sessions : sessions' = sessions \ {s}
  /\ UNCHANGED <<user, changes, credential, tx>>
-----------------------------------------------------------------------------
(* Administration.                                                         *)

AdminSession(s) == Accepted(s) /\ s.user \in Admins

CreateUser ==
  /\ \E s \in sessions : AdminSession(s)
  /\ \E u \in {v \in Users : user[v] = {}}, role \in Roles :
       user' = [user EXCEPT ![u] = NewUser(role)]
  /\ UNCHANGED <<sessions, changes, credential, tx>>

(* What a request makes of the row: a change of status or role raises the   *)
(* version, one that changes nothing does not; a new password always does.  *)
Changed(r, status, role) ==
  [r EXCEPT !.active = status, !.role = role, !.version = @ + 1]

(* One cannot disable or demote oneself, nor the last active administrator. *)
\* mutant: only the count protects the administrators
MayChangeCounting(actor, u, r, status, role) ==
  ~(u \in Admins /\ ~(status /\ role = "admin")) \/ Cardinality(Admins) >= 1
MayChange(actor, u, r, status, role) ==
  /\ actor = u => (status \/ ~r.active) /\ role = r.role
  /\ u \in Admins /\ ~(status /\ role = "admin") => Cardinality(Admins) > 1

Change(t) ==
  /\ tx[t] = Idle
  /\ \E s \in sessions, u \in Users :
       /\ AdminSession(s)
       /\ \E r \in user[u], status \in BOOLEAN, role \in Roles :
            /\ r.version < MaxVersion
            /\ status = r.active \/ role = r.role
            /\ status # r.active \/ role # r.role
            /\ MayChange(s.user, u, r, status, role)
            /\ tx' = [tx EXCEPT ![t] = [Idle EXCEPT !.pc = "change", !.actor = {s.user},
                                          !.target = {u}, !.row = {Changed(r, status, role)}]]
  /\ UNCHANGED <<user, sessions, changes, credential>>

(* An administrator resets a password, or a user changes it.                *)
ChangePassword(t) ==
  /\ tx[t] = Idle
  /\ \E s \in sessions, u \in Users :
       /\ Accepted(s) /\ (s.user = u \/ AdminSession(s))
       /\ \E r \in user[u] :
            /\ r.version < MaxVersion
            /\ tx' = [tx EXCEPT ![t] = [Idle EXCEPT !.pc = "change", !.actor = {s.user},
                                          !.target = {u}, !.row = {Changed(r, r.active, r.role)}]]
  /\ UNCHANGED <<user, sessions, changes, credential>>

CommitChange(t) ==
  /\ tx[t].pc = "change"
  /\ user' = [u \in Users |-> IF u \in tx[t].target THEN tx[t].row ELSE user[u]]
  /\ changes' = [u \in Users |-> changes[u] + IF u \in tx[t].target THEN 1 ELSE 0]
  /\ tx' = [tx EXCEPT ![t] = Idle]
  /\ UNCHANGED <<sessions, credential>>

-----------------------------------------------------------------------------
(* Credentials of programs.                                                *)

(* What a program may do beside reading: a viewer, nothing (its scopes are  *)
(* at most those of reading); a reviewer, what its scopes name.             *)
Granted(role) == IF role = "viewer" THEN {{}} ELSE SUBSET {"ingest", "review"}

IssueCredential(t) ==
  /\ tx[t] = Idle /\ \E c \in Credentials : credential[c] = {}
  /\ \E s \in sessions, role \in Roles \ {"admin"} :
       /\ AdminSession(s)
       /\ \E scopes \in Granted(role) :
            tx' = [tx EXCEPT ![t] = [Idle EXCEPT !.pc = "issue", !.actor = {s.user},
                                       !.row = {[scopes |-> scopes, usable |-> TRUE]}]]
  /\ UNCHANGED <<user, sessions, changes, credential>>

CommitCredential(t) ==
  /\ tx[t].pc = "issue"
  /\ \E c \in {d \in Credentials : credential[d] = {}} :
       credential' = [credential EXCEPT ![c] = tx[t].row]
  /\ tx' = [tx EXCEPT ![t] = Idle]
  /\ UNCHANGED <<user, sessions, changes>>

(* A credential is accepted until it is revoked or its time has come,       *)
(* whatever becomes of the administrator who issued it.                     *)
AcceptedCredential(c) == \E r \in credential[c] : r.usable

Revoke(c) == credential' = [credential EXCEPT ![c] = {[r EXCEPT !.usable = FALSE] : r \in @}]

RevokeCredential(c) ==
  /\ AcceptedCredential(c) /\ \E s \in sessions : AdminSession(s)
  /\ Revoke(c)
  /\ UNCHANGED <<user, sessions, changes, tx>>

ExpireCredential(c) ==
  /\ AcceptedCredential(c)
  /\ Revoke(c)
  /\ UNCHANGED <<user, sessions, changes, tx>>

Next ==
  \/ \E t \in Logins : CommitLogin(t) \/ \E u \in Users : Login(t, u)
  \/ \E t \in Changers : Change(t) \/ ChangePassword(t) \/ CommitChange(t)
  \/ CreateUser \/ EndSession
  \/ \E t \in Changers : IssueCredential(t) \/ CommitCredential(t)
  \/ \E c \in Credentials : RevokeCredential(c) \/ ExpireCredential(c)

Spec == Init /\ [][Next]_vars
-----------------------------------------------------------------------------
(* Properties.                                                             *)

TypeOK ==
  /\ \A u \in Users : user[u] \subseteq [role : Roles, active : BOOLEAN, version : 0..MaxVersion]
  /\ sessions \subseteq [user : Users, version : 0..MaxVersion, after : 0..MaxVersion]
  /\ \A c \in Credentials :
       credential[c] \subseteq [scopes : SUBSET {"ingest", "review"}, usable : BOOLEAN]
  /\ \A t \in Logins \cup Changers : tx[t].target \subseteq Users /\ tx[t].sees \in 0..MaxVersion

(* An active administrator remains, whatever roles and statuses are changed *)
(* by sessions that began before.                                           *)
AdminRemains == Admins # {}

(* No session outlives a change of its user: one that is accepted rests on  *)
(* a password, a status and a role read after the last change, although the *)
(* login may have overlapped with it.                                       *)
SessionsEndWithChanges == \A s \in sessions : Accepted(s) => s.after = changes[s.user]
=============================================================================
