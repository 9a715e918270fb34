-------------------------- MODULE OperationsProofs --------------------------
(***************************************************************************)
(* Accounts, the counters that limit requests, the versions of a company's *)
(* profile, pilots, backups and restores, the procurement pilot and the    *)
(* edition for one computer, for any number of users, credentials,         *)
(* requests, documents, cases and launchers; then the types of all         *)
(* services.                                                               *)
(***************************************************************************)
EXTENDS DocumentProofs, FunctionTheorems, FiniteSetTheorems, TLAPS
-----------------------------------------------------------------------------
(* Accounts.                                                               *)

AccountRow    == [role : Accounts!Roles, active : BOOLEAN, version : 0..MaxVersion]
CredentialRow == [scopes : SUBSET {"ingest", "review"}, usable : BOOLEAN]
Session       == [user : Users, version : 0..MaxVersion, after : 0..MaxVersion]
AccountRequest ==
  [pc : {"idle", "login", "change", "issue"}, actor : SUBSET Users, target : SUBSET Users,
   row : SUBSET (AccountRow \cup CredentialRow), sees : 0..MaxVersion]
Accountants == Logins \cup Changers

AccountsTyped ==
  /\ user \in [Users -> SUBSET AccountRow]
  /\ sessions \subseteq Session
  /\ changes \in [Users -> Nat]
  /\ credential \in [Credentials -> SUBSET CredentialRow]
  /\ tx \in [Accountants -> AccountRequest]

(* An account has one row, whose version counts its changes.                *)
VersionsCount ==
  \A u \in Users : /\ \A r, q \in user[u] : r = q
                   /\ \A r \in user[u] : r.version = changes[u]
                   /\ user[u] = {} => changes[u] = 0

(* A login, and then its session, has the version and the changes of one    *)
(* moment.                                                                  *)
LoginsRead ==
  /\ \A t \in Accountants : tx[t].pc = "login" =>
       \E u \in Users, r \in AccountRow :
         tx[t].target = {u} /\ tx[t].row = {r} /\ r.version = tx[t].sees
  /\ \A s \in sessions : s.version = s.after

(* Who is about to take its rights from an administrator leaves another.    *)
ActiveAdmin(r) == r.active /\ r.role = "admin"
Leaves(u, q)   == ActiveAdmin(q) \/ \E w \in Accounts!Admins : w # u
ChangesFit ==
  \A t \in Accountants :
    /\ tx[t].pc \in {"change", "issue"} => t \in Changers
    /\ tx[t].pc = "issue" => tx[t].row \subseteq CredentialRow
    /\ tx[t].pc = "change" =>
         \E u \in Users, q \in AccountRow :
           /\ tx[t].target = {u} /\ tx[t].row = {q}
           /\ q.version = changes[u] + 1 /\ user[u] # {}
           /\ Leaves(u, q)

AccountsInv ==
  AccountsTyped /\ VersionsCount /\ LoginsRead /\ ChangesFit /\ Accounts!AdminRemains

OneChanger == \A s, t \in Changers : s = t
-----------------------------------------------------------------------------
LEMMA AccountsIdle ==
  ASSUME MaxVersion \in Nat
  PROVE  Accounts!Idle \in AccountRequest /\ Accounts!Idle.pc = "idle"
BY DEF Accounts!Idle, AccountRequest

LEMMA AccountsInit ==
  ASSUME MaxVersion \in Nat, Accounts!Init PROVE AccountsInv
<1>1. PICK u \in Users : user = [v \in Users |-> IF v = u THEN Accounts!NewUser("admin") ELSE {}]
  BY DEF Accounts!Init
<1> DEFINE first == [role |-> "admin", active |-> TRUE, version |-> 0]
<1>2. first \in AccountRow /\ user[u] = {first} /\ \A v \in Users \ {u} : user[v] = {}
  BY <1>1 DEF Accounts!NewUser, AccountRow, Accounts!Roles
<1> HIDE DEF first
<1>3. \A t \in Accountants : tx[t] = Accounts!Idle
  BY DEF Accounts!Init, Accountants
<1>4. Accounts!Idle \in AccountRequest /\ Accounts!Idle.pc = "idle"
  BY AccountsIdle
<1>5. AccountsTyped
  <2>1. user \in [Users -> SUBSET AccountRow]
    BY <1>1, <1>2
  <2> QED BY <2>1, <1>3, <1>4 DEF Accounts!Init, AccountsTyped, Accountants
<1>6. VersionsCount
  <2>1. \A v \in Users : changes[v] = 0 /\ (v = u \/ user[v] = {})
    BY <1>2 DEF Accounts!Init
  <2>2. first.version = 0
    BY DEF first
  <2> QED BY <1>2, <2>1, <2>2 DEF VersionsCount
<1>7. LoginsRead /\ ChangesFit
  BY <1>3, <1>4 DEF LoginsRead, ChangesFit, Accounts!Init
<1>8. Accounts!AdminRemains
  BY <1>2 DEF Accounts!AdminRemains, Accounts!Admins, first
<1> QED BY <1>5, <1>6, <1>7, <1>8 DEF AccountsInv

(* A step of a request that leaves the accounts alone.                      *)
LEMMA RequestKeeps ==
  ASSUME AccountsInv, NEW t \in Accountants, NEW x \in AccountRequest,
         tx' = [tx EXCEPT ![t] = x], UNCHANGED <<user, sessions, changes, credential>>,
         x.pc = "login" => \E u \in Users, r \in AccountRow :
                             x.target = {u} /\ x.row = {r} /\ r.version = x.sees,
         x.pc \in {"change", "issue"} => t \in Changers,
         x.pc = "issue" => x.row \subseteq CredentialRow,
         x.pc = "change" => \E u \in Users, q \in AccountRow :
                              /\ x.target = {u} /\ x.row = {q}
                              /\ q.version = changes[u] + 1 /\ user[u] # {}
                              /\ Leaves(u, q)
  PROVE  AccountsInv'
<1>1. tx'[t] = x /\ \A s \in Accountants \ {t} : tx'[s] = tx[s]
  BY DEF AccountsInv, AccountsTyped
<1>2. AccountsTyped'
  BY DEF AccountsInv, AccountsTyped
<1>3. VersionsCount'
  BY DEF AccountsInv, VersionsCount
<1>4. LoginsRead'
  BY <1>1 DEF AccountsInv, LoginsRead
<1>5. Accounts!Admins' = Accounts!Admins
  BY DEF Accounts!Admins
<1>6. ChangesFit'
  BY <1>1, <1>5 DEF AccountsInv, ChangesFit, Leaves
<1> QED BY <1>2, <1>3, <1>4, <1>5, <1>6 DEF AccountsInv, Accounts!AdminRemains

(* The requests that read: what they have read is of one moment.            *)
LEMMA LoginKeeps ==
  ASSUME AccountsInv, NEW t \in Logins, NEW u \in Users, Accounts!Login(t, u)
  PROVE  AccountsInv'
<1> DEFINE x == [Accounts!Idle EXCEPT !.pc = "login", !.target = {u}, !.row = user[u],
                                      !.sees = changes[u]]
<1>1. PICK r \in AccountRow : user[u] = {r} /\ r.version = changes[u]
  <2>1. PICK r \in user[u] : TRUE
    BY DEF Accounts!Login, Accounts!Active
  <2> QED BY <2>1 DEF AccountsInv, AccountsTyped, VersionsCount
<1>2. changes[u] \in 0..MaxVersion
  BY <1>1 DEF AccountRow
<1>3. x \in AccountRequest
  BY <1>1, <1>2 DEF AccountRequest, Accounts!Idle
<1>4. x.pc = "login" /\ x.target = {u} /\ x.row = {r} /\ r.version = x.sees
  BY <1>1 DEF Accounts!Idle
<1>5. t \in Accountants /\ tx' = [tx EXCEPT ![t] = x]
      /\ UNCHANGED <<user, sessions, changes, credential>>
  BY DEF Accounts!Login, Accountants
<1> HIDE DEF x
<1> QED BY <1>3, <1>4, <1>5, RequestKeeps

LEMMA IssueKeeps ==
  ASSUME AccountsInv, MaxVersion \in Nat, NEW t \in Changers, Accounts!IssueCredential(t)
  PROVE  AccountsInv'
<1>1. PICK s \in sessions, scopes \in SUBSET {"ingest", "review"} :
        tx' = [tx EXCEPT ![t] = [Accounts!Idle EXCEPT !.pc = "issue", !.actor = {s.user},
                                   !.row = {[scopes |-> scopes, usable |-> TRUE]}]]
  <2>1. \A role : Accounts!Granted(role) \subseteq SUBSET {"ingest", "review"}
    BY DEF Accounts!Granted
  <2> QED BY <2>1 DEF Accounts!IssueCredential
<1> DEFINE c == [scopes |-> scopes, usable |-> TRUE]
           x == [Accounts!Idle EXCEPT !.pc = "issue", !.actor = {s.user}, !.row = {c}]
<1>2. c \in CredentialRow
  BY DEF CredentialRow
<1>3. s.user \in Users
  BY DEF AccountsInv, AccountsTyped, Session
<1> HIDE DEF c
<1>4. {s.user} \in SUBSET Users /\ {c} \in SUBSET (AccountRow \cup CredentialRow)
  BY <1>2, <1>3
<1>6. x \in AccountRequest /\ x.pc = "issue" /\ x.row \subseteq CredentialRow
  BY <1>2, <1>4, AccountsIdle DEF AccountRequest
<1>5. t \in Accountants /\ tx' = [tx EXCEPT ![t] = x]
      /\ UNCHANGED <<user, sessions, changes, credential>>
  BY <1>1 DEF c, Accounts!IssueCredential, Accountants
<1> HIDE DEF x
<1> QED BY <1>5, <1>6, RequestKeeps

(* A change of an account that keeps its rights, or leaves another          *)
(* administrator.                                                           *)
LEMMA ChangeKeepsIf ==
  ASSUME AccountsInv, MaxVersion \in Nat, NEW t \in Changers, NEW s \in sessions, NEW u \in Users,
         NEW r \in user[u], NEW status \in BOOLEAN, NEW role \in Accounts!Roles,
         r.version < MaxVersion,
         Leaves(u, [r EXCEPT !.active = status, !.role = role, !.version = @ + 1]),
         tx' = [tx EXCEPT ![t] = [Accounts!Idle EXCEPT !.pc = "change", !.actor = {s.user},
                                    !.target = {u}, !.row = {Accounts!Changed(r, status, role)}]],
         UNCHANGED <<user, sessions, changes, credential>>
  PROVE  AccountsInv'
<1> DEFINE q == Accounts!Changed(r, status, role)
           x == [Accounts!Idle EXCEPT !.pc = "change", !.actor = {s.user}, !.target = {u},
                  !.row = {q}]
<1>1. r \in AccountRow /\ r.version = changes[u]
  BY DEF AccountsInv, AccountsTyped, VersionsCount
<1>2. q = [r EXCEPT !.active = status, !.role = role, !.version = r.version + 1]
  BY DEF Accounts!Changed
<1>3. r.version \in Nat /\ r.version + 1 \in 0..MaxVersion
  BY <1>1 DEF AccountRow
<1>4. q \in AccountRow /\ q.version = changes[u] + 1
  BY <1>1, <1>2, <1>3 DEF AccountRow
<1>5. Leaves(u, q)
  BY DEF Accounts!Changed
<1> HIDE DEF q
<1>6. s.user \in Users
  BY DEF AccountsInv, AccountsTyped, Session
<1>7. x \in AccountRequest /\ x.pc = "change" /\ x.target = {u} /\ x.row = {q}
  <2>1. {s.user} \in SUBSET Users /\ {u} \in SUBSET Users
        /\ {q} \in SUBSET (AccountRow \cup CredentialRow)
    BY <1>4, <1>6
  <2> QED BY <2>1, AccountsIdle DEF AccountRequest
<1>8. t \in Accountants /\ tx' = [tx EXCEPT ![t] = x]
  BY DEF Accountants, q
<1> HIDE DEF x
<1>9. \E v \in Users, p \in AccountRow :
        /\ x.target = {v} /\ x.row = {p} /\ p.version = changes[v] + 1 /\ user[v] # {}
        /\ Leaves(v, p)
  BY <1>4, <1>5, <1>7
<1> QED BY <1>7, <1>8, <1>9, RequestKeeps

LEMMA AccountsCardinality ==
  ASSUME NEW S PROVE Accounts!Cardinality(S) = Cardinality(S)
BY Zenon DEF Accounts!Cardinality, Cardinality

(* More than one administrator, or one besides who is not one.              *)
LEMMA AnotherAdmin ==
  ASSUME IsFiniteSet(Users), Accounts!AdminRemains, NEW u,
         u \notin Accounts!Admins \/ Cardinality(Accounts!Admins) > 1
  PROVE  \E w \in Accounts!Admins : w # u
<1>1. CASE Accounts!Admins \subseteq {u}
  <2>1. Accounts!Admins = {u}
    BY <1>1 DEF Accounts!AdminRemains
  <2>2. Cardinality({u}) = 1 /\ u \in {u}
    BY FS_Singleton
  <2> QED BY <2>1, <2>2
<1> QED BY <1>1

LEMMA ChangeKeeps ==
  ASSUME AccountsInv, MaxVersion \in Nat, IsFiniteSet(Users), NEW t \in Changers,
         Accounts!Change(t)
  PROVE  AccountsInv'
<1>a. PICK s \in sessions, u \in Users :
        /\ Accounts!AdminSession(s)
        /\ \E r \in user[u], status \in BOOLEAN, role \in Accounts!Roles :
             /\ r.version < MaxVersion
             /\ status = r.active \/ role = r.role
             /\ status # r.active \/ role # r.role
             /\ Accounts!MayChange(s.user, u, r, status, role)
             /\ tx' = [tx EXCEPT ![t] = [Accounts!Idle EXCEPT !.pc = "change", !.actor = {s.user},
                                           !.target = {u},
                                           !.row = {Accounts!Changed(r, status, role)}]]
  BY Zenon DEF Accounts!Change
<1>1. PICK r \in user[u], status \in BOOLEAN, role \in Accounts!Roles :
        /\ r.version < MaxVersion
        /\ Accounts!MayChange(s.user, u, r, status, role)
        /\ tx' = [tx EXCEPT ![t] = [Accounts!Idle EXCEPT !.pc = "change", !.actor = {s.user},
                                      !.target = {u}, !.row = {Accounts!Changed(r, status, role)}]]
  BY ZenonT(40), <1>a
<1>b. Accounts!MayChange(s.user, u, r, status, role)
  BY <1>1
<1>2. r \in AccountRow
  BY DEF AccountsInv, AccountsTyped
<1> DEFINE q == [r EXCEPT !.active = status, !.role = role, !.version = @ + 1]
<1>3. q.active = status /\ q.role = role
  BY <1>2 DEF AccountRow
<1>4. Leaves(u, q)
  <2>1. CASE status /\ role = "admin"
    BY <1>3, <2>1 DEF Leaves, ActiveAdmin
  <2>2. CASE ~(status /\ role = "admin")
    <3>1. u \notin Accounts!Admins \/ Cardinality(Accounts!Admins) > 1
      BY <1>b, <2>2, AccountsCardinality DEF Accounts!MayChange
    <3> QED BY <3>1, AnotherAdmin DEF AccountsInv, Leaves
  <2> QED BY <2>1, <2>2
<1> QED BY <1>1, <1>4, ChangeKeepsIf DEF Accounts!Change

LEMMA ChangePasswordKeeps ==
  ASSUME AccountsInv, MaxVersion \in Nat, IsFiniteSet(Users), NEW t \in Changers,
         Accounts!ChangePassword(t)
  PROVE  AccountsInv'
<1>a. PICK s \in sessions, u \in Users : \E r \in user[u] :
        /\ r.version < MaxVersion
        /\ tx' = [tx EXCEPT ![t] = [Accounts!Idle EXCEPT !.pc = "change", !.actor = {s.user},
                                 !.target = {u}, !.row = {Accounts!Changed(r, r.active, r.role)}]]
  BY DEF Accounts!ChangePassword
<1>1. PICK r \in user[u] :
        /\ r.version < MaxVersion
        /\ tx' = [tx EXCEPT ![t] = [Accounts!Idle EXCEPT !.pc = "change", !.actor = {s.user},
                                 !.target = {u}, !.row = {Accounts!Changed(r, r.active, r.role)}]]
  BY <1>a
<1>2. r \in AccountRow /\ r.active \in BOOLEAN /\ r.role \in Accounts!Roles
  BY DEF AccountsInv, AccountsTyped, AccountRow
<1> DEFINE q == [r EXCEPT !.active = r.active, !.role = r.role, !.version = @ + 1]
<1>3. q.active = r.active /\ q.role = r.role
  BY <1>2 DEF AccountRow
<1>4. Leaves(u, q)
  <2>1. CASE ActiveAdmin(r)
    BY <1>3, <2>1 DEF Leaves, ActiveAdmin
  <2>2. CASE ~ActiveAdmin(r)
    <3>1. \A p \in user[u] : p = r
      BY DEF AccountsInv, VersionsCount
    <3>2. u \notin Accounts!Admins
      BY <2>2, <3>1 DEF Accounts!Admins, ActiveAdmin
    <3> QED BY <3>2, AnotherAdmin DEF AccountsInv, Leaves
  <2> QED BY <2>1, <2>2
<1> QED BY <1>1, <1>2, <1>4, ChangeKeepsIf DEF Accounts!ChangePassword

(* The end of a request.                                                    *)
LEMMA AccountsEnd ==
  ASSUME AccountsInv, MaxVersion \in Nat, NEW t \in Accountants,
         tx' = [tx EXCEPT ![t] = Accounts!Idle]
  PROVE  /\ tx' \in [Accountants -> AccountRequest]
         /\ tx'[t].pc = "idle" /\ \A s \in Accountants \ {t} : tx'[s] = tx[s]
BY AccountsIdle DEF AccountsInv, AccountsTyped

LEMMA CommitLoginKeeps ==
  ASSUME AccountsInv, MaxVersion \in Nat, NEW t \in Logins, Accounts!CommitLogin(t)
  PROVE  AccountsInv'
<1>1. t \in Accountants /\ tx[t] \in AccountRequest
  BY DEF Accountants, AccountsInv, AccountsTyped
<1>2. PICK u \in Users, r \in AccountRow :
        tx[t].target = {u} /\ tx[t].row = {r} /\ r.version = tx[t].sees
  BY <1>1 DEF AccountsInv, LoginsRead, Accounts!CommitLogin
<1>3. tx[t].sees \in 0..MaxVersion
  BY <1>1 DEF AccountRequest
<1>4. Accounts!IssuedVersion(t, u) = tx[t].sees
  BY <1>2, <1>3 DEF Accounts!IssuedVersion
<1> DEFINE s == [user |-> u, version |-> tx[t].sees, after |-> tx[t].sees]
<1>5. sessions' = sessions \cup {s}
  BY <1>2, <1>4 DEF Accounts!CommitLogin
<1>6. s \in Session /\ s.version = s.after
  BY <1>3 DEF Session
<1>7. tx' \in [Accountants -> AccountRequest]
      /\ tx'[t].pc = "idle" /\ \A v \in Accountants \ {t} : tx'[v] = tx[v]
  BY <1>1, AccountsEnd DEF Accounts!CommitLogin
<1>8. UNCHANGED <<user, changes, credential>>
  BY DEF Accounts!CommitLogin
<1>9. AccountsTyped'
  BY <1>5, <1>6, <1>7, <1>8 DEF AccountsInv, AccountsTyped
<1>10. VersionsCount'
  BY <1>8 DEF AccountsInv, VersionsCount
<1>11. LoginsRead'
  BY <1>5, <1>6, <1>7 DEF AccountsInv, LoginsRead
<1>12. Accounts!Admins' = Accounts!Admins
  BY <1>8 DEF Accounts!Admins
<1>13. ChangesFit'
  BY <1>7, <1>8, <1>12 DEF AccountsInv, ChangesFit, Leaves
<1> QED BY <1>9, <1>10, <1>11, <1>12, <1>13 DEF AccountsInv, Accounts!AdminRemains

LEMMA EndSessionKeeps ==
  ASSUME AccountsInv, Accounts!EndSession PROVE AccountsInv'
<1>1. sessions' \subseteq sessions /\ UNCHANGED <<user, changes, credential, tx>>
  BY DEF Accounts!EndSession
<1>2. Accounts!Admins' = Accounts!Admins
  BY <1>1 DEF Accounts!Admins
<1>3. AccountsTyped' /\ VersionsCount' /\ LoginsRead'
  BY <1>1 DEF AccountsInv, AccountsTyped, VersionsCount, LoginsRead
<1>4. ChangesFit'
  BY <1>1, <1>2 DEF AccountsInv, ChangesFit, Leaves
<1> QED BY <1>2, <1>3, <1>4 DEF AccountsInv, Accounts!AdminRemains

LEMMA CreateUserKeeps ==
  ASSUME AccountsInv, MaxVersion \in Nat, Accounts!CreateUser PROVE AccountsInv'
<1>1. PICK u \in Users, role \in Accounts!Roles :
        user[u] = {} /\ user' = [user EXCEPT ![u] = Accounts!NewUser(role)]
  BY DEF Accounts!CreateUser
<1> DEFINE first == [role |-> role, active |-> TRUE, version |-> 0]
<1>2. first \in AccountRow /\ first.version = 0
  BY DEF AccountRow
<1>3. user' = [user EXCEPT ![u] = {first}]
  BY <1>1 DEF Accounts!NewUser
<1> HIDE DEF first
<1>4. user' \in [Users -> SUBSET AccountRow] /\ user'[u] = {first}
      /\ \A v \in Users \ {u} : user'[v] = user[v]
  BY <1>2, <1>3 DEF AccountsInv, AccountsTyped
<1>5. UNCHANGED <<sessions, changes, credential, tx>>
  BY DEF Accounts!CreateUser
<1>6. Accounts!Admins \subseteq Accounts!Admins'
  BY <1>1, <1>4 DEF Accounts!Admins
<1>7. AccountsTyped' /\ LoginsRead'
  BY <1>4, <1>5 DEF AccountsInv, AccountsTyped, LoginsRead
<1>8. VersionsCount'
  BY <1>1, <1>2, <1>4, <1>5 DEF AccountsInv, VersionsCount
<1>9. ChangesFit'
  BY <1>4, <1>5, <1>6 DEF AccountsInv, ChangesFit, Leaves
<1> QED BY <1>6, <1>7, <1>8, <1>9 DEF AccountsInv, Accounts!AdminRemains

(* A change is committed to the row as it was read, if changes are made one *)
(* at a time.                                                               *)
LEMMA CommitChangeKeeps ==
  ASSUME AccountsInv, MaxVersion \in Nat, OneChanger, NEW t \in Changers, Accounts!CommitChange(t)
  PROVE  AccountsInv'
<1>1. t \in Accountants /\ tx[t].pc = "change"
  BY DEF Accountants, Accounts!CommitChange
<1>2. PICK u \in Users, q \in AccountRow :
        /\ tx[t].target = {u} /\ tx[t].row = {q}
        /\ q.version = changes[u] + 1 /\ user[u] # {}
        /\ Leaves(u, q)
  BY <1>1 DEF AccountsInv, ChangesFit
<1>3. user' \in [Users -> SUBSET AccountRow] /\ user'[u] = {q}
      /\ \A v \in Users \ {u} : user'[v] = user[v]
  BY <1>2 DEF AccountsInv, AccountsTyped, Accounts!CommitChange
<1>4. changes' \in [Users -> Nat] /\ changes'[u] = changes[u] + 1
      /\ \A v \in Users \ {u} : changes'[v] = changes[v]
  BY <1>2 DEF AccountsInv, AccountsTyped, Accounts!CommitChange
<1>5. tx' \in [Accountants -> AccountRequest]
      /\ tx'[t].pc = "idle" /\ \A s \in Accountants \ {t} : tx'[s] = tx[s]
  BY <1>1, AccountsEnd DEF Accounts!CommitChange
<1>6. UNCHANGED <<sessions, credential>>
  BY DEF Accounts!CommitChange
<1>7. AccountsTyped'
  BY <1>3, <1>4, <1>5, <1>6 DEF AccountsInv, AccountsTyped
<1>8. VersionsCount'
  BY <1>2, <1>3, <1>4 DEF AccountsInv, VersionsCount
<1>9. LoginsRead'
  BY <1>5, <1>6 DEF AccountsInv, LoginsRead
<1>10. ChangesFit'
  <2>1. \A s \in Accountants : tx'[s].pc # "change"
    BY <1>5 DEF AccountsInv, ChangesFit, OneChanger
  <2> QED BY <1>5, <2>1 DEF AccountsInv, ChangesFit
<1>11. Accounts!AdminRemains'
  <2>1. CASE ActiveAdmin(q)
    BY <1>3, <2>1 DEF ActiveAdmin, Accounts!AdminRemains, Accounts!Admins
  <2>2. CASE ~ActiveAdmin(q)
    BY <1>2, <1>3, <2>2 DEF Leaves, Accounts!AdminRemains, Accounts!Admins
  <2> QED BY <2>1, <2>2
<1> QED BY <1>7, <1>8, <1>9, <1>10, <1>11 DEF AccountsInv

(* What is done to credentials does not concern the accounts.               *)
LEMMA CredentialsKeep ==
  ASSUME AccountsInv, credential' \in [Credentials -> SUBSET CredentialRow],
         UNCHANGED <<user, sessions, changes>>,
         tx' \in [Accountants -> AccountRequest],
         \A s \in Accountants : tx'[s] = tx[s] \/ tx'[s].pc = "idle"
  PROVE  AccountsInv'
<1>1. Accounts!Admins' = Accounts!Admins
  BY DEF Accounts!Admins
<1>2. AccountsTyped' /\ VersionsCount' /\ LoginsRead'
  BY DEF AccountsInv, AccountsTyped, VersionsCount, LoginsRead
<1>3. ChangesFit'
  <2> SUFFICES ASSUME NEW s \in Accountants, tx'[s] = tx[s]
               PROVE  /\ tx'[s].pc \in {"change", "issue"} => s \in Changers
                      /\ tx'[s].pc = "issue" => tx'[s].row \subseteq CredentialRow
                      /\ tx'[s].pc = "change" =>
                           \E u \in Users, q \in AccountRow :
                             /\ tx'[s].target = {u} /\ tx'[s].row = {q}
                             /\ q.version = changes'[u] + 1 /\ user'[u] # {}
                             /\ Leaves(u, q)'
    BY DEF ChangesFit
  <2> QED BY <1>1 DEF AccountsInv, ChangesFit, Leaves
<1> QED BY <1>1, <1>2, <1>3 DEF AccountsInv, Accounts!AdminRemains

LEMMA CommitCredentialKeeps ==
  ASSUME AccountsInv, MaxVersion \in Nat, NEW t \in Changers, Accounts!CommitCredential(t)
  PROVE  AccountsInv'
<1>1. t \in Accountants /\ tx[t].row \subseteq CredentialRow
  BY DEF Accountants, Accounts!CommitCredential, AccountsInv, ChangesFit
<1>2. credential' \in [Credentials -> SUBSET CredentialRow]
  BY <1>1 DEF Accounts!CommitCredential, AccountsInv, AccountsTyped
<1>3. /\ tx' \in [Accountants -> AccountRequest]
      /\ \A s \in Accountants : tx'[s] = tx[s] \/ tx'[s].pc = "idle"
  BY <1>1, AccountsEnd DEF Accounts!CommitCredential
<1> QED BY <1>2, <1>3, CredentialsKeep DEF Accounts!CommitCredential

LEMMA RevokeKeeps ==
  ASSUME AccountsInv, NEW c \in Credentials, Accounts!Revoke(c),
         UNCHANGED <<user, sessions, changes, tx>>
  PROVE  AccountsInv'
<1>1. \A r \in CredentialRow : [r EXCEPT !.usable = FALSE] \in CredentialRow
  BY DEF CredentialRow
<1>2. credential' \in [Credentials -> SUBSET CredentialRow]
  BY <1>1 DEF Accounts!Revoke, AccountsInv, AccountsTyped
<1> QED BY <1>2, CredentialsKeep DEF AccountsInv, AccountsTyped

LEMMA AccountsStep ==
  ASSUME AccountsInv, MaxVersion \in Nat, IsFiniteSet(Users), OneChanger,
         [Accounts!Next]_Accounts!vars
  PROVE  AccountsInv'
<1>1. CASE UNCHANGED Accounts!vars
  <2>1. UNCHANGED <<user, sessions, changes, credential, tx>>
    BY <1>1 DEF Accounts!vars
  <2> QED BY <2>1, CredentialsKeep DEF AccountsInv, AccountsTyped
<1>2. CASE \E t \in Logins : Accounts!CommitLogin(t) \/ \E u \in Users : Accounts!Login(t, u)
  BY <1>2, CommitLoginKeeps, LoginKeeps
<1>3. CASE \E t \in Changers : \/ Accounts!Change(t) \/ Accounts!ChangePassword(t)
                               \/ Accounts!CommitChange(t)
  BY <1>3, ChangeKeeps, ChangePasswordKeeps, CommitChangeKeeps
<1>4. CASE Accounts!CreateUser \/ Accounts!EndSession
  BY <1>4, CreateUserKeeps, EndSessionKeeps
<1>5. CASE \E t \in Changers : Accounts!IssueCredential(t) \/ Accounts!CommitCredential(t)
  BY <1>5, IssueKeeps, CommitCredentialKeeps
<1>6. CASE \E c \in Credentials : Accounts!RevokeCredential(c) \/ Accounts!ExpireCredential(c)
  BY <1>6, RevokeKeeps DEF Accounts!RevokeCredential, Accounts!ExpireCredential
<1> QED BY <1>1, <1>2, <1>3, <1>4, <1>5, <1>6 DEF Accounts!Next

(* The accounts are the only actors of their scope.                         *)
LEMMA AccountsScope ==
  ASSUME [Next]_vars, scope' = "accounts"
  PROVE  scope = "accounts" /\ [Accounts!Next]_Accounts!vars
BY DEF Next, vars, accounts, Accounts!vars, PracticesNext, PilotsNext, AccountsNext, ProfilesNext,
       BackupsNext, EditionNext, LimitsNext, ProtocolNext, ReadingsNext, BatchesNext

AccountsHold == scope = "accounts" => AccountsInv

(* What holds of accounts in every behaviour, changes one at a time.        *)
LEMMA AccountsHoldAlways ==
  ASSUME OneChanger PROVE Spec => []AccountsHold
<1>1. Init => AccountsHold
  BY AccountsInit, AccountsAssumption DEF Init, AccountsHold
<1>2. AccountsHold /\ [Next]_vars => AccountsHold'
  BY AccountsScope, AccountsStep, AccountsAssumption DEF AccountsHold
<1> QED BY <1>1, <1>2, PTL DEF Spec

(* An active administrator remains, whatever roles and statuses are changed *)
(* by sessions that began before (update_user_status, update_user_role), if *)
(* no two changes overlap: the administrators are counted without a lock.   *)
THEOREM AdministratorsRemain ==
  ASSUME OneChanger PROVE Spec => []AdminRemains
<1>1. AccountsHold => AdminRemains
  BY DEF AccountsHold, AccountsInv, AdminRemains
<1> QED BY <1>1, AccountsHoldAlways, PTL

(* A session that is accepted rests on a password, a status and a role read *)
(* after the last change of its user, although the login may have           *)
(* overlapped with it (login, current_user), if no two changes overlap.     *)
THEOREM SessionsEnd ==
  ASSUME OneChanger PROVE Spec => []SessionsEndWithChanges
<1>1. AccountsInv => Accounts!SessionsEndWithChanges
  BY DEF AccountsInv, AccountsTyped, Session, VersionsCount, LoginsRead,
         Accounts!SessionsEndWithChanges, Accounts!Accepted
<1>2. AccountsHold => SessionsEndWithChanges
  BY <1>1 DEF AccountsHold, SessionsEndWithChanges
<1> QED BY <1>2, AccountsHoldAlways, PTL
-----------------------------------------------------------------------------
Grant == [at : Nat, expires : Nat, count : 1..Limit]

LimitsTyped ==
  /\ clock \in Nat
  /\ counter \subseteq [expires : Nat, count : Nat \ {0}]
  /\ \A c, d \in counter : c = d
  /\ stamp \in [Requests -> SUBSET Nat]
  /\ \A t \in Requests : \A n \in stamp[t] : n <= clock /\ clock <= n + MaxDelay
  /\ granted \subseteq Grant

(* A request is let through by a window that has begun, and at the latest   *)
(* when one that was held up has read the clock before its end.             *)
InTime ==
  /\ \A g \in granted : /\ g.expires <= g.at + Window /\ g.at < g.expires + MaxDelay
                        /\ g.at <= clock
  /\ \A c \in counter : c.expires <= clock + Window

(* Windows do not overlap, and each counts on.                              *)
Apart ==
  \A g, h \in granted :
    /\ g.expires < h.expires => g.expires + Window <= h.expires
    /\ g.expires = h.expires /\ g.count = h.count => g = h
Latest ==
  \A g \in granted :
    /\ \A c \in counter : \/ g.expires = c.expires /\ g.count <= c.count
                          \/ g.expires + Window <= c.expires
    /\ counter = {} => g.expires + Window < clock

LimitsInv == LimitsTyped /\ InTime /\ Apart /\ Latest
-----------------------------------------------------------------------------
LEMMA LimitsInit ==
  ASSUME RateLimits!Init PROVE LimitsInv
BY DEF RateLimits!Init, LimitsInv, LimitsTyped, InTime, Apart, Latest

LEMMA ReadClockKeeps ==
  ASSUME LimitsInv, NEW t \in Requests, RateLimits!ReadClock(t) PROVE LimitsInv'
<1>1. stamp' = [stamp EXCEPT ![t] = {clock}] /\ UNCHANGED <<clock, counter, granted>>
  BY DEF RateLimits!ReadClock
<1>2. LimitsTyped'
  BY <1>1, LimitsAssumption DEF LimitsInv, LimitsTyped
<1> QED BY <1>1, <1>2 DEF LimitsInv, InTime, Apart, Latest

LEMMA PurgeKeeps ==
  ASSUME LimitsInv, RateLimits!Purge PROVE LimitsInv'
<1>1. counter' = {} /\ UNCHANGED <<clock, stamp, granted>>
  BY DEF RateLimits!Purge
<1>2. PICK c \in counter : c.expires + Window < clock
  BY DEF RateLimits!Purge
<1>3. Latest'
  <2>1. \A g \in granted : g.expires \in Nat /\ c.expires \in Nat
    BY DEF LimitsInv, LimitsTyped, Grant
  <2>2. \A g \in granted : g.expires + Window < clock
    BY <1>2, <2>1, LimitsAssumption DEF LimitsInv, LimitsTyped, Latest
  <2> QED BY <1>1, <2>2 DEF Latest
<1> QED BY <1>1, <1>3 DEF LimitsInv, LimitsTyped, InTime, Apart

LEMMA TickKeeps ==
  ASSUME LimitsInv, RateLimits!Tick PROVE LimitsInv'
<1>1. clock' = clock + 1 /\ UNCHANGED <<counter, stamp, granted>>
      /\ \A t \in Requests : \A n \in stamp[t] : clock < n + MaxDelay
  BY DEF RateLimits!Tick
<1>2. \A t \in Requests : stamp[t] \subseteq Nat
  BY DEF LimitsInv, LimitsTyped
<1>3. LimitsTyped'
  BY <1>1, <1>2, LimitsAssumption DEF LimitsInv, LimitsTyped
<1>4. InTime'
  <2>1. \A g \in granted : g.at \in Nat
    BY DEF LimitsInv, LimitsTyped, Grant
  <2>2. \A c \in counter : c.expires \in Nat
    BY DEF LimitsInv, LimitsTyped
  <2> QED BY <1>1, <2>1, <2>2, LimitsAssumption DEF LimitsInv, LimitsTyped, InTime
<1>5. Latest'
  <2>1. \A g \in granted : g.expires \in Nat
    BY DEF LimitsInv, LimitsTyped, Grant
  <2> QED BY <1>1, <2>1, LimitsAssumption DEF LimitsInv, LimitsTyped, Latest
<1> QED BY <1>1, <1>3, <1>4, <1>5 DEF LimitsInv, Apart

(* A request counts in the window of the counter, or begins the next.       *)
LEMMA ConsumeKeeps ==
  ASSUME MaxDelay <= Window, LimitsInv, NEW t \in Requests, RateLimits!Consume(t)
  PROVE  LimitsInv'
<1>1. PICK moment \in stamp[t] :
        LET c == IF counter = {} THEN RateLimits!NewWindow(moment)
                 ELSE RateLimits!Used(CHOOSE d \in counter : TRUE, moment)
        IN  /\ counter' = {c}
            /\ granted' = granted \cup {[at |-> clock, expires |-> d.expires, count |-> d.count] :
                                          d \in {e \in counter' : RateLimits!Allowed(e)}}
  BY DEF RateLimits!Consume
<1>2. stamp' = [stamp EXCEPT ![t] = {}] /\ clock' = clock
  BY DEF RateLimits!Consume
<1>3. moment \in Nat /\ moment <= clock /\ clock <= moment + MaxDelay /\ clock \in Nat
  BY DEF LimitsInv, LimitsTyped
<1> DEFINE c == IF counter = {} THEN RateLimits!NewWindow(moment)
                ELSE RateLimits!Used(CHOOSE d \in counter : TRUE, moment)
           g == [at |-> clock, expires |-> c.expires, count |-> c.count]
<1>4. counter' = {c} /\ granted' = granted \cup {x \in {g} : RateLimits!Allowed(c)}
  BY <1>1
<1>0. /\ \A h \in granted : h.expires \in Nat /\ h.at \in Nat /\ h.count \in 1..Limit
          /\ \A d \in counter : d.expires \in Nat /\ d.count \in Nat \ {0}
  BY DEF LimitsInv, LimitsTyped, Grant
(* How the new count stands to the grants before.                           *)
<1>5. /\ c.expires \in Nat /\ c.count \in Nat \ {0} /\ c \in [expires : Nat, count : Nat \ {0}]
      /\ c.expires <= clock + Window /\ clock < c.expires + MaxDelay
      /\ \A h \in granted : \/ h.expires = c.expires /\ h.count < c.count
                            \/ h.expires + Window <= c.expires
                            \/ h.expires = c.expires /\ h.count = c.count /\ c.count > Limit
  <2>1. CASE counter = {}
    <3>1. c = [expires |-> moment + Window, count |-> 1]
      BY <2>1 DEF RateLimits!NewWindow
    <3>2. \A h \in granted : h.expires + Window < clock
      BY <2>1 DEF LimitsInv, Latest
    <3> HIDE DEF c
    <3>3. c.expires = moment + Window /\ c.count = 1
      BY <3>1
    <3> QED BY <1>3, <1>0, <3>1, <3>2, <3>3, LimitsAssumption
  <2>2. CASE counter # {}
    <3>1. PICK d \in counter : counter = {d}
      BY <2>2 DEF LimitsInv, LimitsTyped
    <3>2. c = RateLimits!Used(d, moment)
      BY <3>1
    <3>3. /\ d \in [expires : Nat, count : Nat \ {0}] /\ d.expires <= clock + Window
          /\ \A h \in granted : \/ h.expires = d.expires /\ h.count <= d.count
                                \/ h.expires + Window <= d.expires
      BY DEF LimitsInv, LimitsTyped, InTime, Latest
    <3> HIDE DEF c
    <3>4. CASE d.expires <= moment
      <4>1. c = [expires |-> moment + Window, count |-> 1]
        BY <3>2, <3>4 DEF RateLimits!Used, RateLimits!NewWindow
      <4>2. c.expires = moment + Window /\ c.count = 1
        BY <4>1
      <4> QED BY <1>3, <1>0, <3>3, <3>4, <4>1, <4>2, LimitsAssumption
    <3>5. CASE ~(d.expires <= moment)
      <4> DEFINE n == IF d.count > Limit THEN d.count ELSE d.count + 1
      <4>1. n \in Nat \ {0}
        BY <3>3
      <4>2. c = [d EXCEPT !.count = n]
        BY <3>2, <3>5 DEF RateLimits!Used
      <4>3. d.count < n \/ (d.count = n /\ n > Limit)
        BY <3>3
      <4> HIDE DEF n
      <4>4. c.expires = d.expires /\ c.count = n /\ c \in [expires : Nat, count : Nat \ {0}]
        BY <3>3, <4>1, <4>2
      <4>5. \A h \in granted : \/ h.expires = c.expires /\ h.count < c.count
                               \/ h.expires + Window <= c.expires
                               \/ h.expires = c.expires /\ h.count = c.count /\ c.count > Limit
        BY <1>0, <3>3, <4>1, <4>3, <4>4, LimitsAssumption
      <4> QED BY <1>3, <3>3, <3>5, <4>4, <4>5, LimitsAssumption
    <3> QED BY <3>4, <3>5
  <2> QED BY <2>1, <2>2
<1> HIDE DEF c
<1>6. RateLimits!Allowed(c) => /\ c.count \in 1..Limit /\ g \in Grant
  BY <1>3, <1>5, LimitsAssumption DEF RateLimits!Allowed, Grant
<1>7. g.at = clock /\ g.expires = c.expires /\ g.count = c.count
  OBVIOUS
<1> HIDE DEF g
<1>8. LimitsTyped'
  BY <1>2, <1>4, <1>5, <1>6 DEF LimitsInv, LimitsTyped
<1>9. InTime'
  BY <1>2, <1>3, <1>4, <1>5, <1>7 DEF LimitsInv, InTime
<1>10. Apart'
  <2> SUFFICES ASSUME NEW x \in granted', NEW y \in granted'
               PROVE  /\ x.expires < y.expires => x.expires + Window <= y.expires
                      /\ x.expires = y.expires /\ x.count = y.count => x = y
    BY DEF Apart
  <2>1. CASE x \in granted /\ y \in granted
    BY <2>1 DEF LimitsInv, Apart
  <2>2. CASE x = g /\ y = g
    BY <2>2, <1>7, <1>5
  <2>3. CASE RateLimits!Allowed(c) /\ x \in granted /\ y = g
    BY <1>5, <1>6, <1>7, <1>0, <2>3, LimitsAssumption
  <2>4. CASE RateLimits!Allowed(c) /\ x = g /\ y \in granted
    BY <1>5, <1>6, <1>7, <1>0, <2>4, LimitsAssumption
  <2> QED BY <1>4, <2>1, <2>2, <2>3, <2>4
<1>11. Latest'
  <2> SUFFICES ASSUME NEW x \in granted'
               PROVE  \/ x.expires = c.expires /\ x.count <= c.count
                      \/ x.expires + Window <= c.expires
    BY <1>4 DEF Latest
  <2>1. CASE x \in granted
    BY <1>5, <1>0, <2>1
  <2>2. CASE x = g
    BY <1>5, <1>7, <2>2
  <2> QED BY <1>4, <2>1, <2>2
<1> QED BY <1>8, <1>9, <1>10, <1>11 DEF LimitsInv

LEMMA LimitsStep ==
  ASSUME MaxDelay <= Window, LimitsInv, [RateLimits!Next]_RateLimits!vars
  PROVE  LimitsInv'
<1>1. CASE UNCHANGED RateLimits!vars
  BY <1>1 DEF RateLimits!vars, LimitsInv, LimitsTyped, InTime, Apart, Latest
<1> QED BY <1>1, ReadClockKeeps, ConsumeKeeps, PurgeKeeps, TickKeeps DEF RateLimits!Next

(* The grants of one window are at most Limit.                              *)
LEMMA OneLimit ==
  ASSUME LimitsInv, NEW S \in SUBSET granted, NEW e, \A g \in S : g.expires = e
  PROVE  IsFiniteSet(S) /\ Cardinality(S) \in Nat /\ Cardinality(S) <= Limit
<1> DEFINE f == [g \in S |-> g.count]
<1>1. f \in Injection(S, 1..Limit)
  <2>1. f \in [S -> 1..Limit]
    BY DEF LimitsInv, LimitsTyped, Grant
  <2>2. \A g, h \in S : f[g] = f[h] => g = h
    BY DEF LimitsInv, Apart
  <2> QED BY <2>1, <2>2 DEF Injection, IsInjective
<1>2. IsFiniteSet(1..Limit) /\ Cardinality(1..Limit) = Limit
  BY FS_Interval, LimitsAssumption
<1>3. IsFiniteSet(S) /\ Cardinality(S) <= Limit
  BY <1>1, <1>2, FS_Injection
<1> QED BY <1>3, FS_CardinalityType

(* A stretch that is short enough meets at most two windows.                *)
LEMMA TwoWindows ==
  ASSUME MaxDelay <= Window, LimitsInv, NEW from \in Nat, NEW to \in Nat,
         to - from <= Window - MaxDelay
  PROVE  Cardinality(RateLimits!GrantedIn(from, to)) <= 2 * Limit
<1> DEFINE S == RateLimits!GrantedIn(from, to)
<1>1. S \subseteq granted /\ \A g \in S : /\ from <= g.at /\ g.at <= to /\ g.at \in Nat
                                          /\ g.expires \in Nat
                                          /\ g.expires <= g.at + Window
                                          /\ g.at < g.expires + MaxDelay
  BY DEF RateLimits!GrantedIn, LimitsInv, LimitsTyped, InTime, Grant
<1> HIDE DEF S
<1>2. \A g, h, i \in S : ~(g.expires < h.expires /\ h.expires < i.expires)
  <2> SUFFICES ASSUME NEW g \in S, NEW h \in S, NEW i \in S,
                      g.expires < h.expires, h.expires < i.expires
               PROVE  FALSE
    OBVIOUS
  <2>1. g.expires + Window <= h.expires /\ h.expires + Window <= i.expires
    BY <1>1 DEF LimitsInv, Apart
  <2>2. /\ g.at \in Nat /\ i.at \in Nat /\ g.expires \in Nat /\ h.expires \in Nat
        /\ i.expires \in Nat
        /\ from <= g.at /\ g.at < g.expires + MaxDelay
        /\ i.at <= to /\ i.expires <= i.at + Window
    BY <1>1
  <2> QED BY <2>1, <2>2, LimitsAssumption
<1>3. PICK e1, e2 : \A g \in S : g.expires = e1 \/ g.expires = e2
  <2>1. CASE S = {}
    BY <2>1
  <2>2. CASE \E g \in S : \A h \in S : h.expires = g.expires
    BY <2>2
  <2>3. CASE \E g, h \in S : g.expires # h.expires
    <3>1. PICK g \in S, h \in S : g.expires < h.expires
      BY <1>1, <2>3
    <3>2. \A i \in S : i.expires = g.expires \/ i.expires = h.expires
      BY <1>1, <1>2, <3>1
    <3> QED BY <3>2
  <2> QED BY <2>1, <2>2, <2>3
<1> DEFINE S1 == {g \in S : g.expires = e1}
           S2 == {g \in S : g.expires = e2}
<1>4. S = S1 \cup S2
  BY <1>3
<1>5. /\ IsFiniteSet(S1) /\ Cardinality(S1) \in Nat /\ Cardinality(S1) <= Limit
      /\ IsFiniteSet(S2) /\ Cardinality(S2) \in Nat /\ Cardinality(S2) <= Limit
  BY <1>1, OneLimit
<1>6. IsFiniteSet(S1 \cap S2) /\ Cardinality(S1 \cap S2) \in Nat
  BY <1>5, FS_Intersection, FS_CardinalityType
<1>7. Cardinality(S1 \cup S2) = Cardinality(S1) + Cardinality(S2) - Cardinality(S1 \cap S2)
  BY <1>5, FS_Union
<1> HIDE DEF S1, S2
<1>8. Cardinality(S1 \cup S2) <= 2 * Limit
  BY <1>5, <1>6, <1>7, LimitsAssumption
<1> QED BY <1>4, <1>8 DEF S

LEMMA LimitsCardinality ==
  ASSUME NEW S PROVE RateLimits!Cardinality(S) = Cardinality(S)
BY Zenon DEF RateLimits!Cardinality, Cardinality

LEMMA LimitsScope ==
  ASSUME [Next]_vars, scope' = "limits"
  PROVE  scope = "limits" /\ [RateLimits!Next]_RateLimits!vars
BY DEF Next, vars, limits, RateLimits!vars, PracticesNext, PilotsNext, AccountsNext, ProfilesNext,
       BackupsNext, EditionNext, LimitsNext, ProtocolNext, ReadingsNext, BatchesNext

LimitsHold == scope = "limits" => LimitsInv

(* Two limits are the most that any stretch of time as long as a window,    *)
(* less the delay of a request, lets through, whatever requests read the    *)
(* clock before they wait for the counter (consume_rate_limit).             *)
THEOREM LimitsAreKept == Spec => []TwiceTheLimit
<1>1. CASE MaxDelay <= Window
  <2>1. Init => LimitsHold
    BY LimitsInit DEF Init, LimitsHold
  <2>2. LimitsHold /\ [Next]_vars => LimitsHold'
    BY <1>1, LimitsScope, LimitsStep DEF LimitsHold
  <2>3. LimitsHold => TwiceTheLimit
    <3>1. 0..MaxTime \subseteq Nat
      OBVIOUS
    <3> QED BY <1>1, <3>1, TwoWindows, LimitsCardinality
            DEF LimitsHold, TwiceTheLimit, RateLimits!TwiceTheLimit
  <2> QED BY <2>1, <2>2, <2>3, PTL DEF Spec
<1>2. CASE ~(MaxDelay <= Window)
  <2> DEFINE Timed == scope = "limits" => clock \in Nat /\ \A g \in granted : g.at \in Nat
  <2>1. Init => Timed
    BY DEF Init, RateLimits!Init
  <2>2. ASSUME Timed, [Next]_vars, scope' = "limits"
        PROVE  clock' \in Nat /\ \A g \in granted' : g.at \in Nat
    <3>1. clock \in Nat /\ \A g \in granted : g.at \in Nat
      BY <2>2, LimitsScope
    <3>2. CASE UNCHANGED RateLimits!vars
      BY <3>1, <3>2 DEF RateLimits!vars
    <3>3. ASSUME NEW t \in Requests, RateLimits!Consume(t)
          PROVE  clock' = clock /\ \A g \in granted' : g \in granted \/ g.at = clock
      BY <3>3 DEF RateLimits!Consume
    <3>4. CASE \E t \in Requests : RateLimits!ReadClock(t)
      BY <3>1, <3>4 DEF RateLimits!ReadClock
    <3>5. CASE RateLimits!Purge \/ RateLimits!Tick
      BY <3>1, <3>5 DEF RateLimits!Purge, RateLimits!Tick
    <3> QED BY <2>2, <3>1, <3>2, <3>3, <3>4, <3>5, LimitsScope DEF RateLimits!Next
  <2>3. Timed => TwiceTheLimit
    <3> SUFFICES ASSUME Timed, scope = "limits", NEW from \in 0..MaxTime, NEW to \in 0..MaxTime,
                        to - from <= Window - MaxDelay
                 PROVE  Cardinality(RateLimits!GrantedIn(from, to)) <= 2 * Limit
      BY LimitsCardinality DEF TwiceTheLimit, RateLimits!TwiceTheLimit
    <3>1. to < from
      BY <1>2, LimitsAssumption
    <3>2. RateLimits!GrantedIn(from, to) = {}
      BY <3>1 DEF RateLimits!GrantedIn
    <3> QED BY <3>2, FS_EmptySet, LimitsAssumption
  <2>4. Timed /\ [Next]_vars => Timed'
    BY <2>2
  <2> HIDE DEF Timed
  <2> QED BY <2>1, <2>3, <2>4, PTL DEF Spec
<1> QED BY <1>1, <1>2
-----------------------------------------------------------------------------
ProfileVersion == [number : Nat, config : Configs, active : BOOLEAN]
ProfileRequest == [pc : {"idle", "activate", "create", "insert", "switch"}, config : SUBSET Configs,
            active : SUBSET Nat, number : Nat]

ProfilesTyped ==
  /\ overlap \in BOOLEAN
  /\ versions \subseteq ProfileVersion
  /\ tx \in [Requests -> ProfileRequest]

(* Numbers have no gaps, and the one that a request has read is of a        *)
(* version, or the next.                                                    *)
NumberedTo(n) ==
  /\ {v.number : v \in versions} = 1..n
  /\ \A t \in Requests : tx[t].pc = "insert" => tx[t].number \in 1..(n + 1)
Numbered == \E n \in Nat : NumberedTo(n)

Unique ==
  \A v, w \in versions : v.number = w.number \/ v.config = w.config => v = w

(* A request works for one configuration, stored if it will activate it.    *)
RequestsWork ==
  \A t \in Requests :
    /\ tx[t].pc # "idle" => \E c \in Configs : tx[t].config = {c}
    /\ tx[t].pc \in {"activate", "switch"} => \A c \in tx[t].config : Profiles!Stored(c)

(* Requests that do not overlap find the active version as they read it.    *)
OneActive == \E v \in versions : Profiles!Actives = {v}
ProfilesAlone ==
  /\ \A s, t \in Requests : tx[s].pc # "idle" /\ tx[t].pc # "idle" => s = t
  /\ \A t \in Requests : tx[t].pc \in {"insert", "switch"} =>
       tx[t].active = {v.number : v \in Profiles!Actives}
  /\ versions = {} \/ OneActive

ProfilesInv == ProfilesTyped /\ Numbered /\ Unique /\ RequestsWork /\ (~overlap => ProfilesAlone)
-----------------------------------------------------------------------------
(* A profile without versions and requests.                                 *)
LEMMA ProfilesInit ==
  ASSUME Profiles!Init PROVE ProfilesInv
<1>1. \A t \in Requests : tx[t] = Profiles!Idle /\ tx[t].pc = "idle"
  BY DEF Profiles!Init, Profiles!Idle
<1>2. ProfilesTyped
  BY DEF Profiles!Init, ProfilesTyped, Profiles!Idle, ProfileRequest
<1>3. NumberedTo(0)
  BY <1>1 DEF Profiles!Init, NumberedTo
<1>4. Unique /\ RequestsWork /\ ProfilesAlone
  BY <1>1 DEF Profiles!Init, Unique, RequestsWork, ProfilesAlone
<1> QED BY <1>2, <1>3, <1>4 DEF ProfilesInv, Numbered

(* The next number follows the last one.                                    *)
LEMMA NextFollows ==
  ASSUME NEW n \in Nat, {v.number : v \in versions} = 1..n
  PROVE  Profiles!NextNumber = n + 1
<1>1. CASE n = 0
  <2>1. \A v \in versions : v.number \in 1..n
    OBVIOUS
  <2>2. versions = {}
    BY <1>1, <2>1
  <2> QED BY <1>1, <2>2 DEF Profiles!NextNumber
<1>2. CASE n > 0
  <2>1. versions # {} /\ n \in {v.number : v \in versions} /\ \A v \in versions : v.number \in 1..n
    BY <1>2
  <2>2. \A v \in versions : v.number <= n
    BY <2>1
  <2>3. \A m \in {v.number : v \in versions} : (\A v \in versions : v.number <= m) => m = n
    BY <2>1, <2>2
  <2>4. (CHOOSE m \in {v.number : v \in versions} : \A v \in versions : v.number <= m) = n
    BY <2>1, <2>2, <2>3
  <2> QED BY <2>1, <2>4 DEF Profiles!NextNumber
<1> QED BY <1>1, <1>2

(* A request looks for its configuration.                                   *)
LEMMA CreateKeeps ==
  ASSUME ProfilesInv, NEW t \in Requests, Profiles!Create(t) PROVE ProfilesInv'
<1>1. PICK c \in Configs :
        tx' = [tx EXCEPT ![t] = [Profiles!Idle EXCEPT !.pc = IF Profiles!Stored(c) THEN "activate"
                                                          ELSE "create",
                                             !.config = {c}]]
  BY DEF Profiles!Create
<1> DEFINE new == [Profiles!Idle EXCEPT !.pc = IF Profiles!Stored(c) THEN "activate" ELSE "create",
                                        !.config = {c}]
<1>2. /\ new \in ProfileRequest /\ new.config = {c} /\ new.pc \in {"activate", "create"}
      /\ new.pc = "activate" => Profiles!Stored(c)
  BY DEF Profiles!Idle, ProfileRequest
<1> HIDE DEF new
<1>3. /\ tx' \in [Requests -> ProfileRequest] /\ tx'[t] = new /\
           \A s \in Requests \ {t} : tx'[s] = tx[s]
      /\ overlap' = overlap /\ versions' = versions
  BY <1>1, <1>2 DEF ProfilesInv, ProfilesTyped, Profiles!Create, new
<1>4. ProfilesTyped' /\ Unique' /\ Numbered'
  BY <1>2, <1>3 DEF ProfilesInv, ProfilesTyped, Unique, Numbered, NumberedTo
<1>5. RequestsWork'
  BY <1>2, <1>3 DEF ProfilesInv, RequestsWork, Profiles!Stored
<1>6. ~overlap' => ProfilesAlone'
  <2>1. overlap \/ \A s \in Requests : tx[s].pc = "idle"
    BY DEF Profiles!Create, Profiles!Idle
  <2> QED BY <1>2, <1>3, <2>1 DEF ProfilesInv, ProfilesAlone, OneActive, Profiles!Actives
<1> QED BY <1>4, <1>5, <1>6 DEF ProfilesInv

(* It reads the rows of the versions.                                       *)
LEMMA ReadVersionsKeeps ==
  ASSUME ProfilesInv, NEW t \in Requests, Profiles!ReadVersions(t) PROVE ProfilesInv'
<1>1. PICK n \in Nat : NumberedTo(n)
  BY DEF ProfilesInv, Numbered
<1>2. Profiles!NextNumber = n + 1
  BY <1>1, NextFollows DEF NumberedTo
<1> DEFINE next == IF tx[t].pc = "create" THEN "insert" ELSE "switch"
           seen == {v.number : v \in Profiles!Actives}
           new(num) == [tx[t] EXCEPT !.pc = next, !.active = seen, !.number = num]
<1>3. seen \subseteq Nat
  BY DEF ProfilesInv, ProfilesTyped, ProfileVersion, Profiles!Actives
<1>4. tx[t] \in ProfileRequest /\ tx[t].pc \in {"activate", "create"}
  BY DEF Profiles!ReadVersions, ProfilesInv, ProfilesTyped
<1>5. next \in {"insert", "switch"} /\ (next = "switch" => tx[t].pc = "activate")
  BY <1>4
<1>6. tx' = [tx EXCEPT ![t] = new(n + 1)]
  <2>1. tx' = [tx EXCEPT ![t] = new(Profiles!NextNumber)]
    BY DEF Profiles!ReadVersions, ProfilesInv, ProfilesTyped
  <2> QED BY <1>2, <2>1, Zenon
<1> HIDE DEF seen, next
<1>7. /\ new(n + 1) \in ProfileRequest /\ new(n + 1).config = tx[t].config /\
           new(n + 1).number = n + 1
      /\ new(n + 1).active = seen /\ new(n + 1).pc = next
  <2>1. new(n + 1).pc = next /\ new(n + 1).active = seen /\ new(n + 1).number = n + 1
        /\ new(n + 1).config = tx[t].config
    BY <1>4 DEF ProfileRequest
  <2>2. new(n + 1) \in ProfileRequest
    <3>1. n + 1 \in Nat
      OBVIOUS
    <3> QED BY <1>3, <1>4, <1>5, <3>1 DEF ProfileRequest
  <2> QED BY <2>1, <2>2
<1> HIDE DEF new
<1>8. /\ tx' \in [Requests -> ProfileRequest] /\ tx'[t] = new(n + 1)
      /\ \A s \in Requests \ {t} : tx'[s] = tx[s]
  BY <1>6, <1>7 DEF ProfilesInv, ProfilesTyped
<1>9. overlap' = overlap /\ versions' = versions
  BY DEF Profiles!ReadVersions
<1>10. ProfilesTyped' /\ Unique'
  BY <1>8, <1>9 DEF ProfilesInv, ProfilesTyped, Unique
<1>11. NumberedTo(n)'
  BY <1>1, <1>7, <1>8, <1>9 DEF NumberedTo
<1>12. RequestsWork'
  BY <1>4, <1>5, <1>7, <1>8, <1>9 DEF ProfilesInv, RequestsWork, Profiles!Stored
<1>13. ~overlap' => ProfilesAlone'
  BY <1>4, <1>7, <1>8, <1>9 DEF ProfilesInv, ProfilesAlone, OneActive, Profiles!Actives, seen
<1> QED BY <1>10, <1>11, <1>12, <1>13 DEF ProfilesInv, Numbered

(* A request that commits becomes idle.                                     *)
LEMMA ProfilesEnd ==
  ASSUME ProfilesInv, NEW t \in Requests, tx' = [tx EXCEPT ![t] = Profiles!Idle]
  PROVE  /\ tx' \in [Requests -> ProfileRequest] /\ tx'[t].pc = "idle"
         /\ \A s \in Requests \ {t} : tx'[s] = tx[s]
BY DEF ProfilesInv, ProfilesTyped, Profiles!Idle, ProfileRequest

(* A new version is inserted, or refused; the others become inactive that   *)
(* were read as active.                                                     *)
LEMMA CommitNewKeeps ==
  ASSUME ProfilesInv, NEW t \in Requests, Profiles!CommitNew(t) PROVE ProfilesInv'
<1>1. PICK n \in Nat : NumberedTo(n)
  BY DEF ProfilesInv, Numbered
<1>2. PICK c \in Configs : tx[t].config = {c}
  BY DEF ProfilesInv, RequestsWork, Profiles!CommitNew
<1>3. /\ tx' \in [Requests -> ProfileRequest] /\ tx'[t].pc = "idle" /\ overlap' = overlap
      /\ \A s \in Requests \ {t} : tx'[s] = tx[s]
  BY ProfilesEnd DEF Profiles!CommitNew
<1>4. CASE ~Profiles!Free(t)
  <2>1. versions' = versions
    BY <1>4 DEF Profiles!CommitNew
  <2>2. NumberedTo(n)'
    BY <1>1, <1>3, <2>1 DEF NumberedTo
  <2> QED BY <1>3, <2>1, <2>2 DEF ProfilesInv, ProfilesTyped, Numbered, Unique, RequestsWork,
             Profiles!Stored, ProfilesAlone, OneActive, Profiles!Actives
<1>5. CASE Profiles!Free(t)
  <2> DEFINE new == [number |-> tx[t].number, config |-> c, active |-> TRUE]
             after(v) == IF v.number \in tx[t].active THEN [v EXCEPT !.active = FALSE] ELSE v
  <2>1. versions' = {after(v) : v \in versions} \cup {new}
    BY <1>2, <1>5 DEF Profiles!CommitNew, Profiles!Deactivated
  <2>2. \A v \in versions : v \in ProfileVersion /\ after(v) \in ProfileVersion /\
          after(v).number = v.number
                             /\ after(v).config = v.config
    BY DEF ProfilesInv, ProfilesTyped, ProfileVersion
  <2>3. \A v \in versions : v.number # tx[t].number /\ v.config # c
    BY <1>2, <1>5 DEF Profiles!Free
  <2>4. tx[t].number = n + 1
    <3>1. \A m \in 1..n : \E v \in versions : v.number = m
      BY <1>1 DEF NumberedTo
    <3>2. tx[t].number \in 1..(n + 1)
      BY <1>1 DEF NumberedTo, Profiles!CommitNew
    <3> QED BY <2>3, <3>1, <3>2
  <2>5. new \in ProfileVersion /\ new.number = n + 1 /\ new.config = c /\ new.active
    BY <2>4 DEF ProfileVersion
  <2>6. \A v \in versions : ~overlap => ~after(v).active
    BY <2>2 DEF ProfilesInv, ProfilesAlone, Profiles!CommitNew, Profiles!Actives, ProfilesTyped,
       ProfileVersion
  <2> HIDE DEF new, after
  <2>7. ProfilesTyped'
    BY <1>3, <2>1, <2>2, <2>5 DEF ProfilesTyped, ProfilesInv
  <2>8. NumberedTo(n + 1)'
    <3>1. {v.number : v \in versions'} = {v.number : v \in versions} \cup {n + 1}
      BY <2>1, <2>2, <2>5
    <3>2. {v.number : v \in versions'} = 1..(n + 1)
      BY <1>1, <3>1 DEF NumberedTo
    <3> QED BY <1>1, <1>3, <3>2 DEF NumberedTo
  <2>9. Unique'
    BY <2>1, <2>2, <2>3, <2>4, <2>5 DEF Unique, ProfilesInv
  <2>10. RequestsWork'
    <3>1. \A d \in Configs : Profiles!Stored(d) => Profiles!Stored(d)'
      BY <2>1, <2>2 DEF Profiles!Stored
    <3> QED BY <1>3, <3>1 DEF RequestsWork, ProfilesInv, ProfilesTyped, ProfileRequest
  <2>11. ~overlap' => ProfilesAlone'
    <3> SUFFICES ASSUME ~overlap PROVE ProfilesAlone'
      BY <1>3
    <3>1. Profiles!Actives' = {new}
      BY <2>1, <2>5, <2>6 DEF Profiles!Actives
    <3>2. \A s \in Requests : tx'[s].pc = "idle"
      BY <1>3 DEF ProfilesInv, ProfilesAlone, Profiles!CommitNew
    <3> QED BY <2>1, <3>1, <3>2 DEF ProfilesAlone, OneActive
  <2> QED BY <2>7, <2>8, <2>9, <2>10, <2>11 DEF ProfilesInv, Numbered
<1> QED BY <1>4, <1>5

(* The version of a configuration is activated.                             *)
LEMMA CommitSwitchKeeps ==
  ASSUME ProfilesInv, NEW t \in Requests, Profiles!CommitSwitch(t) PROVE ProfilesInv'
<1>1. PICK n \in Nat : NumberedTo(n)
  BY DEF ProfilesInv, Numbered
<1>2. PICK c \in Configs : tx[t].config = {c} /\ Profiles!Stored(c)
  BY DEF ProfilesInv, RequestsWork, Profiles!CommitSwitch
<1>3. /\ tx' \in [Requests -> ProfileRequest] /\ tx'[t].pc = "idle" /\ overlap' = overlap
      /\ \A s \in Requests \ {t} : tx'[s] = tx[s]
  BY ProfilesEnd DEF Profiles!CommitSwitch
<1> DEFINE after(v) ==
       CASE v.config \notin tx[t].config /\ v.number \in tx[t].active -> [v EXCEPT !.active = FALSE]
         [] v.config \in tx[t].config /\ v.number \notin tx[t].active -> [v EXCEPT !.active = TRUE]
         [] OTHER -> v
<1>4. versions' = {after(v) : v \in versions}
  BY DEF Profiles!CommitSwitch
<1>5. \A v \in versions : v \in ProfileVersion /\ after(v) \in ProfileVersion /\
        after(v).number = v.number
                           /\ after(v).config = v.config
  BY DEF ProfilesInv, ProfilesTyped, ProfileVersion
<1>6. ~overlap => \A v \in versions : after(v).active <=> v.config = c
  <2> SUFFICES ASSUME ~overlap, NEW v \in versions PROVE after(v).active <=> v.config = c
    OBVIOUS
  <2>1. tx[t].active = {w.number : w \in Profiles!Actives} /\ v \in ProfileVersion
    BY <1>5 DEF ProfilesInv, ProfilesAlone, Profiles!CommitSwitch
  <2>2. v.number \in tx[t].active <=> v.active
    BY <2>1 DEF ProfilesInv, Unique, Profiles!Actives
  <2>3. CASE v.active /\ v.config # c
    BY <1>2, <2>1, <2>2, <2>3 DEF ProfileVersion
  <2>4. CASE ~v.active /\ v.config = c
    <3>1. after(v) = [v EXCEPT !.active = TRUE]
      BY <1>2, <2>2, <2>4
    <3> QED BY <2>1, <2>4, <3>1 DEF ProfileVersion
  <2>5. CASE v.active <=> v.config = c
    BY <1>2, <2>2, <2>5
  <2> QED BY <2>3, <2>4, <2>5
<1> HIDE DEF after
<1>7. ProfilesTyped'
  BY <1>3, <1>4, <1>5 DEF ProfilesTyped, ProfilesInv
<1>8. NumberedTo(n)'
  <2>1. {v.number : v \in versions'} = {v.number : v \in versions}
    BY <1>4, <1>5
  <2> QED BY <1>1, <1>3, <2>1 DEF NumberedTo
<1>9. Unique'
  BY <1>4, <1>5 DEF Unique, ProfilesInv
<1>10. RequestsWork'
  <2>1. \A d \in Configs : Profiles!Stored(d) => Profiles!Stored(d)'
    BY <1>4, <1>5 DEF Profiles!Stored
  <2> QED BY <1>3, <2>1 DEF RequestsWork, ProfilesInv, ProfilesTyped, ProfileRequest
<1>11. ~overlap' => ProfilesAlone'
  <2> SUFFICES ASSUME ~overlap PROVE ProfilesAlone'
    BY <1>3
  <2>1. PICK v \in versions : v.config = c
    BY <1>2 DEF Profiles!Stored
  <2>2. Profiles!Actives' = {after(v)}
    BY <1>4, <1>5, <1>6, <2>1 DEF Profiles!Actives, ProfilesInv, Unique
  <2>3. \A s \in Requests : tx'[s].pc = "idle"
    BY <1>3 DEF ProfilesInv, ProfilesAlone, Profiles!CommitSwitch
  <2> QED BY <1>4, <2>1, <2>2, <2>3 DEF ProfilesAlone, OneActive
<1> QED BY <1>7, <1>8, <1>9, <1>10, <1>11 DEF ProfilesInv, Numbered

(* Every step keeps the invariant.                                          *)
LEMMA ProfilesStep ==
  ASSUME ProfilesInv, [Profiles!Next]_Profiles!vars PROVE ProfilesInv'
<1>1. CASE UNCHANGED Profiles!vars
  BY <1>1 DEF Profiles!vars, ProfilesInv, ProfilesTyped, Numbered, NumberedTo, Unique,
     RequestsWork, Profiles!Stored, ProfilesAlone, OneActive, Profiles!Actives
<1>2. CASE Profiles!Next
  BY <1>2, CreateKeeps, ReadVersionsKeeps, CommitNewKeeps, CommitSwitchKeeps DEF Profiles!Next
<1> QED BY <1>1, <1>2
-----------------------------------------------------------------------------
LEMMA ProfilesCardinality ==
  ASSUME NEW S PROVE Profiles!Cardinality(S) = Cardinality(S)
BY Zenon DEF Profiles!Cardinality, Cardinality

LEMMA ProfilesScope ==
  ASSUME [Next]_vars, scope' = "profiles"
  PROVE  scope = "profiles" /\ [Profiles!Next]_Profiles!vars
BY DEF Next, vars, profiles, Profiles!vars, PracticesNext, PilotsNext, AccountsNext, ProfilesNext,
       BackupsNext, EditionNext, LimitsNext, ProtocolNext, ReadingsNext, BatchesNext

ProfilesHold == scope = "profiles" => ProfilesInv

(* However many requests overlap, versions are numbered without gaps and no *)
(* configuration is stored twice; one version is active if requests do not  *)
(* overlap (create_company_profile_version).                                *)
THEOREM VersionsStayConsistent == Spec => []VersionsAreConsistent
<1>1. ProfilesInv => Profiles!VersionsAreConsistent
  <2> SUFFICES ASSUME ProfilesInv PROVE Profiles!VersionsAreConsistent
    OBVIOUS
  <2>1. PICK n \in Nat : {v.number : v \in versions} = 1..n
    BY DEF ProfilesInv, Numbered, NumberedTo
  <2>2. Cardinality(versions) = n
    <3> DEFINE f == [v \in versions |-> v.number]
    <3>1. /\ f \in [versions -> 1..n]
          /\ \A v, w \in versions : f[v] = f[w] => v = w
          /\ \A m \in 1..n : \E v \in versions : f[v] = m
      BY <2>1 DEF ProfilesInv, Unique
    <3> HIDE DEF f
    <3>2. ExistsBijection(versions, 1..n)
      BY <3>1, Fun_IsBij DEF ExistsBijection
    <3> QED BY <3>2, Fun_ExistsBijSymmetric, FS_CountingElements
  <2>3. ~overlap /\ versions # {} => Cardinality(Profiles!Actives) = 1
    BY FS_Singleton DEF ProfilesInv, ProfilesAlone, OneActive
  <2> QED BY <2>1, <2>2, <2>3, ProfilesCardinality
          DEF Profiles!VersionsAreConsistent, ProfilesInv, Unique
<1>2. Init => ProfilesHold
  BY ProfilesInit DEF Init, ProfilesHold
<1>3. ProfilesHold /\ [Next]_vars => ProfilesHold'
  BY ProfilesScope, ProfilesStep DEF ProfilesHold
<1>4. ProfilesHold => VersionsAreConsistent
  BY <1>1 DEF ProfilesHold, VersionsAreConsistent
<1> QED BY <1>2, <1>3, <1>4, PTL DEF Spec
-----------------------------------------------------------------------------
(* Pilots.                                                                 *)

PilotEntry == [practice : PilotPractices, documents : 0..2, primary : Pilots!Entries,
               secondary : Pilots!Entries]
PilotRow == [status : {"draft", "frozen", "completed", "archived"}, manifest : SUBSET PilotEntry,
             engine : 0..2]
PilotCase == [practice : PilotPractices, review : [Pilots!Columns -> Pilots!Entries],
              measured : BOOLEAN]
PilotScenario == [practice : PilotPractices, expected : SUBSET Findings, actual : SUBSET Findings,
                  measured : BOOLEAN]
PilotRequest ==
  [kind : {"idle", "add", "update", "freeze", "start", "run"}, on : SUBSET PilotPractices,
   column : Pilots!Columns \cup {"none", "measures"}, value : Pilots!Entries,
   manifest : SUBSET PilotEntry, engine : 0..2, todo : SUBSET PilotCase,
   scenarios : SUBSET PilotScenario]

PilotTyped ==
  /\ documents \in [PilotPractices -> 0..2] /\ found \in [PilotPractices -> SUBSET Findings]
  /\ engine \in 1..2
  /\ pilot \in PilotRow
  /\ members \subseteq PilotPractices /\ measured \subseteq PilotPractices
  /\ review \in [PilotPractices -> [Pilots!Columns -> Pilots!Entries]]
  /\ (result = {} \/ \E r : result = {r}) /\ (holder = {} \/ \E t : holder = {t})
  /\ tx \in [Requests -> PilotRequest]

(* Practices are never taken out of a pilot: every manifest lists practices *)
(* that a run will read.                                                    *)
Listed(manifest_) == {e.practice : e \in manifest_}
ManifestsListMembers ==
  /\ Listed(pilot.manifest) \subseteq members
  /\ \A t \in Requests : tx[t].kind \in {"freeze", "start"} =>
       Listed(tx[t].manifest) \subseteq members

(* What a run has compared is as it was frozen, and the rest is to do.      *)
Frozen(s, manifest_) ==
  \E e \in manifest_ : /\ e.practice = s.practice
                       /\ e.primary = e.secondary => e.primary = {s.expected}
Compares(x) ==
  /\ \A s \in x.scenarios : Frozen(s, x.manifest)
  /\ Listed(x.manifest) \subseteq Listed(x.todo) \cup Listed(x.scenarios)
RunsCompare ==
  \A t \in Requests : /\ tx[t].kind = "run" => Compares(tx[t])
                      /\ tx[t].kind # "run" => tx[t].todo = {} /\ tx[t].scenarios = {}

PilotInv == PilotTyped /\ ManifestsListMembers /\ RunsCompare /\ Pilots!ResultRestsOnFreeze

PilotState == <<pilot, result, members, review, measured, documents, found, engine, holder>>
-----------------------------------------------------------------------------
LEMMA PilotIdle ==
  /\ Pilots!Idle.kind = "idle" /\ Pilots!Idle.on = {} /\ Pilots!Idle.value = {}
  /\ Pilots!Idle.todo = {} /\ Pilots!Idle.scenarios = {}
  /\ {} \in Pilots!Entries /\ Pilots!Idle \in PilotRequest
BY DEF Pilots!Idle, Pilots!Entries, PilotRequest

LEMMA PilotStarts ==
  ASSUME Pilots!Init PROVE PilotInv
<1>1. review \in [PilotPractices -> [Pilots!Columns -> Pilots!Entries]]
  <2>1. \A x \in [primary : Pilots!Entries, secondary : Pilots!Entries, adjudicated : {{}}] :
          x \in [Pilots!Columns -> Pilots!Entries]
    BY PilotIdle DEF Pilots!Columns
  <2> QED BY <2>1 DEF Pilots!Init
<1>2. \A t \in Requests : tx[t] = Pilots!Idle
  BY DEF Pilots!Init
<1>3. PilotTyped
  BY <1>1, <1>2, PilotIdle DEF Pilots!Init, PilotTyped, PilotRow
<1>4. ManifestsListMembers /\ RunsCompare
  BY <1>2, PilotIdle DEF Pilots!Init, ManifestsListMembers, RunsCompare, Listed
<1>5. Pilots!ResultRestsOnFreeze
  BY DEF Pilots!Init, Pilots!ResultRestsOnFreeze
<1> QED BY <1>3, <1>4, <1>5 DEF PilotInv

(* A request that begins.                                                   *)
LEMMA PilotBegins ==
  ASSUME PilotInv, NEW t \in Requests, NEW x, Pilots!Begin(t, x), UNCHANGED PilotState,
         x \in PilotRequest,
         x.kind # "run" /\ x.todo = {} /\ x.scenarios = {},
         x.kind \in {"freeze", "start"} => Listed(x.manifest) \subseteq members
  PROVE  PilotInv'
<1>1. /\ tx' = [tx EXCEPT ![t] = x]
      /\ UNCHANGED <<pilot, result, members, review, measured, documents, found, engine, holder>>
  BY DEF Pilots!Begin, PilotState
<1>2. tx'[t] = x /\ \A s \in Requests \ {t} : tx'[s] = tx[s]
  BY <1>1 DEF PilotInv, PilotTyped
<1>3. PilotTyped'
  BY <1>1, <1>2 DEF PilotInv, PilotTyped
<1>4. ManifestsListMembers'
  BY <1>1, <1>2 DEF PilotInv, ManifestsListMembers
<1>5. RunsCompare'
  BY <1>2 DEF PilotInv, RunsCompare, Compares
<1>6. Pilots!ResultRestsOnFreeze'
  BY <1>1 DEF PilotInv, Pilots!ResultRestsOnFreeze
<1> QED BY <1>3, <1>4, <1>5, <1>6 DEF PilotInv

(* A request that ends, having changed nothing but practices and reviews.   *)
LEMMA PilotCloses ==
  ASSUME PilotInv, NEW t \in Requests, Pilots!Close(t),
         UNCHANGED <<pilot, result, documents, found, engine>>,
         members \subseteq members', members' \subseteq PilotPractices,
         measured' \subseteq PilotPractices,
         review' \in [PilotPractices -> [Pilots!Columns -> Pilots!Entries]]
  PROVE  PilotInv'
<1>1. tx' = [tx EXCEPT ![t] = Pilots!Idle] /\ holder' = holder \ {t}
  BY DEF Pilots!Close
<1>2. tx'[t] = Pilots!Idle /\ \A s \in Requests \ {t} : tx'[s] = tx[s]
  BY <1>1 DEF PilotInv, PilotTyped
<1>3. PilotTyped'
  BY <1>1, <1>2, PilotIdle DEF PilotInv, PilotTyped
<1>4. ManifestsListMembers'
  BY <1>2, PilotIdle DEF PilotInv, ManifestsListMembers
<1>5. RunsCompare'
  BY <1>2, PilotIdle DEF PilotInv, RunsCompare, Compares
<1>6. Pilots!ResultRestsOnFreeze'
  BY DEF PilotInv, Pilots!ResultRestsOnFreeze
<1> QED BY <1>3, <1>4, <1>5, <1>6 DEF PilotInv

LEMMA RequestsBegin ==
  ASSUME PilotInv, NEW t \in Requests,
         Pilots!Add(t) \/ Pilots!Update(t) \/ Pilots!Freeze(t) \/ Pilots!Run(t)
  PROVE  PilotInv'
<1>1. UNCHANGED PilotState
  BY DEF PilotState, Pilots!Add, Pilots!Update, Pilots!Freeze, Pilots!Run, Pilots!cases,
     Pilots!world
<1>2. CASE Pilots!Add(t)
  <2>1. PICK p \in PilotPractices : Pilots!Begin(t, [Pilots!Idle EXCEPT !.kind = "add", !.on = {p}])
    BY <1>2 DEF Pilots!Add
  <2> DEFINE x == [Pilots!Idle EXCEPT !.kind = "add", !.on = {p}]
  <2>2. /\ x.kind = "add" /\ x.on = {p} /\ x.value = {} /\ x.todo = {} /\ x.scenarios = {}
        /\ Pilots!Begin(t, x)
    BY <2>1 DEF Pilots!Idle
  <2>3. x \in PilotRequest
    BY PilotIdle DEF PilotRequest
  <2> HIDE DEF x
  <2> QED BY <1>1, <2>2, <2>3, PilotBegins, PilotIdle
<1>3. CASE Pilots!Update(t)
  <2>1. PICK p \in members, c \in Pilots!Columns \cup {"measures"}, v \in SUBSET Findings :
          Pilots!Begin(t, [Pilots!Idle EXCEPT !.kind = "update", !.on = {p}, !.column = c,
            !.value = {v}])
    BY <1>3, Zenon DEF Pilots!Update
  <2> DEFINE x == [Pilots!Idle EXCEPT !.kind = "update", !.on = {p}, !.column = c, !.value = {v}]
  <2>2. /\ x.kind = "update" /\ x.on = {p} /\ x.value = {v} /\ x.todo = {} /\ x.scenarios = {}
        /\ Pilots!Begin(t, x)
    BY <2>1 DEF Pilots!Idle
  <2>3. {v} \in Pilots!Entries /\ {p} \subseteq PilotPractices
    BY DEF Pilots!Entries, PilotInv, PilotTyped
  <2>4. x \in PilotRequest
    BY <2>3, PilotIdle DEF PilotRequest
  <2> HIDE DEF x
  <2> QED BY <1>1, <2>2, <2>4, PilotBegins
<1>4. CASE Pilots!Freeze(t)
  <2> DEFINE entries == {Pilots!Entry(p) : p \in members}
             x == [Pilots!Idle EXCEPT !.kind = "freeze", !.engine = engine, !.manifest = entries]
  <2>1. /\ x.kind = "freeze" /\ x.on = {} /\ x.value = {} /\ x.todo = {} /\ x.scenarios = {}
        /\ x.manifest = entries /\ Pilots!Begin(t, x)
    BY <1>4 DEF Pilots!Freeze, Pilots!Idle
  <2>2. Listed(entries) \subseteq members
    BY DEF Listed, Pilots!Entry
  <2>3. x \in PilotRequest
    <3>1. \A p \in members : Pilots!Entry(p) \in PilotEntry
      BY DEF Pilots!Entry, PilotEntry, PilotInv, PilotTyped, Pilots!Columns
    <3>2. engine \in 0..2
      BY DEF PilotInv, PilotTyped
    <3>3. entries \in SUBSET PilotEntry
      BY <3>1
    <3> HIDE DEF entries
    <3> QED BY <3>2, <3>3, PilotIdle DEF PilotRequest
  <2> HIDE DEF x, entries
  <2> QED BY <1>1, <2>1, <2>2, <2>3, PilotBegins, PilotIdle
<1>5. CASE Pilots!Run(t)
  <2> DEFINE x == [Pilots!Idle EXCEPT !.kind = "start", !.manifest = pilot.manifest]
  <2>1. /\ x.kind = "start" /\ x.on = {} /\ x.value = {} /\ x.todo = {} /\ x.scenarios = {}
        /\ x.manifest = pilot.manifest /\ Pilots!Begin(t, x)
    BY <1>5 DEF Pilots!Run, Pilots!Idle
  <2>2. Listed(pilot.manifest) \subseteq members
    BY DEF PilotInv, ManifestsListMembers
  <2>3. x \in PilotRequest
    BY PilotIdle DEF PilotInv, PilotTyped, PilotRequest, PilotRow
  <2> HIDE DEF x
  <2> QED BY <1>1, <2>1, <2>2, <2>3, PilotBegins, PilotIdle
<1> QED BY <1>2, <1>3, <1>4, <1>5

LEMMA EditsCommit ==
  ASSUME PilotInv, NEW t \in Requests, Pilots!CommitAdd(t) \/ Pilots!CommitUpdate(t)
  PROVE  PilotInv'
<1>1. CASE Pilots!CommitAdd(t)
  <2>1. /\ Pilots!Close(t) /\ members' = members \cup tx[t].on
        /\ UNCHANGED <<pilot, result, review, measured, documents, found, engine>>
    BY <1>1 DEF Pilots!CommitAdd, Pilots!world
  <2>2. members' \subseteq PilotPractices
    BY <2>1 DEF PilotInv, PilotTyped, PilotRequest
  <2> QED BY <2>1, <2>2, PilotCloses DEF PilotInv, PilotTyped
<1>2. CASE Pilots!CommitUpdate(t)
  <2>1. /\ Pilots!Close(t) /\ UNCHANGED <<pilot, result, members, documents, found, engine>>
        /\ measured' = IF tx[t].column = "measures" THEN measured \cup tx[t].on ELSE measured
        /\ review' = [p \in PilotPractices |->
                         IF p \in tx[t].on /\ tx[t].column \in Pilots!Columns
                         THEN [review[p] EXCEPT ![tx[t].column] = tx[t].value] ELSE review[p]]
    BY <1>2 DEF Pilots!CommitUpdate, Pilots!world
  <2>2. review' \in [PilotPractices -> [Pilots!Columns -> Pilots!Entries]]
    BY <2>1 DEF PilotInv, PilotTyped, PilotRequest
  <2>3. measured' \subseteq PilotPractices /\ members' \subseteq PilotPractices
    BY <2>1 DEF PilotInv, PilotTyped, PilotRequest
  <2> QED BY <2>1, <2>2, <2>3, PilotCloses
<1> QED BY <1>1, <1>2

LEMMA FreezeCommits ==
  ASSUME PilotInv, NEW t \in Requests, Pilots!CommitFreeze(t)
  PROVE  PilotInv'
<1> DEFINE p == [status |-> "frozen", manifest |-> tx[t].manifest, engine |-> tx[t].engine]
<1>1. /\ pilot' = p /\ tx[t].kind = "freeze"
      /\ tx' = [tx EXCEPT ![t] = Pilots!Idle] /\ holder' = holder \ {t}
      /\ UNCHANGED <<result, members, review, measured, documents, found, engine>>
  BY DEF Pilots!CommitFreeze, Pilots!Close, Pilots!cases, Pilots!world
<1>2. p \in PilotRow /\ p.manifest = tx[t].manifest
  BY DEF PilotInv, PilotTyped, PilotRequest, PilotRow
<1> HIDE DEF p
<1>3. tx'[t] = Pilots!Idle /\ \A s \in Requests \ {t} : tx'[s] = tx[s]
  BY <1>1 DEF PilotInv, PilotTyped
<1>4. PilotTyped'
  BY <1>1, <1>2, <1>3, PilotIdle DEF PilotInv, PilotTyped
<1>5. ManifestsListMembers'
  BY <1>1, <1>2, <1>3, PilotIdle DEF PilotInv, ManifestsListMembers
<1>6. RunsCompare'
  BY <1>3, PilotIdle DEF PilotInv, RunsCompare, Compares
<1>7. Pilots!ResultRestsOnFreeze'
  BY <1>1 DEF PilotInv, Pilots!ResultRestsOnFreeze
<1> QED BY <1>4, <1>5, <1>6, <1>7 DEF PilotInv

(* A run as it goes on.                                                     *)
LEMMA PilotGoesOn ==
  ASSUME PilotInv, NEW t \in Requests, NEW x, tx' = [tx EXCEPT ![t] = x],
         x.kind = "run", x \in PilotRequest, Compares(x),
         (holder' = holder \/ holder' = {t}),
         UNCHANGED <<pilot, result, members, review, measured, documents, found, engine>>
  PROVE  PilotInv'
<1>1. tx'[t] = x /\ \A s \in Requests \ {t} : tx'[s] = tx[s]
  BY DEF PilotInv, PilotTyped
<1>2. PilotTyped'
  BY <1>1 DEF PilotInv, PilotTyped
<1>3. ManifestsListMembers'
  BY <1>1 DEF PilotInv, ManifestsListMembers
<1>4. RunsCompare'
  BY <1>1 DEF PilotInv, RunsCompare, Compares
<1>5. Pilots!ResultRestsOnFreeze'
  BY DEF PilotInv, Pilots!ResultRestsOnFreeze
<1> QED BY <1>2, <1>3, <1>4, <1>5 DEF PilotInv

LEMMA CasesRead ==
  ASSUME PilotInv, NEW t \in Requests, Pilots!ReadCases(t)
  PROVE  PilotInv'
<1> DEFINE list == {Pilots!Row(p) : p \in members}
           x == [tx[t] EXCEPT !.kind = "run", !.todo = list]
<1>1. /\ tx[t].kind = "start" /\ holder' = {t}
      /\ tx' = [tx EXCEPT ![t].kind = "run", ![t].todo = list]
      /\ UNCHANGED <<pilot, result, members, review, measured, documents, found, engine>>
  BY DEF Pilots!ReadCases, Pilots!cases, Pilots!world
<1>2. tx' = [tx EXCEPT ![t] = x]
  BY <1>1 DEF PilotInv, PilotTyped
<1>3. list \subseteq PilotCase
  <2>1. \A p \in members : p \in PilotPractices /\ review[p] \in [Pilots!Columns -> Pilots!Entries]
    BY DEF PilotInv, PilotTyped
  <2>2. \A p \in members : Pilots!Row(p) \in PilotCase
    BY <2>1 DEF Pilots!Row, PilotCase
  <2> QED BY <2>2
<1>4. Listed(list) = members
  <2>1. \A p \in members : Pilots!Row(p).practice = p
    BY DEF Pilots!Row
  <2> QED BY <2>1 DEF Listed
<1> HIDE DEF list
<1>5. /\ x \in PilotRequest /\ x.kind = "run" /\ x.todo = list /\ x.manifest = tx[t].manifest
      /\ x.scenarios = tx[t].scenarios
  BY <1>3 DEF PilotInv, PilotTyped, PilotRequest
<1>6. tx[t].scenarios = {} /\ Listed(tx[t].manifest) \subseteq members
  BY <1>1 DEF PilotInv, ManifestsListMembers, RunsCompare
<1> HIDE DEF x
<1>7. Compares(x)
  BY <1>4, <1>5, <1>6 DEF Compares, Listed
<1> QED BY <1>1, <1>2, <1>5, <1>7, PilotGoesOn

(* Reviews that are as in the manifest, and agree, are the single one.      *)
LEMMA AsFrozen ==
  ASSUME PilotInv, NEW t \in Requests, NEW c \in PilotCase, Pilots!Unchanged(t, c),
         NEW expected \in Pilots!Truth(c.review), NEW s, s.practice = c.practice,
           s.expected = expected
  PROVE  Frozen(s, tx[t].manifest) /\ expected \in SUBSET Findings
<1> DEFINE e == [practice |-> c.practice, documents |-> documents[c.practice],
                 primary |-> c.review.primary, secondary |-> c.review.secondary]
<1>1. e \in tx[t].manifest
  BY DEF Pilots!Unchanged
<1>2. e.practice = c.practice /\ e.primary = c.review.primary /\ e.secondary = c.review.secondary
  OBVIOUS
<1>3. /\ c.review.primary \in Pilots!Entries /\ c.review.adjudicated \in Pilots!Entries
  BY DEF PilotCase, Pilots!Columns
<1> HIDE DEF e
<1>4. c.review.primary = c.review.secondary => c.review.primary = {expected}
  BY <1>3 DEF Pilots!Truth, Pilots!Entries
<1>5. expected \in SUBSET Findings
  BY <1>3 DEF Pilots!Truth, Pilots!Entries
<1> QED BY <1>1, <1>2, <1>4, <1>5 DEF Frozen

LEMMA CaseCompared ==
  ASSUME PilotInv, NEW t \in Requests, Pilots!Compare(t)
  PROVE  PilotInv'
<1>1. tx[t].kind = "run" /\ tx[t] \in PilotRequest
      /\ UNCHANGED <<pilot, result, members, review, measured, documents, found, engine>>
  BY DEF Pilots!Compare, Pilots!cases, Pilots!world, PilotInv, PilotTyped
<1>2. Compares(tx[t])
  BY <1>1 DEF PilotInv, RunsCompare
<1>3. CASE Pilots!Close(t)
  BY <1>1, <1>3, PilotCloses DEF PilotInv, PilotTyped
<1>4. ASSUME NEW c \in tx[t].todo, Pilots!Unchanged(t, c), NEW expected \in Pilots!Truth(c.review),
             tx' = [tx EXCEPT ![t].todo = @ \ {c},
                              ![t].scenarios = @ \cup
                                {[practice |-> c.practice, expected |-> expected,
                                  actual |-> found[c.practice], measured |-> c.measured]}],
             UNCHANGED holder
      PROVE  PilotInv'
  <2> DEFINE s == [practice |-> c.practice, expected |-> expected,
                   actual |-> found[c.practice], measured |-> c.measured]
             todo == tx[t].todo \ {c}
             scenarios == tx[t].scenarios \cup {s}
             x == [tx[t] EXCEPT !.todo = todo, !.scenarios = scenarios]
  <2>1. c \in PilotCase
    BY <1>1 DEF PilotRequest
  <2>2. s.practice = c.practice /\ s.expected = expected
    OBVIOUS
  <2>3. Frozen(s, tx[t].manifest) /\ expected \in SUBSET Findings
    BY <1>4, <2>1, <2>2, AsFrozen
  <2>4. s \in PilotScenario
    BY <2>1, <2>3 DEF PilotCase, PilotScenario, PilotInv, PilotTyped
  <2>5. tx' = [tx EXCEPT ![t] = x]
    BY <1>4 DEF PilotInv, PilotTyped
  <2> HIDE DEF s
  <2>6. /\ x \in PilotRequest /\ x.kind = "run" /\ x.todo = todo /\ x.manifest = tx[t].manifest
        /\ x.scenarios = scenarios
    BY <1>1, <2>4 DEF PilotRequest
  <2> HIDE DEF x
  <2>7. \A o \in scenarios : Frozen(o, x.manifest)
    BY <1>2, <2>3, <2>6 DEF Compares
  <2>8. Listed(tx[t].todo) \cup Listed(tx[t].scenarios) \subseteq Listed(todo) \cup
          Listed(scenarios)
    BY <2>2 DEF Listed
  <2>9. Compares(x)
    BY <1>2, <2>6, <2>7, <2>8 DEF Compares
  <2> QED BY <1>1, <1>4, <2>5, <2>6, <2>9, PilotGoesOn
<1> QED BY <1>3, <1>4 DEF Pilots!Compare

LEMMA ResultCommits ==
  ASSUME PilotInv, NEW t \in Requests, Pilots!CommitRun(t)
  PROVE  PilotInv'
<1> DEFINE decision == Pilots!Decision(tx[t].scenarios)
           r == [manifest |-> tx[t].manifest, scenarios |-> tx[t].scenarios, decision |-> decision]
           status == IF decision = "incomplete" THEN "frozen" ELSE "completed"
           p == [pilot EXCEPT !.status = status]
<1>1. /\ tx[t].kind = "run" /\ tx[t].todo = {} /\ result' = {r} /\ pilot' = p
      /\ tx' = [tx EXCEPT ![t] = Pilots!Idle] /\ holder' = holder \ {t}
      /\ UNCHANGED <<members, review, measured, documents, found, engine>>
  BY DEF Pilots!CommitRun, Pilots!Close, Pilots!cases, Pilots!world
<1>2. Compares(tx[t])
  BY <1>1 DEF PilotInv, RunsCompare
<1>3. /\ r.manifest = tx[t].manifest /\ r.scenarios = tx[t].scenarios /\ r.decision = decision
      /\ p \in PilotRow /\ p.manifest = pilot.manifest
  BY DEF PilotInv, PilotTyped, PilotRow
<1>4. decision = "human review" => \A s \in r.scenarios : s.expected \subseteq s.actual
  BY <1>3 DEF Pilots!Decision, Pilots!Missed
<1> HIDE DEF r, p, decision, status
<1>5. Listed(r.manifest) \subseteq Listed(r.scenarios)
  BY <1>1, <1>2, <1>3 DEF Compares, Listed
<1>6. \A s \in r.scenarios : Frozen(s, r.manifest)
  BY <1>2, <1>3 DEF Compares
<1>7. Listed(r.scenarios) \subseteq Listed(r.manifest)
  BY <1>6 DEF Frozen, Listed
<1>8. Pilots!ResultRestsOnFreeze'
  BY <1>1, <1>3, <1>4, <1>5, <1>6, <1>7 DEF Pilots!ResultRestsOnFreeze, Frozen, Listed
<1>9. tx'[t] = Pilots!Idle /\ \A s \in Requests \ {t} : tx'[s] = tx[s]
  BY <1>1 DEF PilotInv, PilotTyped
<1>10. PilotTyped'
  BY <1>1, <1>3, <1>9, PilotIdle DEF PilotInv, PilotTyped
<1>11. ManifestsListMembers'
  BY <1>1, <1>3, <1>9, PilotIdle DEF PilotInv, ManifestsListMembers
<1>12. RunsCompare'
  BY <1>9, PilotIdle DEF PilotInv, RunsCompare, Compares
<1> QED BY <1>8, <1>10, <1>11, <1>12 DEF PilotInv

LEMMA WorldChanges ==
  ASSUME PilotInv,
         \/ \E p \in PilotPractices : Pilots!Change(p) \/ Pilots!Reanalyse(p)
         \/ Pilots!Archive \/ Pilots!Upgrade \/ UNCHANGED Pilots!vars
  PROVE  PilotInv'
<1>1. UNCHANGED <<result, members, review, measured, holder, tx>>
  BY DEF Pilots!Change, Pilots!Reanalyse, Pilots!Archive, Pilots!Upgrade, Pilots!vars, Pilots!cases
<1>2. pilot' \in PilotRow /\ pilot'.manifest = pilot.manifest
  <2>1. pilot' = pilot \/ pilot' = [pilot EXCEPT !.status = "archived"]
    BY DEF Pilots!Change, Pilots!Reanalyse, Pilots!Archive, Pilots!Upgrade, Pilots!vars
  <2> QED BY <2>1 DEF PilotInv, PilotTyped, PilotRow
<1>3. documents' \in [PilotPractices -> 0..2]
  <2>1. documents' = documents \/ \E p \in PilotPractices, v \in {0, 2} :
                                     documents' = [documents EXCEPT ![p] = v]
    BY DEF Pilots!Change, Pilots!Reanalyse, Pilots!Archive, Pilots!Upgrade, Pilots!vars,
       Pilots!world
  <2>2. documents \in [PilotPractices -> 0..2] /\ {0, 2} \subseteq 0..2
    BY DEF PilotInv, PilotTyped
  <2> QED BY <2>1, <2>2
<1>4. found' \in [PilotPractices -> SUBSET Findings]
  <2>1. found' = found \/ \E p \in PilotPractices, f \in SUBSET Findings :
                             found' = [found EXCEPT ![p] = f]
    BY DEF Pilots!Change, Pilots!Reanalyse, Pilots!Archive, Pilots!Upgrade, Pilots!vars,
       Pilots!world
  <2> QED BY <2>1 DEF PilotInv, PilotTyped
<1>5. engine' \in 1..2
  BY DEF Pilots!Change, Pilots!Reanalyse, Pilots!Archive, Pilots!Upgrade, Pilots!vars, Pilots!world,
         PilotInv, PilotTyped
<1> QED BY <1>1, <1>2, <1>3, <1>4, <1>5 DEF PilotInv, PilotTyped, ManifestsListMembers,
           RunsCompare, Compares,
                          Pilots!ResultRestsOnFreeze

PilotsHold == scope = "pilots" => PilotInv

LEMMA PilotsScope ==
  ASSUME [Next]_vars, scope' = "pilots"
  PROVE  scope = "pilots" /\ [Pilots!Next]_Pilots!vars
BY DEF Next, vars, pilots, Pilots!vars, Pilots!cases, Pilots!world, PracticesNext, PilotsNext,
       AccountsNext, ProfilesNext, BackupsNext, EditionNext, LimitsNext, ProtocolNext, ReadingsNext,
       BatchesNext

(* What holds of the pilots in every behaviour.                             *)
LEMMA PilotsAlways == Spec => []PilotsHold
<1>1. Init => PilotsHold
  BY PilotStarts DEF Init, PilotsHold
<1>2. ASSUME PilotInv, [Pilots!Next]_Pilots!vars PROVE PilotInv'
  BY <1>2, RequestsBegin, EditsCommit, FreezeCommits, CasesRead, CaseCompared, ResultCommits,
     WorldChanges DEF Pilots!Next
<1>3. PilotsHold /\ [Next]_vars => PilotsHold'
  BY <1>2, PilotsScope DEF PilotsHold
<1> QED BY <1>1, <1>3, PTL DEF Spec

(* freeze_pilot lists the reviews, update_pilot_case and add_pilot_practice *)
(* may still write what they have read of a draft, and run_frozen_pilot     *)
(* compares every case with the manifest: a result covers the practices of  *)
(* the freeze and expects what its blind reviews agreed on.                 *)
THEOREM ResultsRestOnFreezes == Spec => []ResultRestsOnFreeze
<1>1. PilotsHold => ResultRestsOnFreeze
  BY DEF PilotsHold, PilotInv, ResultRestsOnFreeze
<1> QED BY <1>1, PilotsAlways, PTL
-----------------------------------------------------------------------------
(* Backups.                                                                *)

BackupType == [pc : {"idle", "open", "copy"}, database : SUBSET Documents, todo : SUBSET Documents]
BundleType == [exists : BOOLEAN, database : SUBSET Documents, storage : BOOLEAN,
               files : SUBSET Documents, manifest : BOOLEAN, intact : BOOLEAN,
               excused : SUBSET Documents]
RestoreType == [pc : {"idle", "replace", "failed", "done", "crashed"},
                installed : {{}, {"database"}, Backups!Parts}]

BackupTyped ==
  /\ backend \in {"sqlite", "postgresql"}
  /\ rows \subseteq Documents /\ stored \subseteq Documents /\ upload \subseteq Documents
  /\ deletion \subseteq Documents /\ touched \subseteq Documents
  /\ backup \in BackupType /\ bundle \in BundleType
  /\ target \in [Backups!Parts -> {"none", "old", "new"}]
  /\ aside \in [Backups!Parts -> {"none", "old"}]
  /\ restore \in RestoreType

(* A document is stored, or a deletion has moved it away.                   *)
RowsAreStored ==
  /\ rows \subseteq stored \cup deletion /\ deletion \subseteq rows
  /\ upload \cap (rows \cup deletion) = {} /\ upload \subseteq stored

(* While a backup runs, what its database lists is stored, or has been      *)
(* moved by a deletion since, and what is stored is copied or to be copied. *)
BackupCovers ==
  /\ backup.pc # "idle" => deletion \subseteq touched /\ backup.database \subseteq rows \cup touched
  /\ backup.pc = "copy" =>
       /\ bundle.database = backup.database
       /\ bundle.storage => backup.database \subseteq bundle.files \cup backup.todo \cup touched

(* A part that is replaced by renaming, until the restoration ends.         *)
Renamed(p) == backend = "sqlite" \/ p = "storage"
Before(p)  == target[p] = IF p \in existed THEN "old" ELSE "none"
Replacing(p) ==
  IF p \in restore.installed
  THEN /\ target[p] = "new"
       /\ restore.installed # Backups!Parts => (aside[p] = "old") = (p \in existed)
  ELSE \/ Before(p) /\ aside[p] = "none"
       \/ p \in existed /\ target[p] = "none" /\ aside[p] = "old"
Restoring(p) ==
  CASE restore.pc = "idle"   -> Before(p) /\ aside[p] = "none" /\ restore.installed = {}
    [] restore.pc = "failed" -> Before(p) /\ restore.installed # Backups!Parts
    [] restore.pc = "done"   -> target[p] = "new" /\ aside[p] = "none"
                                /\ restore.installed = Backups!Parts
    [] OTHER                 -> Replacing(p)

BackupInv ==
  /\ BackupTyped /\ RowsAreStored /\ BackupCovers
  /\ \A p \in Backups!Parts : Renamed(p) => Restoring(p)
  /\ Backups!BackupsAreComplete

ServiceState == <<rows, stored, upload, deletion, touched>>
SavingState  == <<backup, bundle>>
PlaceState   == <<target, aside, existed, restore>>
-----------------------------------------------------------------------------
LEMMA BackupStarts ==
  ASSUME Backups!Init PROVE BackupInv
<1> USE DEF Backups!Init
<1>1. backup \in BackupType /\ backup.pc = "idle"
  BY DEF BackupType
<1>2. bundle \in BundleType /\ ~bundle.manifest
  BY DEF BundleType, Backups!NoBundle
<1>3. restore \in RestoreType /\ restore.pc = "idle" /\ restore.installed = {}
  BY DEF RestoreType
<1>4. BackupTyped
  BY <1>1, <1>2, <1>3 DEF BackupTyped
<1>5. \A p \in Backups!Parts : Restoring(p)
  BY <1>3 DEF Restoring, Before
<1>6. RowsAreStored /\ BackupCovers /\ Backups!BackupsAreComplete
  BY <1>1, <1>2 DEF RowsAreStored, BackupCovers, Backups!BackupsAreComplete, Backups!Verified
<1> QED BY <1>4, <1>5, <1>6 DEF BackupInv

(* The service goes on.                                                     *)
LEMMA ServiceKeeps ==
  ASSUME BackupInv, UNCHANGED <<backend, backup, bundle, target, aside, existed, restore>>,
         rows' \subseteq Documents, stored' \subseteq Documents, upload' \subseteq Documents,
         deletion' \subseteq Documents, touched' \subseteq Documents,
         RowsAreStored', touched \subseteq touched',
         backup.pc # "idle" => deletion' \subseteq touched' /\ rows \subseteq rows' \cup touched'
  PROVE  BackupInv'
BY DEF BackupInv, BackupTyped, BackupCovers, Renamed, Restoring, Replacing, Before,
       Backups!BackupsAreComplete, Backups!Verified

LEMMA ServiceActs ==
  ASSUME BackupInv,
         \/ \E d \in Documents : Backups!BeginUpload(d) \/ Backups!BeginDeletion(d)
         \/ Backups!EndUpload \/ Backups!EndDeletion
  PROVE  BackupInv'
<1> USE DEF Backups!saving, Backups!place
<1>1. UNCHANGED <<backend, backup, bundle, target, aside, existed, restore>>
  BY DEF Backups!BeginUpload, Backups!BeginDeletion, Backups!EndUpload, Backups!EndDeletion
<1>2. ASSUME NEW d \in Documents, Backups!BeginUpload(d) PROVE BackupInv'
  <2>1. /\ d \notin rows \cup stored \cup deletion /\ upload' = {d} /\ stored' = stored \cup {d}
        /\ UNCHANGED <<rows, deletion, touched>>
    BY <1>2 DEF Backups!BeginUpload
  <2> QED BY <1>1, <2>1, ServiceKeeps DEF BackupInv, BackupTyped, RowsAreStored, BackupCovers
<1>3. ASSUME NEW d \in Documents, Backups!BeginDeletion(d) PROVE BackupInv'
  <2>1. /\ deletion = {} /\ d \in rows \cap stored /\ deletion' = {d} /\ stored' = stored \ {d}
        /\ touched' = touched \cup {d} /\ UNCHANGED <<rows, upload>>
    BY <1>3 DEF Backups!BeginDeletion
  <2> QED BY <1>1, <2>1, ServiceKeeps DEF BackupInv, BackupTyped, RowsAreStored, BackupCovers
<1>4. CASE Backups!EndUpload
  <2>1. /\ \/ rows' = rows \cup upload /\ UNCHANGED stored
           \/ stored' = stored \ upload /\ UNCHANGED rows
        /\ upload' = {} /\ UNCHANGED <<deletion, touched>>
    BY <1>4 DEF Backups!EndUpload
  <2>2. RowsAreStored'
    BY <2>1 DEF BackupInv, RowsAreStored
  <2>3. /\ rows' \subseteq Documents /\ stored' \subseteq Documents /\ upload' \subseteq Documents
        /\ deletion' \subseteq Documents /\ touched' \subseteq Documents
    BY <2>1 DEF BackupInv, BackupTyped
  <2>4. backup.pc # "idle" => deletion' \subseteq touched' /\ rows \subseteq rows' \cup touched'
    BY <2>1 DEF BackupInv, BackupCovers
  <2> QED BY <1>1, <2>1, <2>2, <2>3, <2>4, ServiceKeeps
<1>5. CASE Backups!EndDeletion
  <2>1. /\ \/ rows' = rows \ deletion /\ UNCHANGED stored
           \/ stored' = stored \cup deletion /\ UNCHANGED rows
        /\ deletion' = {} /\ UNCHANGED <<upload, touched>>
    BY <1>5 DEF Backups!EndDeletion
  <2> QED BY <1>1, <2>1, ServiceKeeps DEF BackupInv, BackupTyped, RowsAreStored, BackupCovers
<1> QED BY <1>2, <1>3, <1>4, <1>5

(* A backup goes on.                                                        *)
LEMMA SavingKeeps ==
  ASSUME BackupInv, UNCHANGED <<backend, rows, stored, upload, deletion, target, aside, existed,
                                restore>>,
         touched' \subseteq Documents, backup' \in BackupType, bundle' \in BundleType,
         BackupCovers', Backups!BackupsAreComplete'
  PROVE  BackupInv'
BY DEF BackupInv, BackupTyped, RowsAreStored, Renamed, Restoring, Replacing, Before

LEMMA BackupActs ==
  ASSUME BackupInv,
         \/ Backups!BackUp \/ Backups!OpenBundle \/ Backups!CopyOriginal
         \/ Backups!BackupFails \/ Backups!CloseBundle \/ Backups!Damage
  PROVE  BackupInv'
<1> USE DEF Backups!service, Backups!place
<1>1. UNCHANGED <<backend, rows, stored, upload, deletion, target, aside, existed, restore>>
  BY DEF Backups!BackUp, Backups!OpenBundle, Backups!CopyOriginal, Backups!BackupFails,
         Backups!CloseBundle, Backups!Damage
<1>2. CASE Backups!BackUp
  <2>1. /\ backup' = [pc |-> "open", database |-> rows, todo |-> {}]
        /\ touched' = deletion /\ UNCHANGED bundle
    BY <1>2 DEF Backups!BackUp, Backups!Snapshot
  <2>2. /\ backup' \in BackupType /\ backup'.pc = "open" /\ backup'.database = rows
        /\ touched' \subseteq Documents
    BY <2>1 DEF BackupType, BackupInv, BackupTyped
  <2>3. BackupCovers'
    BY <2>1, <2>2, <1>1 DEF BackupCovers
  <2>4. bundle' \in BundleType /\ Backups!BackupsAreComplete'
    BY <2>1 DEF BackupInv, BackupTyped, Backups!BackupsAreComplete, Backups!Verified
  <2> QED BY <1>1, <2>2, <2>3, <2>4, SavingKeeps
<1>3. ASSUME NEW storage \in BOOLEAN, backup.pc = "open", UNCHANGED touched,
             bundle' = Backups!Written(storage, {}, FALSE),
             backup' = [backup EXCEPT !.pc = "copy", !.todo = Backups!Listed(storage)]
      PROVE  BackupInv'
  <2> DEFINE todo == Backups!Listed(storage)
  <2>1. todo \subseteq Documents /\ (storage => todo = stored)
    BY DEF Backups!Listed, BackupInv, BackupTyped
  <2> HIDE DEF todo
  <2>2. /\ backup' \in BackupType /\ backup'.pc = "copy" /\ backup'.database = backup.database
        /\ backup'.todo = todo
    BY <1>3, <2>1 DEF BackupType, BackupInv, BackupTyped, todo
  <2>3. /\ bundle' \in BundleType /\ bundle'.database = backup.database /\ bundle'.storage = storage
        /\ ~bundle'.manifest
    BY <1>3 DEF Backups!Written, BundleType, BackupType, BackupInv, BackupTyped
  <2>4. BackupCovers'
    <3>1. storage => backup.database \subseteq todo \cup touched
      BY <1>3, <2>1 DEF BackupInv, BackupCovers, RowsAreStored
    <3> QED BY <1>1, <1>3, <2>2, <2>3, <3>1 DEF BackupInv, BackupCovers
  <2>5. Backups!BackupsAreComplete'
    BY <2>3 DEF Backups!BackupsAreComplete, Backups!Verified
  <2>6. touched' \subseteq Documents
    BY <1>3 DEF BackupInv, BackupTyped
  <2> QED BY <1>1, <2>2, <2>3, <2>4, <2>5, <2>6, SavingKeeps
<1>4. ASSUME NEW d \in backup.todo, backup.pc = "copy", UNCHANGED touched,
             bundle' = Backups!Written(bundle.storage, bundle.files \cup {d}, FALSE),
             backup' = [backup EXCEPT !.todo = @ \ {d}]
      PROVE  BackupInv'
  <2>1. /\ backup' \in BackupType /\ backup'.pc = "copy" /\ backup'.database = backup.database
        /\ backup'.todo = backup.todo \ {d}
    BY <1>4 DEF BackupType, BackupInv, BackupTyped
  <2>2. /\ bundle' \in BundleType /\ bundle'.database = backup.database
        /\ bundle'.storage = bundle.storage /\ ~bundle'.manifest
        /\ bundle'.files = bundle.files \cup {d}
    BY <1>4 DEF Backups!Written, BundleType, BackupType, BackupInv, BackupTyped
  <2>3. BackupCovers'
    BY <1>1, <1>4, <2>1, <2>2 DEF BackupInv, BackupCovers
  <2>4. Backups!BackupsAreComplete'
    BY <2>2 DEF Backups!BackupsAreComplete, Backups!Verified
  <2>5. touched' \subseteq Documents
    BY <1>4 DEF BackupInv, BackupTyped
  <2> QED BY <1>1, <2>1, <2>2, <2>3, <2>4, <2>5, SavingKeeps
<1>5. CASE Backups!BackupFails
  <2>1. /\ backup' = [pc |-> "idle", database |-> {}, todo |-> {}]
        /\ UNCHANGED <<touched, bundle>>
    BY <1>5 DEF Backups!BackupFails
  <2>2. backup' \in BackupType /\ backup'.pc = "idle"
    BY <2>1 DEF BackupType
  <2>3. BackupCovers'
    BY <2>2 DEF BackupCovers
  <2>4. bundle' \in BundleType /\ Backups!BackupsAreComplete' /\ touched' \subseteq Documents
    BY <2>1 DEF BackupInv, BackupTyped, Backups!BackupsAreComplete, Backups!Verified
  <2> QED BY <1>1, <2>2, <2>3, <2>4, SavingKeeps
<1>6. CASE Backups!CloseBundle
  <2>1. /\ backup.pc = "copy" /\ backup.todo = {} /\ UNCHANGED touched
        /\ bundle' = Backups!Written(bundle.storage, bundle.files, TRUE)
        /\ backup' = [pc |-> "idle", database |-> {}, todo |-> {}]
    BY <1>6 DEF Backups!CloseBundle
  <2>2. backup' \in BackupType /\ backup'.pc = "idle"
    BY <2>1 DEF BackupType
  <2>3. /\ bundle' \in BundleType /\ bundle'.database = backup.database
        /\ bundle'.storage = bundle.storage /\ bundle'.files = bundle.files
        /\ bundle'.excused = touched
    BY <2>1 DEF Backups!Written, BundleType, BackupType, BackupInv, BackupTyped
  <2>4. BackupCovers'
    BY <2>2 DEF BackupCovers
  <2>5. Backups!BackupsAreComplete'
    BY <2>1, <2>3 DEF BackupInv, BackupCovers, Backups!BackupsAreComplete
  <2>6. touched' \subseteq Documents
    BY <2>1 DEF BackupInv, BackupTyped
  <2> QED BY <1>1, <2>2, <2>3, <2>4, <2>5, <2>6, SavingKeeps
<1>7. CASE Backups!Damage
  <2>1. /\ backup.pc = "idle" /\ bundle' = [bundle EXCEPT !.intact = FALSE]
        /\ UNCHANGED <<backup, touched>>
    BY <1>7 DEF Backups!Damage
  <2>2. bundle' \in BundleType /\ ~bundle'.intact
    BY <2>1 DEF BundleType, BackupInv, BackupTyped
  <2>3. BackupCovers' /\ Backups!BackupsAreComplete'
    BY <2>1, <2>2 DEF BackupCovers, Backups!BackupsAreComplete, Backups!Verified
  <2>4. backup' \in BackupType /\ touched' \subseteq Documents
    BY <2>1 DEF BackupInv, BackupTyped
  <2> QED BY <1>1, <2>2, <2>3, <2>4, SavingKeeps
<1>8. CASE Backups!OpenBundle
  BY <1>3, <1>8 DEF Backups!OpenBundle
<1>9. CASE Backups!CopyOriginal
  BY <1>4, <1>9 DEF Backups!CopyOriginal
<1> QED BY <1>2, <1>5, <1>6, <1>7, <1>8, <1>9
-----------------------------------------------------------------------------
(* A restoration goes on.                                                   *)
LEMMA RestoreKeeps ==
  ASSUME BackupInv, UNCHANGED <<backend, rows, stored, upload, deletion, touched, backup, bundle>>,
         target' \in [Backups!Parts -> {"none", "old", "new"}],
         aside' \in [Backups!Parts -> {"none", "old"}], restore' \in RestoreType,
         \A p \in Backups!Parts : Renamed(p) => Restoring(p)'
  PROVE  BackupInv'
BY DEF BackupInv, BackupTyped, RowsAreStored, BackupCovers, Renamed, Backups!BackupsAreComplete,
       Backups!Verified

LEMMA RestoreActs ==
  ASSUME BackupInv,
         \/ Backups!Restore \/ Backups!RestoreDump \/ Backups!RestoreFails
         \/ Backups!RestoreReturns \/ Backups!RestoreCrashes
         \/ \E p \in Backups!Parts : \/ Backups!PutAside(p) \/ Backups!Install(p)
                                    \/ Backups!RemoveAside(p)
  PROVE  BackupInv'
<1> USE DEF Backups!service, Backups!saving, Backups!place
<1>1. UNCHANGED <<backend, rows, stored, upload, deletion, touched, backup, bundle, existed>>
  BY DEF Backups!Restore, Backups!RestoreDump, Backups!RestoreFails, Backups!RestoreReturns,
         Backups!RestoreCrashes, Backups!PutAside, Backups!Install, Backups!RemoveAside
<1>2. /\ target \in [Backups!Parts -> {"none", "old", "new"}]
      /\ aside \in [Backups!Parts -> {"none", "old"}] /\ restore \in RestoreType
      /\ \A p \in Backups!Parts : Renamed(p) => Restoring(p)
      /\ backend \in {"sqlite", "postgresql"} /\ Backups!Parts = {"database", "storage"}
  BY DEF BackupInv, BackupTyped, Backups!Parts
<1>3. restore.installed \in {{}, {"database"}, Backups!Parts}
  BY <1>2 DEF RestoreType
<1>4. CASE Backups!Restore
  <2>1. /\ restore.pc = "idle" /\ restore' = [pc |-> "replace", installed |-> {}]
        /\ UNCHANGED <<target, aside, existed>>
    BY <1>4 DEF Backups!Restore
  <2>2. restore' \in RestoreType /\ restore'.pc = "replace" /\ restore'.installed = {}
    BY <2>1 DEF RestoreType
  <2>3. \A p \in Backups!Parts : Renamed(p) => Restoring(p)'
    BY <1>2, <2>1, <2>2 DEF Restoring, Replacing, Before
  <2> QED BY <1>1, <1>2, <2>1, <2>2, <2>3, RestoreKeeps
<1>5. CASE Backups!RestoreDump
  <2>1. /\ restore.pc = "replace" /\ backend = "postgresql" /\ restore.installed = {}
        /\ target' = [target EXCEPT !["database"] = "new"]
        /\ restore' = [restore EXCEPT !.installed = {"database"}] /\ UNCHANGED <<aside, existed>>
    BY <1>5 DEF Backups!RestoreDump
  <2>2. restore' \in RestoreType /\ restore'.pc = "replace" /\ restore'.installed = {"database"}
    BY <1>2, <2>1 DEF RestoreType
  <2>3. target' \in [Backups!Parts -> {"none", "old", "new"}] /\
          target'["storage"] = target["storage"]
    BY <1>2, <2>1
  <2>4. \A p \in Backups!Parts : Renamed(p) => Restoring(p)'
    BY <1>2, <2>1, <2>2, <2>3 DEF Renamed, Restoring, Replacing, Before
  <2> QED BY <1>1, <1>2, <2>1, <2>2, <2>3, <2>4, RestoreKeeps
<1>6. CASE Backups!RestoreFails
  <2>1. /\ restore.pc = "replace" /\ restore.installed # Backups!Parts
        /\ target' = [p \in Backups!Parts |-> Backups!Undone(p)]
        /\ aside' = [p \in Backups!Parts |-> "none"]
        /\ restore' = [restore EXCEPT !.pc = "failed"]
    BY <1>6 DEF Backups!RestoreFails
  <2>2. /\ restore' \in RestoreType /\ restore'.pc = "failed"
        /\ restore'.installed = restore.installed
    BY <1>2, <2>1 DEF RestoreType
  <2>3. /\ target' \in [Backups!Parts -> {"none", "old", "new"}]
        /\ aside' \in [Backups!Parts -> {"none", "old"}]
    BY <1>2, <2>1 DEF Backups!Undone
  <2>4. ASSUME NEW p \in Backups!Parts, Renamed(p) PROVE Restoring(p)'
    <3>1. ~(p = "database" /\ backend = "postgresql")
      BY <2>4 DEF Renamed
    <3>2. target'[p] = IF aside[p] = "old" THEN "old"
                       ELSE IF p \in restore.installed THEN "none" ELSE target[p]
      BY <2>1, <3>1 DEF Backups!Undone
    <3>3. Replacing(p)
      BY <1>2, <2>1, <2>4 DEF Restoring
    <3>4. target'[p] = IF p \in existed THEN "old" ELSE "none"
      BY <2>1, <3>2, <3>3 DEF Replacing, Before
    <3> QED BY <1>1, <2>1, <2>2, <3>4 DEF Restoring, Before
  <2> QED BY <1>1, <2>2, <2>3, <2>4, RestoreKeeps
<1>7. CASE Backups!RestoreReturns
  <2>1. /\ restore.pc = "replace" /\ restore.installed = Backups!Parts
        /\ \A p \in Backups!Parts : aside[p] = "none"
        /\ restore' = [restore EXCEPT !.pc = "done"] /\ UNCHANGED <<target, aside, existed>>
    BY <1>7 DEF Backups!RestoreReturns
  <2>2. /\ restore' \in RestoreType /\ restore'.pc = "done"
        /\ restore'.installed = restore.installed
    BY <1>2, <2>1 DEF RestoreType
  <2>3. \A p \in Backups!Parts : Renamed(p) => Restoring(p)'
    BY <1>2, <2>1, <2>2 DEF Restoring, Replacing
  <2> QED BY <1>1, <1>2, <2>1, <2>2, <2>3, RestoreKeeps
<1>8. CASE Backups!RestoreCrashes
  <2>1. /\ restore.pc = "replace" /\ restore' = [restore EXCEPT !.pc = "crashed"]
        /\ UNCHANGED <<target, aside, existed>>
    BY <1>8 DEF Backups!RestoreCrashes
  <2>2. /\ restore' \in RestoreType /\ restore'.pc = "crashed"
        /\ restore'.installed = restore.installed
    BY <1>2, <2>1 DEF RestoreType
  <2>3. \A p \in Backups!Parts : Renamed(p) => Restoring(p)'
    BY <1>2, <2>1, <2>2 DEF Restoring, Replacing, Before
  <2> QED BY <1>1, <1>2, <2>1, <2>2, <2>3, RestoreKeeps
<1>9. ASSUME NEW p \in Backups!Parts, Backups!PutAside(p) PROVE BackupInv'
  <2>1. /\ restore.pc = "replace" /\ p \notin restore.installed /\ target[p] = "old"
        /\ target' = [target EXCEPT ![p] = "none"] /\ aside' = [aside EXCEPT ![p] = "old"]
        /\ UNCHANGED restore
    BY <1>9 DEF Backups!PutAside
  <2>2. /\ target' \in [Backups!Parts -> {"none", "old", "new"}]
        /\ aside' \in [Backups!Parts -> {"none", "old"}]
    BY <1>2, <2>1
  <2>3. \A q \in Backups!Parts : Renamed(q) => Restoring(q)'
    BY <1>1, <1>2, <2>1 DEF Restoring, Replacing, Before
  <2> QED BY <1>1, <1>2, <2>1, <2>2, <2>3, RestoreKeeps
<1>10. ASSUME NEW p \in Backups!Parts, Backups!Install(p) PROVE BackupInv'
  <2>1. /\ restore.pc = "replace" /\ p \notin restore.installed /\ Backups!Turn(p)
        /\ target[p] = "none" /\ target' = [target EXCEPT ![p] = "new"]
        /\ restore' = [restore EXCEPT !.installed = @ \cup {p}]
        /\ UNCHANGED <<aside, existed>>
    BY <1>10 DEF Backups!Install
  <2>2. restore.installed \cup {p} \in {{}, {"database"}, Backups!Parts}
    BY <1>2, <1>3, <2>1 DEF Backups!Turn
  <2>3. /\ restore' \in RestoreType /\ restore'.pc = "replace"
        /\ restore'.installed = restore.installed \cup {p}
    BY <1>2, <2>1, <2>2 DEF RestoreType
  <2>4. target' \in [Backups!Parts -> {"none", "old", "new"}]
    BY <1>2, <2>1
  <2>5. restore.installed # Backups!Parts
    BY <2>1
  <2>6. \A q \in Backups!Parts : Renamed(q) => Restoring(q)'
    BY <1>2, <2>1, <2>3, <2>5 DEF Restoring, Replacing, Before
  <2> QED BY <1>1, <1>2, <2>1, <2>3, <2>4, <2>6, RestoreKeeps
<1>11. ASSUME NEW p \in Backups!Parts, Backups!RemoveAside(p) PROVE BackupInv'
  <2>1. /\ restore.pc = "replace" /\ restore.installed = Backups!Parts
        /\ aside' = [aside EXCEPT ![p] = "none"] /\ UNCHANGED <<target, existed, restore>>
    BY <1>11 DEF Backups!RemoveAside
  <2>2. aside' \in [Backups!Parts -> {"none", "old"}]
    BY <1>2, <2>1
  <2>3. \A q \in Backups!Parts : Renamed(q) => Restoring(q)'
    BY <1>2, <2>1 DEF Restoring, Replacing
  <2> QED BY <1>1, <1>2, <2>1, <2>2, <2>3, RestoreKeeps
<1> QED BY <1>4, <1>5, <1>6, <1>7, <1>8, <1>9, <1>10, <1>11

BackupsHold == scope = "backups" => BackupInv

LEMMA BackupsScope ==
  ASSUME [Next]_vars, scope' = "backups"
  PROVE  scope = "backups" /\ [Backups!Next]_Backups!vars
BY DEF Next, vars, backing, Backups!vars, Backups!service, Backups!saving, Backups!place,
       PracticesNext, PilotsNext, AccountsNext, ProfilesNext, BackupsNext, EditionNext, LimitsNext,
       ProtocolNext, ReadingsNext, BatchesNext

(* What holds of backups and restores in every behaviour.                   *)
LEMMA BackupsAlways == Spec => []BackupsHold
<1>1. Init => BackupsHold
  BY BackupStarts DEF Init, BackupsHold
<1>2. ASSUME BackupInv, UNCHANGED Backups!vars PROVE BackupInv'
  BY <1>2 DEF Backups!vars, Backups!service, Backups!saving, Backups!place, BackupInv, BackupTyped,
     RowsAreStored, BackupCovers, Renamed, Restoring, Replacing, Before, Backups!BackupsAreComplete,
     Backups!Verified
<1>3. ASSUME BackupInv, [Backups!Next]_Backups!vars PROVE BackupInv'
  BY <1>2, <1>3, ServiceActs, BackupActs, RestoreActs DEF Backups!Next
<1>4. BackupsHold /\ [Next]_vars => BackupsHold'
  BY <1>3, BackupsScope DEF BackupsHold
<1> QED BY <1>1, <1>4, PTL DEF Spec

(* create_backup copies the database before the originals: a bundle that    *)
(* verify_backup accepts has the original of every document it lists, but   *)
(* for those that a deletion had moved away while it was written.           *)
THEOREM VerifiedIsComplete == Spec => []BackupsAreComplete
<1>1. BackupsHold => BackupsAreComplete
  BY DEF BackupsHold, BackupInv, BackupsAreComplete
<1> QED BY <1>1, BackupsAlways, PTL

(* restore_sqlite and restore_postgres put what they replace aside: after   *)
(* a failure it is back, and after a crash it is in its place or aside.     *)
THEOREM RestoresAreAllOrNothing == Spec => []RestoreIsAllOrNothing
<1>1. ASSUME BackupInv PROVE Backups!RestoreIsAllOrNothing
  <2>1. restore \in RestoreType
    BY <1>1 DEF BackupInv, BackupTyped
  <2>2. \A p \in Backups!Parts : backend = "sqlite" \/ p = "storage" => Restoring(p)
    BY <1>1 DEF BackupInv, Renamed
  <2> QED BY <2>1, <2>2 DEF Backups!RestoreIsAllOrNothing, RestoreType, Restoring, Replacing, Before
<1>2. BackupsHold => RestoreIsAllOrNothing
  BY <1>1 DEF BackupsHold, RestoreIsAllOrNothing
<1> QED BY <1>2, BackupsAlways, PTL
-----------------------------------------------------------------------------
(* The procurement pilot.                                                  *)

(* What a freeze has validated, and writes into the manifest before anyone  *)
(* can edit it.                                                             *)
Validated(register_, inventory_, artefacts_) ==
  /\ \A r \in register_ : r.valid
  /\ \A i \in inventory_ : i.complete
  /\ Pilot!MatrixValid(artefacts_[1], Pilot!Matrix(artefacts_[2]))

ProtocolTyped ==
  /\ now \in Nat /\ truth \in [Blind -> Nat]
  /\ One(register) /\ One(inventory) /\ One(truthSeal)

FreezesAreValid ==
  /\ command \in {"locations", "manifest"} => Validated(register, inventory, artefacts)
  /\ \A m \in manifest : Validated(m.register, m.inventory, m.artefacts)

(* Truth that is sealed was complete before, and so was the seal before any *)
(* result that is there.                                                    *)
SealsComeBetween ==
  /\ \A c \in Blind : truth[c] > 1 => truth[c] <= now
  /\ \A s \in truthSeal :
       /\ s.at \in Nat /\ \A c \in Blind : s.hashes[c] < s.at
       /\ \A entry \in results : entry.after = {s.at}

ProtocolInv == ProtocolTyped /\ FreezesAreValid /\ SealsComeBetween
-----------------------------------------------------------------------------
LEMMA ProtocolStarts ==
  ASSUME Pilot!Init PROVE ProtocolInv
BY DEF Pilot!Init, ProtocolInv, ProtocolTyped, FreezesAreValid, SealsComeBetween, One

(* The rules of a pack that is in place are proven, or left out by it.      *)
LEMMA ValidPacksAreProven ==
  ASSUME NEW p, NEW q, Pilot!MatrixValid(p, Pilot!Matrix(q))
  PROVE  Pilot!Types(p) \subseteq Qualified \cup IF p.schema = 2 THEN p.excluded ELSE {}
<1> DEFINE m == Pilot!Matrix(q)
<1>1. m.complete \subseteq Qualified
  BY DEF Pilot!Matrix
<1> HIDE DEF m
<1>2. CASE m.schema = 1 /\ Pilot!V1Valid(p, m)
  BY <1>1, <1>2 DEF Pilot!V1Valid
<1>3. CASE m.schema = 2 /\ Pilot!TargetValid(p) /\ Pilot!V2Valid(p, m)
  BY <1>1, <1>3 DEF Pilot!TargetValid, Pilot!V2Valid
<1> QED BY <1>2, <1>3 DEF Pilot!MatrixValid, m

(* What an edit between commands replaces: no freeze is under way.          *)
LEMMA EditsKeep ==
  ASSUME ProtocolInv, command = "none", command' = "none",
         One(register'), One(inventory'), now' \in {now, now + 1},
         UNCHANGED <<manifest, truth, truthSeal>>, results' \in {{}, results}
  PROVE  ProtocolInv'
<1>1. ProtocolTyped' /\ FreezesAreValid'
  BY DEF ProtocolInv, ProtocolTyped, FreezesAreValid
<1>2. SealsComeBetween'
  BY DEF ProtocolInv, ProtocolTyped, SealsComeBetween
<1> QED BY <1>1, <1>2 DEF ProtocolInv

LEMMA PeopleEdit ==
  ASSUME ProtocolInv,
         \/ Pilot!Prepare \/ Pilot!EditRegister \/ Pilot!FileDocuments \/ Pilot!Replace
         \/ Pilot!TakeInventory \/ Pilot!ClearResults \/ Pilot!Evaluate
  PROVE  ProtocolInv'
<1>1. One(register) /\ One(inventory)
  BY DEF ProtocolInv, ProtocolTyped
<1>2. One(register') /\ One(inventory')
  BY <1>1 DEF Pilot!Prepare, Pilot!EditRegister, Pilot!FileDocuments, Pilot!Replace,
              Pilot!TakeInventory, Pilot!ClearResults, Pilot!Evaluate, One
<1> QED
  BY <1>2, EditsKeep
  DEF Pilot!Prepare, Pilot!EditRegister, Pilot!FileDocuments, Pilot!Replace,
      Pilot!TakeInventory, Pilot!ClearResults, Pilot!Evaluate, Pilot!Tick

LEMMA FreezeWrites ==
  ASSUME ProtocolInv,
         \/ Pilot!Freeze \/ Pilot!WriteLocations \/ Pilot!WriteManifest \/ Pilot!WriteSeal
         \/ Pilot!Interrupt
  PROVE  ProtocolInv'
<1>1. UNCHANGED <<register, inventory, artefacts, truth, truthSeal, results>>
      /\ now' \in {now, now + 1}
  BY DEF Pilot!Freeze, Pilot!WriteLocations, Pilot!WriteManifest, Pilot!WriteSeal,
         Pilot!Interrupt, Pilot!Tick
<1>2. ProtocolTyped' /\ SealsComeBetween'
  BY <1>1 DEF ProtocolInv, ProtocolTyped, SealsComeBetween
<1>3. FreezesAreValid'
  <2>1. CASE Pilot!Freeze
    <3>1. Validated(register, inventory, artefacts)
      BY <2>1 DEF Pilot!Freeze, Validated, ProtocolInv, ProtocolTyped, One
    <3> QED BY <1>1, <2>1, <3>1 DEF Pilot!Freeze, ProtocolInv, FreezesAreValid
  <2>2. CASE Pilot!WriteLocations
    BY <1>1, <2>2 DEF Pilot!WriteLocations, ProtocolInv, FreezesAreValid
  <2>3. CASE Pilot!WriteManifest
    <3>1. Validated(register, inventory, artefacts)
      BY <2>3 DEF Pilot!WriteManifest, ProtocolInv, FreezesAreValid
    <3> QED BY <1>1, <2>3, <3>1 DEF Pilot!WriteManifest, FreezesAreValid
  <2>4. CASE Pilot!WriteSeal \/ Pilot!Interrupt
    BY <1>1, <2>4 DEF Pilot!WriteSeal, Pilot!Interrupt, ProtocolInv, FreezesAreValid
  <2> QED BY <2>1, <2>2, <2>3, <2>4
<1> QED BY <1>2, <1>3 DEF ProtocolInv

LEMMA TruthIsCompleted ==
  ASSUME ProtocolInv, Pilot!CreateTemplates \/ \E c \in Blind : Pilot!Complete(c)
  PROVE  ProtocolInv'
<1>1. /\ UNCHANGED <<register, inventory, artefacts, command, manifest, truthSeal, results>>
      /\ now' \in {now, now + 1}
  BY DEF Pilot!CreateTemplates, Pilot!Complete, Pilot!Tick
<1>2. /\ truth' \in [Blind -> Nat]
      /\ \A c \in Blind : truth'[c] > 1 => truth'[c] <= now'
  <2>1. CASE Pilot!CreateTemplates
    BY <2>1 DEF Pilot!CreateTemplates, ProtocolInv, ProtocolTyped, SealsComeBetween
  <2>2. CASE \E c \in Blind : Pilot!Complete(c)
    BY <2>2 DEF Pilot!Complete, Pilot!Tick, ProtocolInv, ProtocolTyped, SealsComeBetween
  <2> QED BY <2>1, <2>2
<1>3. ProtocolTyped' /\ FreezesAreValid'
  BY <1>1, <1>2 DEF ProtocolInv, ProtocolTyped, FreezesAreValid
<1>4. SealsComeBetween'
  BY <1>1, <1>2 DEF ProtocolInv, SealsComeBetween
<1> QED BY <1>3, <1>4 DEF ProtocolInv

LEMMA TruthIsSealed ==
  ASSUME ProtocolInv, Pilot!SealTruth
  PROVE  ProtocolInv'
<1>1. /\ UNCHANGED <<register, inventory, artefacts, command, manifest, truth, results>>
      /\ now' = now + 1 /\ results = {}
      /\ \A c \in Blind : truth[c] > 1
      /\ truthSeal' \in {{}, {[at |-> now', hashes |-> truth]}}
  BY DEF Pilot!SealTruth, Pilot!Tick, Pilot!Unrecorded
<1>2. ProtocolTyped' /\ FreezesAreValid'
  BY <1>1 DEF ProtocolInv, ProtocolTyped, FreezesAreValid, One
<1>3. SealsComeBetween'
  BY <1>1 DEF ProtocolInv, ProtocolTyped, SealsComeBetween
<1> QED BY <1>2, <1>3 DEF ProtocolInv

LEMMA ResultsAreRecorded ==
  ASSUME ProtocolInv, NEW c \in Blind, Pilot!RecordResult(c)
  PROVE  ProtocolInv'
<1>1. /\ UNCHANGED <<now, register, inventory, artefacts, command, manifest, truth, truthSeal>>
      /\ results' = results \cup {[case |-> c, after |-> {s.at : s \in truthSeal}]}
  BY DEF Pilot!RecordResult
<1>2. ASSUME NEW s \in truthSeal PROVE {x.at : x \in truthSeal} = {s.at}
  BY <1>2 DEF ProtocolInv, ProtocolTyped, One
<1>3. ProtocolTyped' /\ FreezesAreValid'
  BY <1>1 DEF ProtocolInv, ProtocolTyped, FreezesAreValid
<1>4. ASSUME NEW s \in truthSeal, NEW entry \in results' PROVE entry.after = {s.at}
  <2>1. CASE entry \in results
    BY <2>1 DEF ProtocolInv, SealsComeBetween
  <2>2. CASE entry = [case |-> c, after |-> {x.at : x \in truthSeal}]
    BY <1>2, <2>2
  <2> QED BY <1>1, <1>4, <2>1, <2>2
<1>5. SealsComeBetween'
  BY <1>1, <1>4 DEF ProtocolInv, SealsComeBetween
<1> QED BY <1>3, <1>5 DEF ProtocolInv

ProtocolHold == scope = "protocol" => ProtocolInv

LEMMA ProtocolScope ==
  ASSUME [Next]_vars, scope' = "protocol"
  PROVE  scope = "protocol" /\ [Pilot!Next]_Pilot!vars
BY DEF Next, vars, protocol, Pilot!vars, PracticesNext, PilotsNext, AccountsNext, ProfilesNext,
       BackupsNext, EditionNext, LimitsNext, ProtocolNext, ReadingsNext, BatchesNext

(* What holds of the procurement pilot in every behaviour.                  *)
LEMMA ProtocolAlways == Spec => []ProtocolHold
<1>1. Init => ProtocolHold
  BY ProtocolStarts DEF Init, ProtocolHold
<1>2. ASSUME ProtocolInv, [Pilot!Next]_Pilot!vars PROVE ProtocolInv'
  <2>1. CASE UNCHANGED Pilot!vars
    BY <1>2, <2>1 DEF Pilot!vars, ProtocolInv, ProtocolTyped, FreezesAreValid, SealsComeBetween
  <2> QED
    BY <1>2, <2>1, PeopleEdit, FreezeWrites, TruthIsCompleted, TruthIsSealed, ResultsAreRecorded
    DEF Pilot!Next
<1>3. ProtocolHold /\ [Next]_vars => ProtocolHold'
  BY <1>2, ProtocolScope DEF ProtocolHold
<1> QED BY <1>1, <1>3, PTL DEF Spec

(* freeze_workspace validates what it then writes into the manifest, before *)
(* anyone edits it; seal_ground_truth finds no result; evaluate compares    *)
(* manifest and seals with the files in place.  So results are evaluated    *)
(* only against truth that was sealed before them, in a workspace that a    *)
(* freeze has validated.                                                    *)
THEOREM EvaluationsAreBlind == Spec => []EvaluatedIsBlind
<1>1. ASSUME ProtocolInv PROVE Pilot!EvaluatedIsBlind
  <2> SUFFICES ASSUME Pilot!Evaluable PROVE
        /\ \A s \in truthSeal : /\ \A entry \in results : entry.after = {s.at}
                                /\ \A c \in Blind : truth[c] < s.at
        /\ \A r \in register : r.valid
        /\ \A i \in inventory : i.complete
        /\ LET pack == artefacts[1]
           IN Pilot!Types(pack) \subseteq
                Qualified \cup IF pack.schema = 2 THEN pack.excluded ELSE {}
    BY DEF Pilot!EvaluatedIsBlind
  <2>1. /\ manifest # {}
        /\ \A m \in manifest : /\ m.register = register /\ m.inventory = inventory
                               /\ m.artefacts = artefacts
        /\ \E s \in truthSeal : s.hashes = truth
    BY DEF Pilot!Evaluable, Pilot!Ready, Pilot!Intact, Pilot!Frozen
  <2>2. Validated(register, inventory, artefacts)
    BY <1>1, <2>1 DEF ProtocolInv, FreezesAreValid
  <2>3. \A s \in truthSeal : s.hashes = truth
    BY <1>1, <2>1 DEF ProtocolInv, ProtocolTyped, One
  <2> QED BY <1>1, <2>2, <2>3, ValidPacksAreProven DEF Validated, ProtocolInv, SealsComeBetween
<1>2. ProtocolHold => EvaluatedIsBlind
  BY <1>1 DEF ProtocolHold, EvaluatedIsBlind
<1> QED BY <1>2, ProtocolAlways, PTL
-----------------------------------------------------------------------------
(* The edition for one computer.                                           *)

Down(l) == server[l] \in LocalEdition!Dead /\ worker[l] \in LocalEdition!Dead
Up(l)   == server[l] = "serving" /\ worker[l] = "running"

EditionTyped ==
  /\ program \in Programs /\ db \in LocalEdition!Databases
  /\ backups \in Seq(LocalEdition!Databases) /\ Len(backups) <= Keep
  /\ window \in [Launchers -> {"closed", "terms", "ready", "failed"} \cup LocalEdition!Starting]
  /\ handle \in [Launchers -> BOOLEAN]
  /\ server \in [Launchers -> LocalEdition!Dead \cup LocalEdition!Stages]
  /\ worker \in [Launchers -> LocalEdition!Dead \cup {"running"}]

(* Children begin with the start of a window and end with its failure; for  *)
(* a careful user they are those of the one window, which knows them.       *)
WindowsAgree ==
  \A l \in Launchers :
    /\ window[l] \in {"terms", "starting", "failed"} => Down(l)
    /\ careful =>
         /\ window[l] = "closed"  => Down(l)
         /\ window[l] = "booting" => worker[l] \in LocalEdition!Dead
         /\ window[l] \in {"waiting", "ready"} => Up(l) /\ handle[l]
         /\ window[l] # "closed" => \A m \in Launchers \ {l} : window[m] = "closed"

(* A server that is about to change the schema has made its copy.           *)
CopiesAreMade ==
  \A l \in Launchers :
    careful /\ server[l] = "upgrade" /\ db.tables /\ db.version # program
      => backups # <<>> /\ Head(backups) = db

EditionInv == EditionTyped /\ WindowsAgree /\ CopiesAreMade
-----------------------------------------------------------------------------
LEMMA EditionStarts ==
  ASSUME LocalEdition!Init PROVE EditionInv
<1>1. EditionTyped
  <2>1. db \in LocalEdition!Databases
    <3>1. 0 \in 0 .. MaxData
      BY EditionAssumption
    <3>2. \A b \in BOOLEAN, v \in {0} \cup Programs :
            [tables : {b}, version : {v}, data : {0}] \subseteq LocalEdition!Databases
      BY <3>1 DEF LocalEdition!Databases
    <3>3. [tables : {TRUE}, version : {0} \cup Programs, data : {0}]
            \subseteq LocalEdition!Databases
      BY <3>1 DEF LocalEdition!Databases
    <3> QED BY <3>2, <3>3 DEF LocalEdition!Init
  <2>2. backups \in Seq(LocalEdition!Databases) /\ Len(backups) <= Keep
    BY EditionAssumption, EmptySeq DEF LocalEdition!Init
  <2> QED BY <2>1, <2>2
       DEF LocalEdition!Init, EditionTyped, LocalEdition!Dead
<1>2. WindowsAgree /\ CopiesAreMade
  BY DEF LocalEdition!Init, WindowsAgree, CopiesAreMade, Down, LocalEdition!Dead
<1> QED BY <1>1, <1>2 DEF EditionInv

(* A window changes what it shows, and no child does anything.              *)
LEMMA WindowShows ==
  ASSUME EditionInv, NEW l \in Launchers,
         \/ LocalEdition!Open(l) \/ LocalEdition!Accept(l) \/ LocalEdition!Attach(l)
         \/ LocalEdition!PortTaken(l) \/ LocalEdition!Ready(l)
  PROVE  EditionInv'
<1>1. UNCHANGED <<careful, program, db, backups, handle, server, worker>>
  BY DEF LocalEdition!Open, LocalEdition!Accept, LocalEdition!Attach, LocalEdition!PortTaken,
         LocalEdition!Ready, LocalEdition!disk
<1>2. PICK w \in {"terms", "starting", "ready", "failed"} : window' = [window EXCEPT ![l] = w]
  BY DEF LocalEdition!Open, LocalEdition!Accept, LocalEdition!Attach, LocalEdition!PortTaken,
         LocalEdition!Ready, LocalEdition!Show
<1>3. EditionTyped'
  BY <1>1, <1>2 DEF EditionInv, EditionTyped, LocalEdition!Starting
<1>4. CopiesAreMade'
  BY <1>1 DEF EditionInv, CopiesAreMade
<1>5. w \in {"terms", "starting", "failed"} => Down(l)
  BY <1>2 DEF LocalEdition!Open, LocalEdition!Accept, LocalEdition!Attach, LocalEdition!PortTaken,
              LocalEdition!Ready, LocalEdition!Show, EditionInv, EditionTyped, WindowsAgree, Down
<1>6. /\ window[l] # "closed" \/ (careful => \A m \in Launchers : window[m] = "closed")
      /\ w = "ready" => window[l] = "waiting" \/ (window[l] = "starting" /\ LocalEdition!Healthy)
  BY <1>2 DEF LocalEdition!Open, LocalEdition!Accept, LocalEdition!Attach, LocalEdition!PortTaken,
              LocalEdition!Ready, LocalEdition!Show, EditionInv, EditionTyped
<1>7. careful /\ w = "ready" => Up(l) /\ handle[l]
  <2> SUFFICES ASSUME careful, window[l] = "starting" PROVE ~LocalEdition!Healthy
    BY <1>6 DEF EditionInv, WindowsAgree
  <2> QED BY DEF EditionInv, WindowsAgree, LocalEdition!Healthy, Down, LocalEdition!Dead
<1>8. WindowsAgree'
  <2>1. \A m \in Launchers : Down(m)' = Down(m) /\ Up(m)' = Up(m)
    BY <1>1 DEF Down, Up
  <2>2. window'[l] = w /\ \A m \in Launchers \ {l} : window'[m] = window[m]
    BY <1>2 DEF EditionInv, EditionTyped
  <2> QED BY <1>1, <1>5, <1>6, <1>7, <2>1, <2>2 DEF EditionInv, WindowsAgree
<1> QED BY <1>3, <1>4, <1>8 DEF EditionInv

(* Children are started, stopped or die.                                    *)
LEMMA StartsAgree ==
  ASSUME EditionInv, NEW l \in Launchers,
         \/ LocalEdition!StartServer(l) \/ LocalEdition!StartWorker(l)
         \/ LocalEdition!StartFails(l) \/ LocalEdition!Close(l) \/ LocalEdition!Die(l)
  PROVE  EditionInv'
<1>1. UNCHANGED <<careful, program, db, backups>>
  BY DEF LocalEdition!StartServer, LocalEdition!StartWorker, LocalEdition!StartFails,
         LocalEdition!Close, LocalEdition!Die, LocalEdition!disk
<1> DEFINE w == window'[l]  h == handle'[l]  s == server'[l]  k == worker'[l]
<1>2. /\ window' \in [Launchers -> {"closed", "terms", "ready", "failed"}
                                     \cup LocalEdition!Starting]
      /\ handle' \in [Launchers -> BOOLEAN]
      /\ server' \in [Launchers -> LocalEdition!Dead \cup LocalEdition!Stages]
      /\ worker' \in [Launchers -> LocalEdition!Dead \cup {"running"}]
      /\ \A m \in Launchers \ {l} : UNCHANGED <<window[m], handle[m], server[m], worker[m]>>
  <2>1. /\ window \in [Launchers -> {"closed", "terms", "ready", "failed"}
                                      \cup LocalEdition!Starting]
        /\ handle \in [Launchers -> BOOLEAN]
        /\ server \in [Launchers -> LocalEdition!Dead \cup LocalEdition!Stages]
        /\ worker \in [Launchers -> LocalEdition!Dead \cup {"running"}]
    BY DEF EditionInv, EditionTyped
  <2>2. CASE LocalEdition!StartServer(l)
    BY <2>1, <2>2 DEF LocalEdition!StartServer, LocalEdition!Show, LocalEdition!Stage,
      LocalEdition!StopBoth, LocalEdition!Stopped, LocalEdition!Dead, LocalEdition!Stages,
      LocalEdition!Starting
  <2>3. CASE LocalEdition!StartWorker(l)
    BY <2>1, <2>3 DEF LocalEdition!StartWorker, LocalEdition!Show, LocalEdition!Stage,
      LocalEdition!StopBoth, LocalEdition!Stopped, LocalEdition!Dead, LocalEdition!Stages,
      LocalEdition!Starting
  <2>4. CASE LocalEdition!StartFails(l)
    BY <2>1, <2>4 DEF LocalEdition!StartFails, LocalEdition!Show, LocalEdition!Stage,
      LocalEdition!StopBoth, LocalEdition!Stopped, LocalEdition!Dead, LocalEdition!Stages,
      LocalEdition!Starting
  <2>5. CASE LocalEdition!Close(l)
    BY <2>1, <2>5 DEF LocalEdition!Close, LocalEdition!Show, LocalEdition!Stage,
      LocalEdition!StopBoth, LocalEdition!Stopped, LocalEdition!Dead, LocalEdition!Stages,
      LocalEdition!Starting
  <2>6. CASE LocalEdition!Die(l)
    BY <2>1, <2>6 DEF LocalEdition!Die, LocalEdition!Show, LocalEdition!Stage,
      LocalEdition!StopBoth, LocalEdition!Stopped, LocalEdition!Dead, LocalEdition!Stages,
      LocalEdition!Starting
  <2> QED BY <2>2, <2>3, <2>4, <2>5, <2>6
<1>3. EditionTyped'
  BY <1>1, <1>2 DEF EditionInv, EditionTyped
<1>4. /\ window'[l] = w /\ handle'[l] = h /\ server'[l] = s /\ worker'[l] = k
      /\ \A m \in Launchers \ {l} : UNCHANGED <<window[m], handle[m], server[m], worker[m]>>
  BY <1>2
<1>5. s # "upgrade" \/ s = server[l]
  BY <1>4 DEF LocalEdition!StartServer, LocalEdition!StartWorker, LocalEdition!StartFails,
        LocalEdition!Close, LocalEdition!Die, LocalEdition!Show, LocalEdition!Stage,
        LocalEdition!StopBoth, LocalEdition!Stopped, EditionInv, EditionTyped
<1>6. CopiesAreMade'
  BY <1>1, <1>4, <1>5 DEF EditionInv, CopiesAreMade
<1>7. /\ w \in {"terms", "starting", "failed"} => s \in LocalEdition!Dead /\ k \in LocalEdition!Dead
      /\ careful =>
           /\ w = "closed"  => s \in LocalEdition!Dead /\ k \in LocalEdition!Dead
           /\ w = "booting" => k \in LocalEdition!Dead
           /\ w \in {"waiting", "ready"} => s = "serving" /\ k = "running" /\ h
           /\ w # "closed" => window[l] # "closed"
  <2>0. /\ WindowsAgree
        /\ window \in [Launchers -> {"closed", "terms", "ready", "failed"}
                                      \cup LocalEdition!Starting]
        /\ worker[l] \in LocalEdition!Dead \cup {"running"}
        /\ server[l] \in LocalEdition!Dead \cup LocalEdition!Stages
    BY DEF EditionInv, EditionTyped
  <2>1. CASE LocalEdition!StartServer(l)
    BY <1>4, <2>0, <2>1 DEF LocalEdition!StartServer, LocalEdition!Show, WindowsAgree, Down
  <2>2. CASE LocalEdition!StartWorker(l)
    <3>1. careful => server[l] = "serving"
      BY <2>0, <2>2 DEF LocalEdition!StartWorker, LocalEdition!Healthy, WindowsAgree, Down,
         LocalEdition!Dead
    <3> QED BY <1>2, <1>4, <2>0, <2>2, <3>1 DEF LocalEdition!StartWorker, LocalEdition!Show,
               EditionInv, EditionTyped
  <2>3. CASE LocalEdition!StartFails(l)
    BY <1>4, <2>0, <2>3 DEF LocalEdition!StartFails, LocalEdition!Show, LocalEdition!StopBoth,
       LocalEdition!Stopped,
            LocalEdition!Dead, EditionInv, EditionTyped
  <2>4. CASE LocalEdition!Close(l)
    BY <1>4, <2>0, <2>4 DEF LocalEdition!Close, LocalEdition!Show, LocalEdition!StopBoth,
       LocalEdition!Stopped,
            LocalEdition!Dead, LocalEdition!Stages, LocalEdition!Starting, WindowsAgree, Up, Down,
            EditionInv, EditionTyped
  <2>5. CASE LocalEdition!Die(l)
    BY <1>4, <2>0, <2>5 DEF LocalEdition!Die, LocalEdition!Stage, LocalEdition!Dead,
       LocalEdition!Stages,
            WindowsAgree, Down, EditionInv, EditionTyped
  <2> QED BY <2>1, <2>2, <2>3, <2>4, <2>5
<1>8. WindowsAgree'
  <2>1. \A m \in Launchers \ {l} : Down(m)' = Down(m) /\ Up(m)' = Up(m)
    BY <1>4 DEF Down, Up
  <2> QED BY <1>1, <1>4, <1>7, <2>1 DEF EditionInv, WindowsAgree, Down, Up
<1> QED BY <1>3, <1>6, <1>8 DEF EditionInv

(* What the newest copies are when one is made.                             *)
LEMMA NewestIsKept ==
  ASSUME EditionTyped
  PROVE  LET copies == LocalEdition!Kept(<<db>> \o backups)
         IN /\ copies \in Seq(LocalEdition!Databases) /\ Len(copies) <= Keep
            /\ copies # <<>> /\ Head(copies) = db
<1> DEFINE all == <<db>> \o backups
<1>1. <<db>> \in Seq(LocalEdition!Databases) /\ Len(<<db>>) = 1 /\ <<db>>[1] = db
  BY DEF EditionTyped
<1>2. /\ all \in Seq(LocalEdition!Databases) /\ Len(all) = 1 + Len(backups) /\ all[1] = db
      /\ Len(backups) \in Nat
  <2>1. Len(backups) \in Nat
    BY LenProperties DEF EditionTyped
  <2>2. backups \in Seq(LocalEdition!Databases)
    BY DEF EditionTyped
  <2>3. /\ all \in Seq(LocalEdition!Databases) /\ Len(all) = Len(<<db>>) + Len(backups)
        /\ \A i \in 1 .. Len(<<db>>) + Len(backups) :
             all[i] = IF i <= Len(<<db>>) THEN <<db>>[i] ELSE backups[i - Len(<<db>>)]
    BY <1>1, <2>2, ConcatProperties, Zenon
  <2> QED BY <1>1, <2>1, <2>3
<1> HIDE DEF all
<1>3. CASE Len(all) > Keep
  <2>1. 1 \in 1 .. Len(all) /\ Keep \in 1 .. Len(all)
    BY <1>2, <1>3, EditionAssumption
  <2>2. \A i \in 1 .. Keep : all[i] \in LocalEdition!Databases
    BY <1>2, <2>1, EditionAssumption
  <2>3. /\ SubSeq(all, 1, Keep) \in Seq(LocalEdition!Databases)
        /\ Len(SubSeq(all, 1, Keep)) = Keep
    BY <2>2, SubSeqProperties, EditionAssumption
  <2>4. Head(SubSeq(all, 1, Keep)) = db
    BY <1>2, <2>1, HeadTailOfSubSeq
  <2>5. SubSeq(all, 1, Keep) # <<>>
    BY <2>3, EditionAssumption
  <2> QED BY <1>3, <2>3, <2>4, <2>5, EditionAssumption DEF LocalEdition!Kept, all
<1>4. CASE ~(Len(all) > Keep)
  <2>1. all # <<>> /\ Head(all) = db
    BY <1>2
  <2> QED BY <1>2, <1>4, <2>1, EditionAssumption DEF LocalEdition!Kept, all
<1> QED BY <1>3, <1>4

(* The server goes through its stages, whose window waits for it.           *)
LEMMA ServerMigrates ==
  ASSUME EditionInv, NEW l \in Launchers,
         \/ LocalEdition!CheckSchema(l) \/ LocalEdition!BackUp(l) \/ LocalEdition!RefuseSchema(l)
         \/ LocalEdition!Upgrade(l) \/ LocalEdition!Bind(l)
  PROVE  EditionInv'
<1>1. UNCHANGED <<careful, program, window, handle, worker>>
  BY DEF LocalEdition!CheckSchema, LocalEdition!BackUp, LocalEdition!RefuseSchema,
         LocalEdition!Upgrade, LocalEdition!Bind, LocalEdition!disk
<1>2. server[l] \in {"check", "backup", "upgrade", "bind"}
  BY DEF LocalEdition!CheckSchema, LocalEdition!BackUp, LocalEdition!RefuseSchema,
         LocalEdition!Upgrade, LocalEdition!Bind
<1>3. /\ server' \in [Launchers -> LocalEdition!Dead \cup LocalEdition!Stages]
      /\ \A m \in Launchers \ {l} : UNCHANGED server[m]
  BY DEF LocalEdition!CheckSchema, LocalEdition!BackUp, LocalEdition!RefuseSchema,
         LocalEdition!Upgrade, LocalEdition!Bind, LocalEdition!Stage, EditionInv, EditionTyped,
         LocalEdition!Dead, LocalEdition!Stages
<1>4. ~Down(l) /\ ~Up(l)
  BY <1>2 DEF Down, Up, LocalEdition!Dead
<1>5. window[l] \notin {"terms", "starting", "failed"}
      /\ (careful => window[l] = "booting" /\ \A m \in Launchers \ {l} : Down(m))
  <2>1. window[l] \in {"closed", "terms", "ready", "failed"} \cup LocalEdition!Starting
    BY DEF EditionInv, EditionTyped
  <2>2. /\ window[l] \notin {"terms", "starting", "failed"}
        /\ careful => window[l] \notin {"closed", "waiting", "ready"}
    BY <1>4 DEF EditionInv, WindowsAgree
  <2>3. careful => window[l] = "booting"
    BY <2>1, <2>2 DEF LocalEdition!Starting
  <2> QED BY <2>2, <2>3 DEF EditionInv, WindowsAgree
<1>6. WindowsAgree'
  <2>1. \A m \in Launchers \ {l} : Down(m)' = Down(m) /\ Up(m)' = Up(m)
    BY <1>1, <1>3 DEF Down, Up
  <2>2. window[l] = "closed" => ~careful
    BY <1>5
  <2> QED BY <1>1, <1>5, <2>1, <2>2 DEF EditionInv, WindowsAgree
<1>7. \A m \in Launchers \ {l} : careful => server'[m] # "upgrade"
  BY <1>3, <1>5 DEF Down, LocalEdition!Dead
<1>8. EditionTyped' /\ CopiesAreMade'
  <2>0. server \in [Launchers -> LocalEdition!Dead \cup LocalEdition!Stages]
    BY DEF EditionInv, EditionTyped
  <2>1. CASE LocalEdition!CheckSchema(l)
    <3>1. UNCHANGED <<db, backups>>
      BY <2>1 DEF LocalEdition!CheckSchema, LocalEdition!disk
    <3>2. server'[l] = "upgrade" => ~(db.tables /\ db.version # program)
      BY <2>0, <2>1 DEF LocalEdition!CheckSchema, LocalEdition!Stage, LocalEdition!NeedsUpgrade
    <3> QED BY <1>1, <1>3, <1>7, <3>1, <3>2 DEF EditionInv, EditionTyped, CopiesAreMade
  <2>2. CASE LocalEdition!BackUp(l)
    <3>1. UNCHANGED db /\ backups' = LocalEdition!Kept(<<db>> \o backups)
      BY <2>2 DEF LocalEdition!BackUp
    <3>2. /\ backups' \in Seq(LocalEdition!Databases) /\ Len(backups') <= Keep
          /\ backups' # <<>> /\ Head(backups') = db
      BY <3>1, NewestIsKept DEF EditionInv
    <3> QED BY <1>1, <1>3, <3>1, <3>2 DEF EditionInv, EditionTyped, CopiesAreMade
  <2>3. CASE LocalEdition!RefuseSchema(l) \/ LocalEdition!Bind(l)
    <3>1. UNCHANGED <<db, backups>> /\ server'[l] # "upgrade"
      BY <2>0, <2>3 DEF LocalEdition!RefuseSchema, LocalEdition!Bind, LocalEdition!Stage,
                        LocalEdition!disk
    <3> QED BY <1>1, <1>3, <1>7, <3>1 DEF EditionInv, EditionTyped, CopiesAreMade
  <2>4. CASE LocalEdition!Upgrade(l)
    <3>1. UNCHANGED backups /\ server'[l] = "bind"
      BY <2>0, <2>4 DEF LocalEdition!Upgrade, LocalEdition!Stage
    <3>2. db' \in LocalEdition!Databases
      BY <2>4 DEF LocalEdition!Upgrade, LocalEdition!Databases, EditionInv, EditionTyped
    <3> QED BY <1>1, <1>3, <1>7, <3>1, <3>2 DEF EditionInv, EditionTyped, CopiesAreMade
  <2> QED BY <2>1, <2>2, <2>3, <2>4
<1> QED BY <1>6, <1>8 DEF EditionInv

(* Nobody writes, and no release is installed, while a schema changes.      *)
LEMMA OthersAct ==
  ASSUME EditionInv, LocalEdition!Write \/ LocalEdition!InstallRelease \/
           UNCHANGED LocalEdition!vars
  PROVE  EditionInv'
<1>1. UNCHANGED <<careful, backups, window, handle, server, worker>>
  BY DEF LocalEdition!Write, LocalEdition!InstallRelease, LocalEdition!vars, LocalEdition!disk,
         LocalEdition!processes
<1>2. EditionTyped'
  <2>1. program' \in Programs
    BY DEF LocalEdition!Write, LocalEdition!InstallRelease, LocalEdition!vars, LocalEdition!disk,
           EditionInv, EditionTyped
  <2>2. db' \in LocalEdition!Databases
    <3>1. CASE LocalEdition!Write
      <4>1. db.data \in 0 .. MaxData /\ db.data < MaxData
        BY <3>1 DEF LocalEdition!Write, LocalEdition!Databases, EditionInv, EditionTyped
      <4>2. db.data + 1 \in 0 .. MaxData
        BY <4>1, EditionAssumption
      <4> QED BY <3>1, <4>2 DEF LocalEdition!Write, LocalEdition!Databases, EditionInv, EditionTyped
    <3> QED BY <3>1 DEF LocalEdition!InstallRelease, LocalEdition!vars, LocalEdition!disk,
                        EditionInv, EditionTyped
  <2> QED BY <1>1, <2>1, <2>2 DEF EditionInv, EditionTyped
<1>3. WindowsAgree'
  BY <1>1 DEF EditionInv, WindowsAgree, Down, Up
<1>4. CopiesAreMade'
  <2> SUFFICES ASSUME NEW l \in Launchers, careful, server[l] = "upgrade"
               PROVE  UNCHANGED <<db, program>>
    BY <1>1 DEF EditionInv, CopiesAreMade
  <2>1. window[l] \in {"closed", "terms", "ready", "failed"} \cup LocalEdition!Starting
    BY DEF EditionInv, EditionTyped
  <2>2. window[l] = "booting"
    BY <2>1 DEF EditionInv, WindowsAgree, Down, Up, LocalEdition!Dead, LocalEdition!Starting
  <2>3. ~LocalEdition!Healthy /\ ~LocalEdition!Working
    BY <2>2 DEF EditionInv, WindowsAgree, Down, LocalEdition!Dead, LocalEdition!Healthy,
                LocalEdition!Working
  <2> QED BY <2>2, <2>3 DEF LocalEdition!Write, LocalEdition!InstallRelease, LocalEdition!vars,
                            LocalEdition!disk
<1> QED BY <1>2, <1>3, <1>4 DEF EditionInv

EditionHold == scope = "edition" => EditionInv

LEMMA EditionScope ==
  ASSUME [Next]_vars, scope' = "edition"
  PROVE  scope = "edition" /\ [LocalEdition!Next]_LocalEdition!vars
BY DEF Next, vars, edition, LocalEdition!vars, LocalEdition!disk, LocalEdition!processes,
       PracticesNext, PilotsNext, AccountsNext, ProfilesNext, BackupsNext, EditionNext,
       LimitsNext, ProtocolNext, ReadingsNext, BatchesNext

(* What holds of the edition in every behaviour.                            *)
LEMMA EditionAlways == Spec => []EditionHold
<1>1. Init => EditionHold
  BY EditionStarts DEF Init, EditionHold
<1>2. ASSUME EditionInv, [LocalEdition!Next]_LocalEdition!vars PROVE EditionInv'
  BY <1>2, WindowShows, StartsAgree, ServerMigrates, OthersAct DEF LocalEdition!Next
<1>3. EditionHold /\ [Next]_vars => EditionHold'
  BY <1>2, EditionScope DEF EditionHold
<1> QED BY <1>1, <1>3, PTL DEF Spec

(* _start_background, _ready, _failed and close show what has become of the *)
(* children they started: both run when a window is ready, none is left by  *)
(* a failed start, nor by a window that a careful user has closed.          *)
THEOREM WindowsAreTrue == Spec => []WindowsTellTheTruth
<1>1. EditionHold => WindowsTellTheTruth
  BY DEF EditionHold, EditionInv, WindowsAgree, Down, Up, WindowsTellTheTruth,
         LocalEdition!WindowsTellTheTruth
<1> QED BY <1>1, EditionAlways, PTL

(* run_local_migrations copies a database whose schema is not the release's *)
(* before upgrade_local_schema changes it, and nothing is written between.  *)
THEOREM UpgradesHaveCopies == Spec => UpgradesAreBackedUp
<1> DEFINE Copied == scope = "edition" => LocalEdition!UpgradeIsBackedUp
<1>1. EditionHold /\ [Next]_vars => [Copied]_vars
  <2> SUFFICES ASSUME EditionHold, Next, scope = "edition", careful, db.tables,
                      db'.version # db.version
               PROVE  backups # <<>> /\ Head(backups) = db
    BY DEF LocalEdition!UpgradeIsBackedUp
  <2>1. LocalEdition!Next
    BY DEF Next, PracticesNext, PilotsNext, AccountsNext, ProfilesNext, BackupsNext, EditionNext,
           LimitsNext, ProtocolNext, ReadingsNext, BatchesNext
  <2>2. db \in LocalEdition!Databases /\ CopiesAreMade
    BY DEF EditionHold, EditionInv, EditionTyped
  <2>3. ~LocalEdition!Write
    BY <2>2 DEF LocalEdition!Write, LocalEdition!Databases
  <2>4. PICK l \in Launchers : LocalEdition!Upgrade(l)
    BY <2>1, <2>3 DEF LocalEdition!Next, LocalEdition!Open, LocalEdition!Accept,
      LocalEdition!Attach, LocalEdition!PortTaken, LocalEdition!StartServer,
      LocalEdition!StartWorker, LocalEdition!Ready, LocalEdition!StartFails, LocalEdition!Close,
      LocalEdition!CheckSchema, LocalEdition!BackUp, LocalEdition!RefuseSchema,
      LocalEdition!Bind, LocalEdition!Die, LocalEdition!InstallRelease, LocalEdition!disk
  <2>5. server[l] = "upgrade" /\ db.version # program
    BY <2>2, <2>4 DEF LocalEdition!Upgrade, LocalEdition!Databases
  <2> QED BY <2>2, <2>5 DEF CopiesAreMade
<1> HIDE DEF Copied
<1>2. [][Copied]_vars => UpgradesAreBackedUp
  BY DEF UpgradesAreBackedUp, Copied
<1> QED BY <1>1, <1>2, EditionAlways, PTL DEF Spec
-----------------------------------------------------------------------------
(* The types of all services.                                              *)

(* Pilots counts as the other modules do.                                   *)
LEMMA PilotsCardinality ==
  ASSUME NEW S PROVE Pilots!Cardinality(S) = Cardinality(S)
BY Zenon DEF Pilots!Cardinality, Cardinality

(* A set without two elements has at most one.                              *)
LEMMA AtMostOneElement ==
  ASSUME NEW S, One(S) PROVE Cardinality(S) <= 1
<1>1. CASE S = {}
  BY <1>1, FS_EmptySet
<1>2. CASE S # {}
  <2>1. PICK x \in S : TRUE
    BY <1>2
  <2>2. S = {x}
    BY <2>1 DEF One
  <2>3. Cardinality({x}) = 1
    BY FS_Singleton
  <2> QED BY <2>2, <2>3
<1> QED BY <1>1, <1>2

(* Every variable has its type: a document has at most one link and one     *)
(* record of its acquisition (uq_chain_document, acquisition.py), a pilot   *)
(* one result and one holder of its lock, an upgrade no more copies than it *)
(* keeps (create_pre_migration_backup), and the versions of an account stay *)
(* in range if no two changes of accounts overlap.                          *)
THEOREM TypesStayCorrect ==
  ASSUME OneChanger PROVE Spec => []TypesOK
<1>1. PracticesInv => Practices!TypeOK
  BY DEF PracticesInv, PracticesTyped, Seals, PracticeTx, Practices!TypeOK, Practices!Bytes
<1>2. PilotInv => Pilots!TypeOK
  <2> SUFFICES ASSUME PilotInv PROVE Pilots!TypeOK
    OBVIOUS
  <2>1. /\ pilot.status \in {"draft", "frozen", "completed", "archived"}
        /\ \A t \in Requests : tx[t].todo \subseteq PilotCase
    BY DEF PilotInv, PilotTyped, PilotRow, PilotRequest
  <2>2. \A t \in Requests : {c.practice : c \in tx[t].todo} \subseteq PilotPractices
    BY <2>1 DEF PilotCase
  <2>3. One(result) /\ One(holder)
    BY DEF PilotInv, PilotTyped, One
  <2>4. Cardinality(result) <= 1 /\ Cardinality(holder) <= 1
    BY <2>3, AtMostOneElement
  <2> QED BY <2>1, <2>2, <2>4, PilotsCardinality DEF PilotInv, PilotTyped, Pilots!TypeOK
<1>3. AccountsInv => Accounts!TypeOK
  BY DEF AccountsInv, AccountsTyped, AccountRow, CredentialRow, Session, AccountRequest,
     Accountants, Accounts!TypeOK
<1>4. BackupInv => Backups!TypeOK
  BY DEF BackupInv, BackupTyped, BundleType, RestoreType, Backups!TypeOK, Backups!Parts
<1>5. EditionInv => LocalEdition!TypeOK
  BY DEF EditionInv, EditionTyped, LocalEdition!TypeOK
<1>6. ReadingsInv /\ Singles => Readings!TypeOK
  <2> SUFFICES ASSUME ReadingsInv, Singles PROVE Readings!TypeOK
    OBVIOUS
  <2>1. Cardinality(link) <= 1 /\ Cardinality(record) <= 1
    BY AtMostOneElement DEF Singles
  <2> QED BY <2>1, ReadingsCardinality DEF ReadingsInv, ReadingsTyped, Readings!TypeOK
<1>7. PracticesAlways /\ PilotsHold /\ AccountsHold /\ BackupsHold /\ EditionHold /\ ReadingsHold
        => TypesOK
  BY <1>1, <1>2, <1>3, <1>4, <1>5, <1>6
     DEF PracticesAlways, PilotsHold, AccountsHold, BackupsHold, EditionHold, ReadingsHold, TypesOK
<1> QED BY <1>7, PracticesAreAlways, PilotsAlways, AccountsHoldAlways, BackupsAlways,
           EditionAlways, ReadingsAlways, PTL
=============================================================================
