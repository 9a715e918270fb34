----------------------------- MODULE AuditChain -----------------------------
(***************************************************************************)
(* The audit stream of one tenant (app/audit.py): events numbered and      *)
(* chained by hash, appended by the transactions of concurrent requests    *)
(* and workers.                                                            *)
(*                                                                         *)
(* A step is one statement: the read of the tenant row, the read of the    *)
(* last event, the flush, the commit.  On PostgreSQL the first is a SELECT *)
(* FOR UPDATE; SQLite ignores the clause and has one writer at a time, from *)
(* its first write to its commit.                                          *)
(*                                                                         *)
(* The hash of an event is abstracted to its identity: no two are equal.   *)
(***************************************************************************)
EXTENDS Naturals, FiniteSets

CONSTANTS
  Txns,      \* transactions: each is one request or one execution of a job
  Holders,   \* those that keep the tenant object they loaded before (login)
  RowLocks,  \* PostgreSQL: SELECT FOR UPDATE locks the tenant row
  MaxEvents, \* events one transaction appends (a bound)
  NoTxn, NoHash

ASSUME TxnsAssumption == Holders \subseteq Txns /\ NoTxn \notin Txns

ASSUME ModesAssumption == RowLocks \in BOOLEAN /\ MaxEvents \in Nat

Hashes == Txns \X Nat

ASSUME HashesAssumption == NoHash \notin Hashes

Rows == [sequence_no : Nat, previous_hash : Hashes \cup {NoHash}, event_hash : Hashes]

VARIABLES
  events,   \* committed rows of audit_events
  counter,  \* committed tenants.audit_sequence
  lock,     \* who holds the tenant row (PostgreSQL) or the write lock (SQLite)
  pc,       \* what each transaction is doing
  held,     \* audit_sequence in the tenant object a holder keeps
  seen,     \* audit_sequence as add_audit read it
  last,     \* hash of the last event as add_audit read it
  written,  \* rows flushed and not committed
  own       \* audit_sequence as the transaction has written it

vars == <<events, counter, lock, pc, held, seen, last, written, own>>

TypeOK ==
  /\ events \subseteq Rows
  /\ counter \in Nat
  /\ lock \in Txns \cup {NoTxn}
  /\ pc \in [Txns -> {"new", "ready", "counted", "linked", "done", "aborted"}]
  /\ held \in [Txns -> Nat]
  /\ seen \in [Txns -> Nat]
  /\ last \in [Txns -> Hashes \cup {NoHash}]
  /\ written \in [Txns -> SUBSET Rows]
  /\ own \in [Txns -> Nat]

Init ==
  /\ events = {}
  /\ counter = 0
  /\ lock = NoTxn
  /\ pc = [t \in Txns |-> "new"]
  /\ held = [t \in Txns |-> 0]
  /\ seen = [t \in Txns |-> 0]
  /\ last = [t \in Txns |-> NoHash]
  /\ written = [t \in Txns |-> {}]
  /\ own = [t \in Txns |-> 0]

-----------------------------------------------------------------------------
(* What a transaction sees: the committed rows and its own (READ COMMITTED). *)
Visible(t)        == events \cup written[t]
VisibleCounter(t) == IF written[t] = {} THEN counter ELSE own[t]

MayLock(t) == lock \in {t, NoTxn}

(* previous_hash of an event that follows all of these rows.                *)
LastHash(rows) ==
  IF rows = {} THEN NoHash
  ELSE (CHOOSE e \in rows : \A f \in rows : f.sequence_no <= e.sequence_no).event_hash

Follow(t) == [sequence_no   |-> seen[t] + 1,
              previous_hash |-> last[t],
              event_hash    |-> <<t, own[t]>>]

Collides(t) == \E e \in Visible(t) : e.sequence_no = seen[t] + 1

\* mutant: an outcome the others do not know
EndsClosed(t, how) ==
  /\ pc' = [pc EXCEPT ![t] = "closed"]
  /\ lock' = IF lock = t THEN NoTxn ELSE lock
  /\ written' = [written EXCEPT ![t] = {}]

\* mutant: the lock outlives the transaction
EndsLocked(t, how) ==
  /\ pc' = [pc EXCEPT ![t] = how]
  /\ UNCHANGED lock
  /\ written' = [written EXCEPT ![t] = {}]

Ends(t, how) ==
  /\ pc' = [pc EXCEPT ![t] = how]
  /\ lock' = IF lock = t THEN NoTxn ELSE lock
  /\ written' = [written EXCEPT ![t] = {}]

-----------------------------------------------------------------------------
(* A transaction begins; login loads the tenant and keeps the object.       *)
Begin(t) ==
  /\ pc[t] = "new"
  /\ pc' = [pc EXCEPT ![t] = "ready"]
  /\ held' = [held EXCEPT ![t] = counter]
  /\ UNCHANGED <<events, counter, lock, seen, last, written, own>>

(* add_audit, first statement.  The row is read again, but an object that   *)
(* is already in the session keeps the attributes it has.                   *)
ReadTenant(t) ==
  /\ pc[t] = "ready"
  /\ Cardinality(written[t]) < MaxEvents
  /\ RowLocks => MayLock(t)
  /\ lock' = IF RowLocks THEN t ELSE lock
  /\ seen' = [seen EXCEPT ![t] = IF t \in Holders THEN held[t] ELSE VisibleCounter(t)]
  /\ pc' = [pc EXCEPT ![t] = "counted"]
  /\ UNCHANGED <<events, counter, held, last, written, own>>

(* Second statement: the last event of the tenant.                          *)
ReadPrevious(t) ==
  /\ pc[t] = "counted"
  /\ last' = [last EXCEPT ![t] = LastHash(Visible(t))]
  /\ pc' = [pc EXCEPT ![t] = "linked"]
  /\ UNCHANGED <<events, counter, lock, held, seen, written, own>>

(* The flush writes the tenant's new sequence and the event.                *)
AppendEvent(t) ==
  /\ lock' = t
  /\ written' = [written EXCEPT ![t] = @ \cup {Follow(t)}]
  /\ own' = [own EXCEPT ![t] = seen[t] + 1]
  /\ held' = [held EXCEPT ![t] = seen[t] + 1]
  /\ pc' = [pc EXCEPT ![t] = "ready"]
  /\ UNCHANGED <<events, counter, seen, last>>

\* mutant: no unique constraint on (tenant_id, sequence_no)
FlushUnchecked(t) ==
  /\ pc[t] = "linked"
  /\ MayLock(t)
  /\ AppendEvent(t)

Flush(t) ==
  /\ pc[t] = "linked"
  /\ MayLock(t)
  /\ ~Collides(t)
  /\ AppendEvent(t)

(* The unique constraint rejects the event and the transaction fails.       *)
FlushFails(t) ==
  /\ pc[t] = "linked"
  /\ MayLock(t)
  /\ Collides(t)
  /\ Ends(t, "aborted")
  /\ UNCHANGED <<events, counter, held, seen, last, own>>

Commit(t) ==
  /\ pc[t] = "ready"
  /\ written[t] # {}
  /\ events' = events \cup written[t]
  /\ counter' = own[t]
  /\ Ends(t, "done")
  /\ UNCHANGED <<held, seen, last, own>>

(* The request fails for another reason, or its process dies.               *)
Rollback(t) ==
  /\ pc[t] \in {"ready", "counted", "linked"}
  /\ Ends(t, "aborted")
  /\ UNCHANGED <<events, counter, held, seen, last, own>>

Work(t) ==
  \/ Begin(t)
  \/ ReadTenant(t)
  \/ ReadPrevious(t)
  \/ Flush(t)
  \/ FlushFails(t)
  \/ Commit(t)

Next == \E t \in Txns : Work(t) \/ Rollback(t)

Spec == Init /\ [][Next]_vars

(* A request that can go on does.                                           *)
FairSpec == Spec /\ \A t \in Txns : WF_vars(Work(t))
-----------------------------------------------------------------------------
(* Properties.                                                             *)

(* verify_audit_chain walks the rows by sequence_no, expects 1, 2, ... and  *)
(* each row to carry the hash of the row before it.                         *)
VerifyAuditChain(rows) ==
  /\ \A e, f \in rows : e.sequence_no = f.sequence_no => e = f
  /\ \A e \in rows :
       IF e.sequence_no = 1 THEN e.previous_hash = NoHash
       ELSE \E f \in rows : /\ f.sequence_no + 1 = e.sequence_no
                            /\ e.previous_hash = f.event_hash

(* Whatever the transactions read before others commit, with or without row *)
(* locks, the committed events verify as one chain and the tenant's counter *)
(* is the number of its last event.                                         *)
ChainIntact ==
  /\ VerifyAuditChain(events)
  /\ {e.sequence_no : e \in events} = 1 .. counter

(* The tenant row is the serialization point of the stream: what a          *)
(* transaction is about to append is never already taken.                   *)
Fits(t)    == pc[t] = "linked" /\ MayLock(t) => ~Collides(t)
Serialized == \A t \in Txns : Fits(t)

(* No transaction waits for the tenant row for ever.                        *)
TransactionsEnd == \A t \in Txns : pc[t] = "ready" ~> pc[t] \in {"done", "aborted"}
=============================================================================
