----------------------------- MODULE Automation -----------------------------
(***************************************************************************)
(* When the engine may act without a review: the validation datasets of a  *)
(* tenant, the runs of the engine on them, the approvals administrators    *)
(* give and withdraw, and the gate that an assessment of risk reads.       *)
(*                                                                         *)
(* A request is a transaction, READ COMMITTED; a column is written if the  *)
(* value it is given differs from the one that was read.                   *)
(***************************************************************************)
EXTENDS Naturals, FiniteSets

CONSTANTS
  Requests,  \* requests that are at work at a time (a bound)
  Datasets,  \* names and versions of datasets (a bound)
  Engines,   \* releases that may be installed
  MaxRuns    \* runs that complete (a bound)

VARIABLES
  overlap,   \* whether requests overlap in this deployment
  engine,    \* RELEASE_VERSION
  dataset,   \* per name: its row, {} before it is created
  runs,      \* completed runs, at their place in the order of completed_at
  tx

vars == <<overlap, engine, dataset, runs, tx>>

Idle == [pc |-> "idle", dataset |-> {}, row |-> {}, sets |-> TRUE, at |-> 0, passed |-> FALSE,
         run |-> {}]

Init ==
  /\ overlap \in BOOLEAN
  /\ engine \in Engines
  /\ dataset = [d \in Datasets |-> {}]
  /\ runs = {}
  /\ tx = [t \in Requests |-> Idle]

Begin(t, pc, d, sets) ==
  /\ tx[t] = Idle /\ (overlap \/ \A u \in Requests : tx[u] = Idle)
  /\ dataset[d] # {}
  /\ tx' = [tx EXCEPT ![t] = [Idle EXCEPT !.pc = pc, !.dataset = {d}, !.row = dataset[d],
                                          !.sets = sets]]
  /\ UNCHANGED <<overlap, engine, dataset, runs>>

Refuse(t) == tx' = [tx EXCEPT ![t] = Idle] /\ UNCHANGED <<overlap, engine, dataset, runs>>

ReadEligible(t) == \E r \in tx[t].row : r.eligible

(* A run that takes the approval away holds the row until it commits.       *)
Holds(u, d) == d \in tx[u].dataset /\ tx[u].pc \in {"running", "completed"} /\ ReadEligible(u)
Free(t)     == \A d \in tx[t].dataset, u \in Requests \ {t} : ~Holds(u, d)

(* The row as it is stored when the request writes, and what it writes.     *)
Stored(t) == UNION {dataset[d] : d \in tx[t].dataset}

Write(t, row) ==
  dataset' = [d \in Datasets |-> IF d \in tx[t].dataset THEN row ELSE dataset[d]]

(* automation_eligible = False                                              *)
\* mutant: the approval outlives what should end it
RevokeNot(t, r) == r
Revoke(t, r) == IF ReadEligible(t) THEN [r EXCEPT !.eligible = FALSE] ELSE r
-----------------------------------------------------------------------------
(* Datasets.                                                               *)

(* Requests overlap on one dataset (a bound).                               *)
Create(d) ==
  /\ dataset[d] = {}
  /\ overlap => \A e \in Datasets : dataset[e] = {}
  /\ \E real, enough \in BOOLEAN :
       dataset' = [dataset EXCEPT ![d] =
                     {[real |-> real, enough |-> enough, active |-> TRUE, eligible |-> FALSE]}]
  /\ UNCHANGED <<overlap, engine, runs, tx>>

SetStatus(t) == \E d \in Datasets, active \in BOOLEAN : Begin(t, "status", d, active)

CommitStatus(t) ==
  LET status(r)   == IF \E s \in tx[t].row : s.active # tx[t].sets
                     THEN [r EXCEPT !.active = tx[t].sets] ELSE r
      archived(r) == IF tx[t].sets THEN status(r) ELSE Revoke(t, status(r))
  IN /\ tx[t].pc = "status" /\ Free(t)
     /\ Write(t, {archived(r) : r \in Stored(t)})
     /\ tx' = [tx EXCEPT ![t] = Idle]
     /\ UNCHANGED <<overlap, engine, runs>>
-----------------------------------------------------------------------------
(* Runs.                                                                   *)

StartRun(t) == \E d \in Datasets : (\E r \in dataset[d] : r.active) /\ Begin(t, "run", d, TRUE)

(* The row of the run and what changes in the dataset are flushed, then the *)
(* scenarios are played in savepoints that are rolled back.                 *)
FlushRun(t) ==
  /\ tx[t].pc = "run" /\ (ReadEligible(t) => Free(t))
  /\ tx' = [tx EXCEPT ![t].pc = "running"]
  /\ UNCHANGED <<overlap, engine, dataset, runs>>

Completions == {r.at : r \in runs} \cup {tx[u].at : u \in Requests}

Latest(R) == {r \in R : \A s \in R : s.at <= r.at}

CompleteRun(t) ==
  /\ tx[t].pc = "running"
  /\ \E n \in 1..MaxRuns, passed \in BOOLEAN :
       /\ \A m \in Completions : m < n
       /\ n - 1 \in Completions
       /\ tx' = [tx EXCEPT ![t].pc = "completed", ![t].at = n, ![t].passed = passed]
  /\ UNCHANGED <<overlap, engine, dataset, runs>>

FailRun(t) ==
  /\ tx[t].pc = "running"
  /\ tx' = [tx EXCEPT ![t].pc = "completed"]
  /\ UNCHANGED <<overlap, engine, dataset, runs>>

CommitRun(t) ==
  LET ended(r) == Revoke(t, r)
  IN /\ tx[t].pc = "completed" /\ Free(t)
     /\ Write(t, {ended(r) : r \in Stored(t)})
     /\ runs' = runs \cup {[dataset |-> d, at |-> tx[t].at, engine |-> engine,
                            passed |-> tx[t].passed, approved |-> FALSE] :
                             d \in {e \in tx[t].dataset : tx[t].at > 0}}
     /\ tx' = [tx EXCEPT ![t] = Idle]
     /\ UNCHANGED <<overlap, engine>>
-----------------------------------------------------------------------------
(* Approvals, of the latest completed run.                                 *)

Decide(t) == \E d \in Datasets, enabled \in BOOLEAN : Begin(t, "decide", d, enabled)

RunsOf(D) == {r \in runs : r.dataset \in D}

Approvable(row, run) ==
  /\ row.active /\ row.real /\ row.enough
  /\ run.passed /\ run.engine = engine

ReadLatest(t) ==
  LET latest == Latest(RunsOf(tx[t].dataset))
  IN /\ tx[t].pc = "decide"
     /\ IF tx[t].sets => \E r \in tx[t].row, l \in latest : Approvable(r, l)
        THEN /\ tx' = [tx EXCEPT ![t].pc = "decided", ![t].run = latest]
             /\ UNCHANGED <<overlap, engine, dataset, runs>>
        ELSE Refuse(t)

CommitDecision(t) ==
  LET decided(r) == IF ReadEligible(t) # tx[t].sets THEN [r EXCEPT !.eligible = tx[t].sets] ELSE r
  IN /\ tx[t].pc = "decided" /\ Free(t)
     /\ Write(t, {decided(r) : r \in Stored(t)})
     /\ runs' = {IF \E l \in tx[t].run : l.at = r.at /\ l.approved # tx[t].sets
                 THEN [r EXCEPT !.approved = tx[t].sets] ELSE r : r \in runs}
     /\ tx' = [tx EXCEPT ![t] = Idle]
     /\ UNCHANGED <<overlap, engine>>
-----------------------------------------------------------------------------
Abort(t) == tx[t] # Idle /\ Refuse(t)

(* Another release is installed, or the previous one again.                 *)
Install ==
  /\ engine' \in Engines \ {engine}
  /\ tx' = [t \in Requests |-> Idle]
  /\ UNCHANGED <<overlap, dataset, runs>>

Next ==
  \/ \E t \in Requests :
       \/ SetStatus(t) \/ CommitStatus(t)
       \/ StartRun(t) \/ FlushRun(t) \/ CompleteRun(t) \/ FailRun(t) \/ CommitRun(t)
       \/ Decide(t) \/ ReadLatest(t) \/ CommitDecision(t) \/ Abort(t)
  \/ \E d \in Datasets : Create(d)
  \/ Install

Spec == Init /\ [][Next]_vars
-----------------------------------------------------------------------------
(* The gate that an assessment reads.                                      *)

Current(r)  == \E row \in dataset[r.dataset] : row.active
Approved(r) == r.approved /\ \E row \in dataset[r.dataset] : row.active /\ row.eligible /\ row.real

(* The latest run that is approved, else the latest of an active dataset.   *)
\* mutant: the latest run, approved or not
LatestRun == Latest({r \in runs : Current(r)})
Calibrating ==
  LET approved == Latest({r \in runs : Approved(r)})
  IN IF approved # {} THEN approved ELSE Latest({r \in runs : Current(r)})

GateOpen ==
  \E r \in Calibrating :
    /\ r.passed /\ r.approved /\ r.engine = engine
    /\ \E row \in dataset[r.dataset] : row.real /\ row.enough /\ row.eligible
-----------------------------------------------------------------------------
(* Properties.                                                             *)

(* What is approved has passed on enough real evidence, whatever overlaps;  *)
(* and when requests do not overlap an approval is of the latest run of an  *)
(* active dataset: every later run and every archiving has ended it.        *)
ApprovalsAreCurrent ==
  \A d \in Datasets : \A row \in dataset[d] : row.eligible =>
    /\ row.real /\ row.enough
    /\ \E r \in RunsOf({d}) : r.passed
    /\ ~overlap => row.active /\ \A r \in Latest(RunsOf({d})) : r.passed /\ r.approved

(* The gate does not close because of what happens to another dataset: a    *)
(* later synthetic test, or one that fails, does not hide an approved pilot *)
(* (requests that do not overlap).                                          *)
GateCloses ==
  \/ overlap \/ engine' # engine \/ GateOpen'
  \/ \E r \in Calibrating : \E row \in dataset'[r.dataset] : ~row.eligible
ApprovedIsNotHidden == [][GateOpen => GateCloses]_vars
=============================================================================
