---------------------------- MODULE EngineProofs ----------------------------
(***************************************************************************)
(* When the engine may act alone, and the rules it goes by: whatever       *)
(* requests, datasets, releases and rules there are, and however many runs *)
(* complete.                                                               *)
(***************************************************************************)
EXTENDS Engine, TLAPS
-----------------------------------------------------------------------------
(* Approvals.                                                              *)

DatasetRow == [real : BOOLEAN, enough : BOOLEAN, active : BOOLEAN, eligible : BOOLEAN]
DatasetRun == [dataset : Datasets, at : 1..MaxRuns, engine : Engines, passed : BOOLEAN,
               approved : BOOLEAN]
DatasetRequest ==
  [pc : {"idle", "status", "run", "running", "completed", "decide", "decided"},
   dataset : SUBSET Datasets, row : SUBSET DatasetRow, sets : BOOLEAN, at : 0..MaxRuns,
   passed : BOOLEAN, run : SUBSET DatasetRun]

AutomationTyped ==
  /\ overlap \in BOOLEAN /\ engine \in Engines
  /\ dataset \in [Datasets -> SUBSET DatasetRow]
  /\ \A d \in Datasets : \A p, q \in dataset[d] : p = q
  /\ runs \subseteq DatasetRun
  /\ tx \in [Requests -> DatasetRequest]

(* A request has read the row of a dataset, of which it is the current one  *)
(* if requests do not overlap; whether it is real and enough never changes. *)
ReadsRow(D, R) ==
  \E d \in Datasets, q, r \in DatasetRow :
    /\ D = {d} /\ R = {r} /\ dataset[d] = {q}
    /\ q.real = r.real /\ q.enough = r.enough /\ (~overlap => q = r)
RowRead(t) == ReadsRow(tx[t].dataset, tx[t].row)
RowsRead == \A t \in Requests : tx[t].pc # "idle" => RowRead(t)

(* What is about to be approved has passed.                                 *)
PassedOf(d) == \E l \in runs : l.dataset = d /\ l.passed
Deserved(t) ==
  \A r \in tx[t].row, d \in tx[t].dataset :
    tx[t].sets => r.real /\ r.enough /\ PassedOf(d)
DecisionsDeserved == \A t \in Requests : tx[t].pc = "decided" => Deserved(t)

(* Requests one at a time find what they have read.                         *)
LatestRead(t) ==
  /\ tx[t].run = Automation!Latest(Automation!RunsOf(tx[t].dataset))
  /\ tx[t].sets => \E r \in tx[t].row, l \in tx[t].run : Automation!Approvable(r, l)
OneAtATime ==
  /\ \A s, t \in Requests : tx[s].pc # "idle" /\ tx[t].pc # "idle" => s = t
  /\ \A l, m \in runs : l.at = m.at => l = m
  /\ \A t \in Requests : /\ tx[t].at > 0 => \A l \in runs : l.at < tx[t].at
                         /\ tx[t].pc = "idle" => tx[t].at = 0
  /\ \A t \in Requests : tx[t].pc = "decided" => LatestRead(t)

AutomationInv ==
  /\ AutomationTyped /\ RowsRead /\ DecisionsDeserved
  /\ ~overlap => OneAtATime
  /\ Automation!ApprovalsAreCurrent
-----------------------------------------------------------------------------
LEMMA AutomationIdle ==
  /\ Automation!Idle \in DatasetRequest
  /\ Automation!Idle.pc = "idle" /\ Automation!Idle.at = 0
BY BoundsAssumption DEF Automation!Idle, DatasetRequest

LEMMA AutomationStarts ==
  ASSUME Automation!Init PROVE AutomationInv
<1>1. \A t \in Requests : tx[t] = Automation!Idle
  BY DEF Automation!Init
<1>2. AutomationTyped
  BY AutomationIdle DEF Automation!Init, AutomationTyped
<1>3. RowsRead /\ DecisionsDeserved /\ OneAtATime
  BY <1>1, AutomationIdle DEF Automation!Init, RowsRead, DecisionsDeserved, OneAtATime
<1>4. Automation!ApprovalsAreCurrent
  BY DEF Automation!Init, Automation!ApprovalsAreCurrent
<1> QED BY <1>2, <1>3, <1>4 DEF AutomationInv

(* What a request that only reads comes to know.                            *)
ReadsDecision(x) ==
  /\ \A r \in x.row, d \in x.dataset : x.sets => r.real /\ r.enough /\ PassedOf(d)
  /\ ~overlap =>
       /\ x.run = Automation!Latest(Automation!RunsOf(x.dataset))
       /\ x.sets => \E r \in x.row, l \in x.run : Automation!Approvable(r, l)
Reads(t, x) ==
  \/ x.pc = "idle" /\ x.at = 0
  \/ /\ x.pc # "idle"
     /\ tx[t].pc # "idle" \/ overlap \/ \A u \in Requests : tx[u].pc = "idle"
     /\ ~overlap /\ x.at > 0 => \A l \in runs : l.at < x.at
     /\ ReadsRow(x.dataset, x.row)
     /\ x.pc = "decided" => ReadsDecision(x)

(* A step of a request that only reads.                                     *)
LEMMA ReadingKeeps ==
  ASSUME AutomationInv, NEW t \in Requests, NEW x \in DatasetRequest,
         tx' = [tx EXCEPT ![t] = x], UNCHANGED <<overlap, engine, dataset, runs>>,
         Reads(t, x)
  PROVE  AutomationInv'
<1>1. tx'[t] = x /\ \A s \in Requests \ {t} : tx'[s] = tx[s]
  BY DEF AutomationInv, AutomationTyped
<1>2. AutomationTyped'
  BY DEF AutomationInv, AutomationTyped
<1>3. RowsRead'
  BY <1>1 DEF AutomationInv, RowsRead, RowRead, ReadsRow, Reads
<1>4. DecisionsDeserved'
  BY <1>1 DEF AutomationInv, DecisionsDeserved, Deserved, PassedOf, Reads, ReadsDecision
<1>5. ASSUME ~overlap PROVE OneAtATime'
  <2>1. OneAtATime
    BY <1>5 DEF AutomationInv
  <2>2. \A s, u \in Requests : tx'[s].pc # "idle" /\ tx'[u].pc # "idle" => s = u
    BY <1>1, <1>5, <2>1 DEF OneAtATime, Reads
  <2>3. \A l, m \in runs' : l.at = m.at => l = m
    BY <2>1 DEF OneAtATime
  <2>4. \A s \in Requests : /\ tx'[s].at > 0 => \A l \in runs' : l.at < tx'[s].at
                            /\ tx'[s].pc = "idle" => tx'[s].at = 0
    BY <1>1, <1>5, <2>1 DEF OneAtATime, Reads
  <2>5. \A s \in Requests : tx'[s].pc = "decided" => LatestRead(s)'
    <3>1. ASSUME NEW D
          PROVE  Automation!Latest(Automation!RunsOf(D))' = Automation!Latest(Automation!RunsOf(D'))
      BY DEF Automation!Latest, Automation!RunsOf
    <3> QED BY <1>1, <1>5, <2>1 DEF OneAtATime, LatestRead, Reads, ReadsDecision,
               Automation!Latest, Automation!RunsOf, Automation!Approvable
  <2> QED BY <2>2, <2>3, <2>4, <2>5 DEF OneAtATime
<1>6. Automation!ApprovalsAreCurrent'
  BY DEF AutomationInv, Automation!ApprovalsAreCurrent, Automation!RunsOf, Automation!Latest
<1> QED BY <1>2, <1>3, <1>4, <1>5, <1>6 DEF AutomationInv

-----------------------------------------------------------------------------
(* What a request that is at work has read.                                 *)
LEMMA RowOf ==
  ASSUME AutomationInv, NEW t \in Requests, tx[t].pc # "idle"
  PROVE  \E d \in Datasets, q, r \in DatasetRow :
           /\ tx[t].dataset = {d} /\ tx[t].row = {r} /\ dataset[d] = {q}
           /\ q.real = r.real /\ q.enough = r.enough /\ (~overlap => q = r)
BY Zenon DEF AutomationInv, RowsRead, RowRead, ReadsRow

(* A transaction that has written the row of a dataset.                     *)
LEMMA RowCommits ==
  ASSUME AutomationInv, NEW t \in Requests, NEW d \in Datasets, NEW p \in DatasetRow, NEW q,
         tx[t].pc # "idle", tx' = [tx EXCEPT ![t] = Automation!Idle], dataset[d] = {q},
         dataset' = [e \in Datasets |-> IF e = d THEN {p} ELSE dataset[e]],
         p.real = q.real, p.enough = q.enough,
         UNCHANGED <<overlap, engine>>, runs' \subseteq DatasetRun,
         \A l \in runs : \E m \in runs' : m.dataset = l.dataset /\ m.passed = l.passed,
         p.eligible => p.real /\ p.enough /\ PassedOf(d)',
         ~overlap =>
           /\ \A l, m \in runs' : l.at = m.at => l = m
           /\ \A l \in runs : l.dataset # d => l \in runs'
           /\ \A l \in runs' : l.dataset # d => l \in runs
           /\ p.eligible =>
                /\ p.active
                /\ \A l \in Automation!Latest(Automation!RunsOf({d}))' : l.passed /\ l.approved
  PROVE  AutomationInv'
<1>1. tx'[t] = Automation!Idle /\ \A s \in Requests \ {t} : tx'[s] = tx[s]
  BY DEF AutomationInv, AutomationTyped
<1>2. AutomationTyped'
  BY AutomationIdle DEF AutomationInv, AutomationTyped
<1>3. q \in DatasetRow
  BY DEF AutomationInv, AutomationTyped
<1>4. RowsRead'
  <2> SUFFICES ASSUME NEW s \in Requests, tx'[s].pc # "idle" PROVE RowRead(s)'
    BY DEF RowsRead
  <2>1. s # t /\ tx'[s] = tx[s]
    BY <1>1, AutomationIdle
  <2>2. overlap
    BY <2>1 DEF AutomationInv, OneAtATime
  <2>3. PICK e \in Datasets, o, r \in DatasetRow :
          /\ tx[s].dataset = {e} /\ tx[s].row = {r} /\ dataset[e] = {o}
          /\ o.real = r.real /\ o.enough = r.enough /\ (~overlap => o = r)
    BY <2>1, RowOf
  <2>4. CASE e = d
    BY <2>1, <2>2, <2>3, <2>4, <1>3 DEF RowRead, ReadsRow
  <2>5. CASE e # d
    BY <2>1, <2>2, <2>3, <2>5 DEF RowRead, ReadsRow
  <2> QED BY <2>4, <2>5
<1>5. DecisionsDeserved'
  <2>1. \A e : PassedOf(e) => PassedOf(e)'
    BY DEF PassedOf
  <2> QED BY <2>1, <1>1, AutomationIdle DEF AutomationInv, DecisionsDeserved, Deserved
<1>6. ASSUME ~overlap PROVE OneAtATime'
  <2>1. \A s \in Requests : tx'[s].pc = "idle" /\ tx'[s].at = 0
    BY <1>1, <1>6, AutomationIdle DEF AutomationInv, OneAtATime
  <2> QED BY <2>1, <1>6 DEF OneAtATime
<1>7. Automation!ApprovalsAreCurrent'
  <2> SUFFICES ASSUME NEW e \in Datasets, NEW row \in dataset'[e], row.eligible
               PROVE  /\ row.real /\ row.enough
                      /\ \E r \in Automation!RunsOf({e})' : r.passed
                      /\ ~overlap => row.active /\
                           \A r \in Automation!Latest(Automation!RunsOf({e}))' :
                                                    r.passed /\ r.approved
    BY DEF Automation!ApprovalsAreCurrent
  <2>1. CASE e = d
    BY <2>1 DEF Automation!RunsOf, PassedOf
  <2>2. CASE e # d
    <3>1. row \in dataset[e]
      BY <2>2
    <3>2. /\ row.real /\ row.enough /\ PassedOf(e)
          /\ ~overlap => row.active /\
               \A r \in Automation!Latest(Automation!RunsOf({e})) : r.passed /\ r.approved
      BY <3>1 DEF AutomationInv, Automation!ApprovalsAreCurrent, PassedOf, Automation!RunsOf
    <3>3. \E r \in Automation!RunsOf({e})' : r.passed
      BY <3>2 DEF PassedOf, Automation!RunsOf
    <3>4. ASSUME ~overlap PROVE Automation!RunsOf({e})' = Automation!RunsOf({e})
      BY <3>4, <2>2 DEF Automation!RunsOf
    <3>5. ASSUME ~overlap
          PROVE  Automation!Latest(Automation!RunsOf({e}))' =
                    Automation!Latest(Automation!RunsOf({e}))
      BY <3>4, <3>5 DEF Automation!Latest
    <3> QED BY <3>2, <3>3, <3>5
  <2> QED BY <2>1, <2>2
<1> QED BY <1>2, <1>4, <1>5, <1>6, <1>7 DEF AutomationInv

LEMMA BeginsKeeps ==
  ASSUME AutomationInv, NEW t \in Requests, NEW pc \in {"status", "run", "decide"},
         NEW d \in Datasets, NEW sets \in BOOLEAN, Automation!Begin(t, pc, d, sets)
  PROVE  AutomationInv'
<1> DEFINE x == [Automation!Idle EXCEPT !.pc = pc, !.dataset = {d}, !.row = dataset[d],
                                        !.sets = sets]
<1>1. PICK r \in DatasetRow : dataset[d] = {r}
  BY DEF Automation!Begin, AutomationInv, AutomationTyped
<1>2. x \in DatasetRequest /\ x.pc = pc /\ x.at = 0 /\ x.dataset = {d} /\ x.row = {r}
  BY <1>1, AutomationIdle DEF Automation!Idle, DatasetRequest
<1>3. tx' = [tx EXCEPT ![t] = x] /\ UNCHANGED <<overlap, engine, dataset, runs>>
  BY DEF Automation!Begin
<1>4. overlap \/ \A u \in Requests : tx[u].pc = "idle"
  BY AutomationIdle DEF Automation!Begin
<1>5. ReadsRow(x.dataset, x.row)
  BY <1>1, <1>2 DEF ReadsRow
<1> HIDE DEF x
<1>6. Reads(t, x)
  BY <1>2, <1>4, <1>5 DEF Reads
<1> QED BY <1>2, <1>3, <1>6, ReadingKeeps

LEMMA RefuseKeeps ==
  ASSUME AutomationInv, NEW t \in Requests, Automation!Refuse(t)
  PROVE  AutomationInv'
BY AutomationIdle, ReadingKeeps DEF Automation!Refuse, Reads

LEMMA FlushKeeps ==
  ASSUME AutomationInv, NEW t \in Requests, Automation!FlushRun(t)
  PROVE  AutomationInv'
<1> DEFINE x == [tx[t] EXCEPT !.pc = "running"]
<1>1. tx[t] \in DatasetRequest /\ tx[t].pc = "run"
  BY DEF AutomationInv, AutomationTyped, Automation!FlushRun
<1>2. /\ x \in DatasetRequest /\ x.pc = "running" /\ x.at = tx[t].at
      /\ x.dataset = tx[t].dataset /\ x.row = tx[t].row
  BY <1>1 DEF DatasetRequest
<1>3. tx' = [tx EXCEPT ![t] = x] /\ UNCHANGED <<overlap, engine, dataset, runs>>
  BY DEF Automation!FlushRun
<1>4. ReadsRow(x.dataset, x.row)
  BY <1>1, <1>2 DEF AutomationInv, RowsRead, RowRead
<1>5. ~overlap /\ x.at > 0 => \A l \in runs : l.at < x.at
  BY <1>2 DEF AutomationInv, OneAtATime
<1> HIDE DEF x
<1> QED BY <1>1, <1>2, <1>3, <1>4, <1>5, ReadingKeeps DEF Reads

LEMMA CompleteKeeps ==
  ASSUME AutomationInv, NEW t \in Requests, Automation!CompleteRun(t)
  PROVE  AutomationInv'
<1>1. tx[t] \in DatasetRequest /\ tx[t].pc = "running"
  BY DEF AutomationInv, AutomationTyped, Automation!CompleteRun
<1>2. PICK n \in 1..MaxRuns, passed \in BOOLEAN :
        /\ \A m \in Automation!Completions : m < n
        /\ tx' = [tx EXCEPT ![t].pc = "completed", ![t].at = n, ![t].passed = passed]
  BY Zenon DEF Automation!CompleteRun
<1> DEFINE x == [tx[t] EXCEPT !.pc = "completed", !.at = n, !.passed = passed]
<1>3. /\ x \in DatasetRequest /\ x.pc = "completed" /\ x.at = n
      /\ x.dataset = tx[t].dataset /\ x.row = tx[t].row
  <2>1. n \in 0..MaxRuns
    BY BoundsAssumption
  <2> QED BY <2>1, <1>1 DEF DatasetRequest
<1>4. tx' = [tx EXCEPT ![t] = x]
  <2>1. [tx EXCEPT ![t].pc = "completed", ![t].at = n, ![t].passed = passed] = [tx EXCEPT ![t] = x]
    BY DEF AutomationInv, AutomationTyped
  <2> QED BY <2>1, <1>2
<1>5. UNCHANGED <<overlap, engine, dataset, runs>>
  BY DEF Automation!CompleteRun
<1>6. ReadsRow(x.dataset, x.row)
  BY <1>1, <1>3 DEF AutomationInv, RowsRead, RowRead
<1>7. \A l \in runs : l.at < n
  BY <1>2 DEF Automation!Completions
<1>8. Reads(t, x)
  BY <1>1, <1>3, <1>6, <1>7 DEF Reads
<1> HIDE DEF x
<1> QED BY <1>3, <1>4, <1>5, <1>8, ReadingKeeps

LEMMA FailKeeps ==
  ASSUME AutomationInv, NEW t \in Requests, Automation!FailRun(t)
  PROVE  AutomationInv'
<1> DEFINE x == [tx[t] EXCEPT !.pc = "completed"]
<1>1. tx[t] \in DatasetRequest /\ tx[t].pc = "running"
  BY DEF AutomationInv, AutomationTyped, Automation!FailRun
<1>2. /\ x \in DatasetRequest /\ x.pc = "completed" /\ x.at = tx[t].at
      /\ x.dataset = tx[t].dataset /\ x.row = tx[t].row
  BY <1>1 DEF DatasetRequest
<1>3. tx' = [tx EXCEPT ![t] = x] /\ UNCHANGED <<overlap, engine, dataset, runs>>
  BY DEF Automation!FailRun
<1>4. ReadsRow(x.dataset, x.row)
  BY <1>1, <1>2 DEF AutomationInv, RowsRead, RowRead
<1>5. ~overlap /\ x.at > 0 => \A l \in runs : l.at < x.at
  BY <1>2 DEF AutomationInv, OneAtATime
<1>6. Reads(t, x)
  BY <1>1, <1>2, <1>4, <1>5 DEF Reads
<1> HIDE DEF x
<1> QED BY <1>2, <1>3, <1>6, ReadingKeeps

LEMMA LatestKeeps ==
  ASSUME AutomationInv, NEW t \in Requests, Automation!ReadLatest(t)
  PROVE  AutomationInv'
<1> DEFINE latest == Automation!Latest(Automation!RunsOf(tx[t].dataset))
           x == [tx[t] EXCEPT !.pc = "decided", !.run = latest]
<1>1. tx[t] \in DatasetRequest /\ tx[t].pc = "decide"
  BY DEF AutomationInv, AutomationTyped, Automation!ReadLatest
<1>2. CASE Automation!Refuse(t)
  BY <1>2, RefuseKeeps
<1>3. CASE /\ tx[t].sets => \E r \in tx[t].row, l \in latest : Automation!Approvable(r, l)
           /\ tx' = [tx EXCEPT ![t] = x] /\ UNCHANGED <<overlap, engine, dataset, runs>>
  <2>1. latest \subseteq runs /\ \A l \in latest : l.dataset \in tx[t].dataset
    BY DEF Automation!Latest, Automation!RunsOf
  <2>2. /\ x \in DatasetRequest /\ x.pc = "decided" /\ x.at = tx[t].at /\ x.sets = tx[t].sets
        /\ x.dataset = tx[t].dataset /\ x.row = tx[t].row /\ x.run = latest
    BY <1>1, <2>1 DEF DatasetRequest, AutomationInv, AutomationTyped
  <2>3. ReadsRow(x.dataset, x.row)
    BY <1>1, <2>2 DEF AutomationInv, RowsRead, RowRead
  <2>4. ~overlap /\ x.at > 0 => \A l \in runs : l.at < x.at
    BY <2>2 DEF AutomationInv, OneAtATime
  <2>5. ReadsDecision(x)
    <3>1. PICK d \in Datasets, q, r \in DatasetRow :
            /\ tx[t].dataset = {d} /\ tx[t].row = {r} /\ dataset[d] = {q}
            /\ q.real = r.real /\ q.enough = r.enough /\ (~overlap => q = r)
      BY <1>1, RowOf
    <3>2. \A o \in x.row, e \in x.dataset : x.sets => o.real /\ o.enough /\ PassedOf(e)
      BY <3>1, <2>1, <2>2, <1>3 DEF PassedOf, Automation!Approvable
    <3>3. x.sets => \E o \in x.row, l \in x.run : Automation!Approvable(o, l)
      BY <2>2, <1>3
    <3> QED BY <2>2, <3>2, <3>3 DEF ReadsDecision
  <2>6. Reads(t, x)
    BY <1>1, <2>2, <2>3, <2>4, <2>5 DEF Reads
  <2>7. tx' = [tx EXCEPT ![t] = x] /\ UNCHANGED <<overlap, engine, dataset, runs>>
    BY <1>3
  <2> HIDE DEF x
  <2> QED BY <2>2, <2>6, <2>7, ReadingKeeps
<1>4. \/ Automation!Refuse(t)
      \/ /\ tx[t].sets => \E r \in tx[t].row, l \in latest : Automation!Approvable(r, l)
         /\ tx' = [tx EXCEPT ![t] = x] /\ UNCHANGED <<overlap, engine, dataset, runs>>
  <2>1. [tx EXCEPT ![t].pc = "decided", ![t].run = latest] = [tx EXCEPT ![t] = x]
    BY DEF AutomationInv, AutomationTyped
  <2> QED BY <2>1, Zenon DEF Automation!ReadLatest
<1> QED BY <1>2, <1>3, <1>4

LEMMA CreateKeeps ==
  ASSUME AutomationInv, NEW d \in Datasets, Automation!Create(d)
  PROVE  AutomationInv'
<1>1. PICK p \in DatasetRow : ~p.eligible /\ dataset' = [dataset EXCEPT ![d] = {p}]
  <2>1. PICK real, enough \in BOOLEAN :
          dataset' = [dataset EXCEPT ![d] =
            {[real |-> real, enough |-> enough, active |-> TRUE, eligible |-> FALSE]}]
    BY DEF Automation!Create
  <2> QED BY <2>1 DEF DatasetRow
<1>2. dataset[d] = {} /\ UNCHANGED <<overlap, engine, runs, tx>>
  BY DEF Automation!Create
<1>3. dataset'[d] = {p} /\ \A e \in Datasets \ {d} : dataset'[e] = dataset[e]
  BY <1>1 DEF AutomationInv, AutomationTyped
<1>4. AutomationTyped'
  BY <1>1, <1>2, <1>3 DEF AutomationInv, AutomationTyped
<1>5. RowsRead'
  BY <1>2, <1>3 DEF AutomationInv, RowsRead, RowRead, ReadsRow
<1>6. DecisionsDeserved'
  BY <1>2 DEF AutomationInv, DecisionsDeserved, Deserved, PassedOf
<1>7. ~overlap => OneAtATime'
  BY <1>2 DEF AutomationInv, OneAtATime, LatestRead, Automation!Latest, Automation!RunsOf,
              Automation!Approvable
<1>8. Automation!ApprovalsAreCurrent'
  BY <1>1, <1>2, <1>3 DEF AutomationInv, Automation!ApprovalsAreCurrent, Automation!Latest,
                          Automation!RunsOf
<1> QED BY <1>2, <1>4, <1>5, <1>6, <1>7, <1>8 DEF AutomationInv

LEMMA InstallKeeps ==
  ASSUME AutomationInv, Automation!Install
  PROVE  AutomationInv'
<1>1. /\ engine' \in Engines /\ tx' = [u \in Requests |-> Automation!Idle]
      /\ UNCHANGED <<overlap, dataset, runs>>
  BY DEF Automation!Install
<1>2. AutomationTyped'
  BY <1>1, AutomationIdle DEF AutomationInv, AutomationTyped
<1>3. RowsRead' /\ DecisionsDeserved'
  BY <1>1, AutomationIdle DEF RowsRead, DecisionsDeserved
<1>4. ~overlap => OneAtATime'
  BY <1>1, AutomationIdle DEF AutomationInv, OneAtATime
<1>5. Automation!ApprovalsAreCurrent'
  BY <1>1 DEF AutomationInv, Automation!ApprovalsAreCurrent, Automation!Latest, Automation!RunsOf
<1> QED BY <1>1, <1>2, <1>3, <1>4, <1>5 DEF AutomationInv

-----------------------------------------------------------------------------
LEMMA StatusKeeps ==
  ASSUME AutomationInv, NEW t \in Requests, Automation!CommitStatus(t)
  PROVE  AutomationInv'
<1> DEFINE status(r)   == IF \E s \in tx[t].row : s.active # tx[t].sets
                          THEN [r EXCEPT !.active = tx[t].sets] ELSE r
           archived(r) == IF tx[t].sets THEN status(r) ELSE Automation!Revoke(t, status(r))
<1>1. /\ tx[t].pc = "status" /\ tx' = [tx EXCEPT ![t] = Automation!Idle]
      /\ UNCHANGED <<overlap, engine, runs>>
      /\ Automation!Write(t, {archived(r) : r \in Automation!Stored(t)})
  BY DEF Automation!CommitStatus
<1>2. PICK d \in Datasets, q, r \in DatasetRow :
        /\ tx[t].dataset = {d} /\ tx[t].row = {r} /\ dataset[d] = {q}
        /\ q.real = r.real /\ q.enough = r.enough /\ (~overlap => q = r)
  BY <1>1, RowOf
<1>3. dataset' = [e \in Datasets |-> IF e = d THEN {archived(q)} ELSE dataset[e]]
  <2> HIDE DEF archived
  <2>1. {archived(o) : o \in Automation!Stored(t)} = {archived(q)}
    BY <1>2 DEF Automation!Stored
  <2> QED BY <1>1, <1>2, <2>1 DEF Automation!Write
<1> DEFINE p == archived(q)
<1>4. tx[t].sets \in BOOLEAN
  BY DEF AutomationInv, AutomationTyped, DatasetRequest
<1>5. /\ status(q) \in DatasetRow /\ status(q).real = q.real /\ status(q).enough = q.enough
      /\ status(q).eligible = q.eligible
      /\ ~overlap => status(q).active = tx[t].sets
  BY <1>2, <1>4 DEF DatasetRow
<1>6. /\ p \in DatasetRow /\ p.real = q.real /\ p.enough = q.enough
      /\ p.eligible => q.eligible
      /\ ~overlap => p.active = tx[t].sets /\ (p.eligible => tx[t].sets)
  BY ZenonT(40), <1>2, <1>4, <1>5 DEF Automation!Revoke, Automation!ReadEligible, DatasetRow
<1>7. q.eligible =>
        /\ q.real /\ q.enough /\ PassedOf(d)
        /\ ~overlap => \A l \in Automation!Latest(Automation!RunsOf({d})) : l.passed /\ l.approved
  BY <1>2 DEF AutomationInv, Automation!ApprovalsAreCurrent, PassedOf, Automation!RunsOf
<1>8. p.eligible => p.real /\ p.enough /\ PassedOf(d)'
  BY <1>1, <1>6, <1>7 DEF PassedOf
<1>9. ~overlap => \A l, m \in runs' : l.at = m.at => l = m
  BY <1>1 DEF AutomationInv, OneAtATime
<1>10. ~overlap /\ p.eligible =>
         /\ p.active
         /\ \A l \in Automation!Latest(Automation!RunsOf({d}))' : l.passed /\ l.approved
  BY <1>1, <1>6, <1>7 DEF Automation!Latest, Automation!RunsOf
<1>11. tx[t].pc # "idle" /\ runs' \subseteq DatasetRun /\ UNCHANGED <<overlap, engine>>
  BY <1>1 DEF AutomationInv, AutomationTyped
<1>12. dataset' = [e \in Datasets |-> IF e = d THEN {p} ELSE dataset[e]]
  BY <1>3
<1> HIDE DEF p
<1> QED BY <1>1, <1>2, <1>6, <1>8, <1>9, <1>10, <1>11, <1>12, RowCommits

LEMMA RunKeeps ==
  ASSUME AutomationInv, NEW t \in Requests, Automation!CommitRun(t)
  PROVE  AutomationInv'
<1> DEFINE ended(r) == Automation!Revoke(t, r)
           run(e) == [dataset |-> e, at |-> tx[t].at, engine |-> engine,
                      passed |-> tx[t].passed, approved |-> FALSE]
<1>1. /\ tx[t].pc = "completed" /\ tx' = [tx EXCEPT ![t] = Automation!Idle]
      /\ UNCHANGED <<overlap, engine>>
      /\ Automation!Write(t, {ended(r) : r \in Automation!Stored(t)})
      /\ runs' = runs \cup {run(e) : e \in {f \in tx[t].dataset : tx[t].at > 0}}
  BY DEF Automation!CommitRun
<1>2. PICK d \in Datasets, q, r \in DatasetRow :
        /\ tx[t].dataset = {d} /\ tx[t].row = {r} /\ dataset[d] = {q}
        /\ q.real = r.real /\ q.enough = r.enough /\ (~overlap => q = r)
  BY <1>1, RowOf
<1>3. dataset' = [e \in Datasets |-> IF e = d THEN {ended(q)} ELSE dataset[e]]
  <2> HIDE DEF ended
  <2>1. {ended(o) : o \in Automation!Stored(t)} = {ended(q)}
    BY <1>2 DEF Automation!Stored
  <2> QED BY <1>1, <1>2, <2>1 DEF Automation!Write
<1> DEFINE p == ended(q)
<1>4. /\ p \in DatasetRow /\ p.real = q.real /\ p.enough = q.enough
      /\ p.eligible => q.eligible
      /\ ~overlap => ~p.eligible
  BY <1>2 DEF Automation!Revoke, Automation!ReadEligible, DatasetRow
<1>5. \A l \in runs' \ runs : l = run(d) /\ tx[t].at > 0
  BY <1>1, <1>2
<1>6. tx[t].at \in 0..MaxRuns /\ tx[t].passed \in BOOLEAN /\ engine \in Engines
  BY DEF AutomationInv, AutomationTyped, DatasetRequest
<1>7. tx[t].at > 0 => run(d) \in DatasetRun
  BY <1>6, BoundsAssumption DEF DatasetRun
<1>8. runs \subseteq runs' /\ runs' \subseteq DatasetRun
  BY <1>1, <1>5, <1>7 DEF AutomationInv, AutomationTyped
<1>9. p.eligible => p.real /\ p.enough /\ PassedOf(d)'
  BY <1>2, <1>4, <1>8 DEF AutomationInv, Automation!ApprovalsAreCurrent, PassedOf, Automation!RunsOf
<1>10. ~overlap => \A l, m \in runs' : l.at = m.at => l = m
  <2>1. ~overlap => \A l \in runs' \ runs, m \in runs : l.at # m.at
    BY <1>5, <1>6 DEF AutomationInv, AutomationTyped, OneAtATime, DatasetRun
  <2>2. ~overlap => \A l, m \in runs : l.at = m.at => l = m
    BY DEF AutomationInv, OneAtATime
  <2> HIDE DEF run
  <2> QED BY <2>1, <2>2, <1>5
<1>11. \A l \in runs' : l.dataset # d => l \in runs
  BY <1>5
<1>12. tx[t].pc # "idle" /\ dataset' = [e \in Datasets |-> IF e = d THEN {p} ELSE dataset[e]]
  BY <1>1, <1>3
<1> HIDE DEF p, ended, run
<1> QED BY <1>1, <1>2, <1>4, <1>8, <1>9, <1>10, <1>11, <1>12, RowCommits

LEMMA DecisionKeeps ==
  ASSUME AutomationInv, NEW t \in Requests, Automation!CommitDecision(t)
  PROVE  AutomationInv'
<1> DEFINE settled(r) == IF Automation!ReadEligible(t) # tx[t].sets
                         THEN [r EXCEPT !.eligible = tx[t].sets] ELSE r
           marked(m)  == IF \E l \in tx[t].run : l.at = m.at /\ l.approved # tx[t].sets
                         THEN [m EXCEPT !.approved = tx[t].sets] ELSE m
<1>1. /\ tx[t].pc = "decided" /\ tx' = [tx EXCEPT ![t] = Automation!Idle]
      /\ UNCHANGED <<overlap, engine>>
      /\ Automation!Write(t, {settled(r) : r \in Automation!Stored(t)})
      /\ runs' = {marked(m) : m \in runs}
  BY DEF Automation!CommitDecision
<1>2. PICK d \in Datasets, q, r \in DatasetRow :
        /\ tx[t].dataset = {d} /\ tx[t].row = {r} /\ dataset[d] = {q}
        /\ q.real = r.real /\ q.enough = r.enough /\ (~overlap => q = r)
  BY <1>1, RowOf
<1>3. dataset' = [e \in Datasets |-> IF e = d THEN {settled(q)} ELSE dataset[e]]
  <2> HIDE DEF settled
  <2>1. {settled(o) : o \in Automation!Stored(t)} = {settled(q)}
    BY <1>2 DEF Automation!Stored
  <2> QED BY <1>1, <1>2, <2>1 DEF Automation!Write
<1> DEFINE p == settled(q)
<1>4. tx[t].sets \in BOOLEAN
  BY DEF AutomationInv, AutomationTyped, DatasetRequest
<1>5. /\ p \in DatasetRow /\ p.real = q.real /\ p.enough = q.enough /\ p.active = q.active
      /\ p.eligible => q.eligible \/ tx[t].sets
      /\ ~overlap => p.eligible = tx[t].sets
  BY <1>2, <1>4 DEF Automation!ReadEligible, DatasetRow
<1>6. \A m \in runs : /\ marked(m) \in DatasetRun /\ marked(m).dataset = m.dataset
                      /\ marked(m).at = m.at /\ marked(m).passed = m.passed
  BY <1>4 DEF AutomationInv, AutomationTyped, DatasetRun
<1>7. \A l \in runs' : \E m \in runs : l = marked(m)
  BY <1>1
<1>8. \A m \in runs : marked(m) \in runs'
  BY <1>1
<1> HIDE DEF marked
<1>9. runs' \subseteq DatasetRun
  BY <1>6, <1>7
<1>10. p.eligible => p.real /\ p.enough /\ PassedOf(d)'
  <2>1. q.eligible => q.real /\ q.enough /\ PassedOf(d)
    BY <1>2 DEF AutomationInv, Automation!ApprovalsAreCurrent, PassedOf, Automation!RunsOf
  <2>2. tx[t].sets => q.real /\ q.enough /\ PassedOf(d)
    BY <1>1, <1>2 DEF AutomationInv, DecisionsDeserved, Deserved
  <2>3. PassedOf(d) => PassedOf(d)'
    BY <1>6, <1>8 DEF PassedOf
  <2> QED BY <2>1, <2>2, <2>3, <1>5
<1>11. ASSUME ~overlap
       PROVE  /\ \A l, m \in runs' : l.at = m.at => l = m
              /\ \A m \in runs : m.dataset # d => m \in runs'
              /\ \A m \in runs' : m.dataset # d => m \in runs
              /\ p.eligible =>
                   /\ p.active
                   /\ \A l \in Automation!Latest(Automation!RunsOf({d}))' : l.passed /\ l.approved
  <2>1. LatestRead(t) /\ \A l, m \in runs : l.at = m.at => l = m
    BY <1>1, <1>11 DEF AutomationInv, OneAtATime
  <2>2. \A l \in tx[t].run : /\ l \in runs /\ l.dataset = d
                             /\ \A m \in runs : m.dataset = d => m.at <= l.at
    BY <2>1, <1>2 DEF LatestRead, Automation!Latest, Automation!RunsOf
  <2>3. \A l \in runs : l.dataset # d => marked(l) = l
    BY <2>1, <2>2 DEF marked
  <2>4. \A l, m \in runs' : l.at = m.at => l = m
    BY <2>1, <1>6, <1>7
  <2>5. \A m \in runs : m.dataset # d => m \in runs'
    BY <2>3, <1>8
  <2>6. \A m \in runs' : m.dataset # d => m \in runs
    BY <2>3, <1>6, <1>7
  <2>7. ASSUME p.eligible PROVE p.active
    BY <2>7, <2>1, <1>2, <1>5, <1>11 DEF LatestRead, Automation!Approvable
  <2>8. ASSUME p.eligible, NEW l \in Automation!Latest(Automation!RunsOf({d}))'
        PROVE  l.passed /\ l.approved
    <3>1. PICK k \in tx[t].run : k.passed
      BY <2>8, <2>1, <1>5, <1>11 DEF LatestRead, Automation!Approvable
    <3>2. l \in runs' /\ l.dataset = d /\ \A m \in runs' : m.dataset = d => m.at <= l.at
      BY <2>8 DEF Automation!Latest, Automation!RunsOf
    <3>3. PICK m \in runs : l = marked(m)
      BY <3>2, <1>7
    <3>4. m.dataset = d /\ m.at <= k.at
      BY <3>2, <3>3, <2>2, <1>6
    <3>5. k.at <= m.at
      BY <3>2, <3>3, <2>2, <1>6, <1>8
    <3>6. m.at \in Nat /\ k.at \in Nat
      BY <2>2, BoundsAssumption DEF AutomationInv, AutomationTyped, DatasetRun
    <3>7. m = k
      BY <3>4, <3>5, <3>6, <2>1, <2>2
    <3>8. tx[t].sets = TRUE
      BY <2>8, <1>4, <1>5, <1>11
    <3>9. k.approved \in BOOLEAN /\ marked(k).approved
      BY <3>8, <2>2 DEF marked, AutomationInv, AutomationTyped, DatasetRun
    <3> QED BY <3>1, <3>3, <3>7, <3>9, <1>6
  <2> QED BY <2>4, <2>5, <2>6, <2>7, <2>8
<1>12. \A l \in runs : \E m \in runs' : m.dataset = l.dataset /\ m.passed = l.passed
  BY <1>6, <1>8
<1>13. tx[t].pc # "idle" /\ dataset' = [e \in Datasets |-> IF e = d THEN {p} ELSE dataset[e]]
  BY <1>1, <1>3
<1> HIDE DEF p, settled, marked
<1> QED BY <1>1, <1>2, <1>5, <1>9, <1>10, <1>11, <1>12, <1>13, RowCommits

LEMMA AutomationKeeps ==
  ASSUME AutomationInv, Automation!Next
  PROVE  AutomationInv'
<1>1. ASSUME NEW t \in Requests, NEW d \in Datasets, NEW sets \in BOOLEAN,
             \/ Automation!Begin(t, "status", d, sets) \/ Automation!Begin(t, "run", d, sets)
             \/ Automation!Begin(t, "decide", d, sets)
      PROVE  AutomationInv'
  BY <1>1, BeginsKeeps
<1>2. ASSUME NEW t \in Requests, Automation!SetStatus(t) PROVE AutomationInv'
  BY <1>1, <1>2 DEF Automation!SetStatus
<1>3. ASSUME NEW t \in Requests, Automation!StartRun(t) PROVE AutomationInv'
  BY <1>1, <1>3 DEF Automation!StartRun
<1>4. ASSUME NEW t \in Requests, Automation!Decide(t) PROVE AutomationInv'
  BY <1>1, <1>4 DEF Automation!Decide
<1>5. ASSUME NEW t \in Requests, Automation!Abort(t) PROVE AutomationInv'
  BY <1>5, RefuseKeeps DEF Automation!Abort
<1> QED BY <1>2, <1>3, <1>4, <1>5, StatusKeeps, FlushKeeps, CompleteKeeps, FailKeeps, RunKeeps,
           LatestKeeps, DecisionKeeps, CreateKeeps, InstallKeeps DEF Automation!Next

LEMMA AutomationStays ==
  ASSUME AutomationInv, UNCHANGED Automation!vars
  PROVE  AutomationInv'
<1>1. UNCHANGED <<overlap, engine, dataset, runs, tx>>
  BY DEF Automation!vars
<1> QED BY <1>1 DEF AutomationInv, AutomationTyped, RowsRead, RowRead, ReadsRow, DecisionsDeserved,
      Deserved, PassedOf, OneAtATime, LatestRead, Automation!Latest, Automation!RunsOf,
      Automation!Approvable, Automation!ApprovalsAreCurrent

AutomationHolds == scope = "automation" => AutomationInv

LEMMA AutomationScope ==
  ASSUME [Next]_vars, scope' = "automation"
  PROVE  scope = "automation" /\ [Automation!Next]_Automation!vars
BY DEF Next, vars, requests, automation, discovery, analysis, Automation!vars, AutomationNext,
       DiscoveryNext, AssessmentNext, SupportNext

(* What holds of datasets, runs and approvals in every behaviour.           *)
LEMMA AutomationAlways == Spec => []AutomationHolds
<1>1. Init => AutomationHolds
  BY AutomationStarts DEF Init, AutomationInit, DiscoveryInit, AssessmentInit,
       SupportInit, AutomationHolds
<1>2. AutomationHolds /\ [Next]_vars => AutomationHolds'
  BY AutomationScope, AutomationKeeps, AutomationStays DEF AutomationHolds
<1> QED BY <1>1, <1>2, PTL DEF Spec

(* set_automation_decision approves a run that it has just read, and        *)
(* execute_validation_run and set_dataset_status end what it approved: at   *)
(* every moment an approval has passed on enough real evidence, and if      *)
(* requests do not overlap it is of the latest run of an active dataset.    *)
(* The run may be of an older release: the gate, not the approval, is       *)
(* compared with the release in use.                                        *)
THEOREM ApprovalsStayCurrent == Spec => []ApprovalsAreCurrent
<1>1. AutomationHolds => ApprovalsAreCurrent
  BY DEF AutomationHolds, AutomationInv, ApprovalsAreCurrent
<1> QED BY <1>1, AutomationAlways, PTL
-----------------------------------------------------------------------------
(* The gate.                                                               *)

(* The run that opens the gate is of an approved row, and no approved run   *)
(* is later.                                                                *)
LEMMA GateRun ==
  ASSUME AutomationInv, ~overlap, Automation!GateOpen
  PROVE  \E r \in Automation!Calibrating :
           /\ r \in runs /\ r.passed /\ r.approved /\ r.engine = engine
           /\ \A m \in runs : Automation!Approved(m) => m.at <= r.at
           /\ \E row \in dataset[r.dataset] :
                row.real /\ row.enough /\ row.eligible /\ row.active
<1>1. PICK r \in Automation!Calibrating :
        /\ r.passed /\ r.approved /\ r.engine = engine
        /\ \E row \in dataset[r.dataset] : row.real /\ row.enough /\ row.eligible
  BY DEF Automation!GateOpen
<1>2. r \in runs
  BY DEF Automation!Calibrating, Automation!Latest
<1>3. r.dataset \in Datasets
  BY <1>2 DEF AutomationInv, AutomationTyped, DatasetRun
<1>4. \E row \in dataset[r.dataset] : row.real /\ row.enough /\ row.eligible /\ row.active
  BY <1>1, <1>3 DEF AutomationInv, Automation!ApprovalsAreCurrent
<1>5. \A m \in runs : Automation!Approved(m) => Automation!Current(m)
  BY DEF Automation!Approved, Automation!Current
<1>6. \A m \in runs : Automation!Approved(m) => m.at <= r.at
  BY <1>5 DEF Automation!Calibrating, Automation!Latest
<1> QED BY <1>1, <1>2, <1>4, <1>6

LEMMA GateOpens ==
  ASSUME NEW l \in runs', l.passed, l.approved, l.engine = engine',
         NEW row \in dataset'[l.dataset], row.real, row.enough, row.eligible, row.active,
         \A m \in runs' : Automation!Approved(m)' => m.at <= l.at
  PROVE  Automation!GateOpen'
<1>1. Automation!Approved(l)'
  BY DEF Automation!Approved
<1>2. l \in Automation!Calibrating'
  BY <1>1 DEF Automation!Calibrating, Automation!Latest
<1> QED BY <1>2 DEF Automation!GateOpen

LEMMA GateAfter ==
  ASSUME AutomationInv, AutomationInv', ~overlap, UNCHANGED engine, Automation!GateOpen,
         NEW d \in Datasets, NEW p,
           dataset' = [e \in Datasets |-> IF e = d THEN {p} ELSE dataset[e]],
         \A m \in runs' : m.dataset # d => m \in runs,
         \A l \in runs : \E m \in runs' : m.dataset = l.dataset /\ m.at = l.at,
         \A l \in runs : l.dataset # d => l \in runs',
         \/ ~p.eligible
         \/ /\ p.real /\ p.enough /\ p.active /\ p.eligible
            /\ \E k \in runs' : /\ k.dataset = d /\ k.passed /\ k.approved /\ k.engine = engine
                               /\ \A m \in runs' : m.dataset = d => m.at <= k.at
  PROVE  Automation!GateCloses
<1>1. PICK r \in Automation!Calibrating :
        /\ r \in runs /\ r.passed /\ r.approved /\ r.engine = engine
        /\ \A m \in runs : Automation!Approved(m) => m.at <= r.at
        /\ \E row \in dataset[r.dataset] :
             row.real /\ row.enough /\ row.eligible /\ row.active
  BY GateRun, Zenon
<1>2. /\ r.dataset \in Datasets /\ r.at \in Nat
      /\ \A m \in runs' : m.dataset \in Datasets /\ m.at \in Nat
  BY <1>1, BoundsAssumption DEF AutomationInv, AutomationTyped, DatasetRun
<1>3. \A m \in runs' : m.dataset # d /\ Automation!Approved(m)' => m.at <= r.at
  BY <1>1, <1>2 DEF Automation!Approved
<1>4. CASE r.dataset = d /\ ~p.eligible
  BY <1>4 DEF Automation!GateCloses
<1>5. CASE r.dataset # d /\ ~p.eligible
  <2>1. \A m \in runs' : m.dataset = d => ~Automation!Approved(m)'
    BY <1>5 DEF Automation!Approved
  <2>2. r \in runs' /\ dataset'[r.dataset] = dataset[r.dataset]
    BY <1>1, <1>2, <1>5
  <2>3. Automation!GateOpen'
    BY <2>1, <2>2, <1>1, <1>3, GateOpens
  <2> QED BY <2>3 DEF Automation!GateCloses
<1>6. CASE p.eligible
  <2>1. PICK k \in runs' : /\ k.dataset = d /\ k.passed /\ k.approved /\ k.engine = engine
                          /\ \A m \in runs' : m.dataset = d => m.at <= k.at
    BY <1>6
  <2>2. CASE r.at <= k.at
    <3>1. \A m \in runs' : Automation!Approved(m)' => m.at <= k.at
      BY <2>1, <2>2, <1>2, <1>3
    <3>2. p \in dataset'[k.dataset]
      BY <2>1
    <3>3. Automation!GateOpen'
      BY <2>1, <3>1, <3>2, <1>6, GateOpens
    <3> QED BY <3>3 DEF Automation!GateCloses
  <2>3. CASE k.at < r.at
    <3>1. r.dataset # d
      BY <2>1, <2>3, <1>1, <1>2
    <3>2. \A m \in runs' : Automation!Approved(m)' => m.at <= r.at
      BY <2>1, <2>3, <1>2, <1>3
    <3>3. r \in runs' /\ dataset'[r.dataset] = dataset[r.dataset]
      BY <1>1, <1>2, <3>1
    <3>4. Automation!GateOpen'
      BY <3>2, <3>3, <1>1, GateOpens
    <3> QED BY <3>4 DEF Automation!GateCloses
  <2> QED BY <2>1, <2>2, <2>3, <1>2
<1> QED BY <1>4, <1>5, <1>6

LEMMA GateSame ==
  ASSUME Automation!GateOpen, UNCHANGED <<engine, dataset, runs>>
  PROVE  Automation!GateCloses
<1>1. Automation!GateOpen'
  BY DEF Automation!GateOpen, Automation!Calibrating, Automation!Latest, Automation!Approved,
         Automation!Current
<1> QED BY <1>1 DEF Automation!GateCloses

LEMMA StatusGate ==
  ASSUME AutomationInv, AutomationInv', ~overlap, Automation!GateOpen,
         NEW t \in Requests, Automation!CommitStatus(t)
  PROVE  Automation!GateCloses
<1> DEFINE status(r)   == IF \E s \in tx[t].row : s.active # tx[t].sets
                          THEN [r EXCEPT !.active = tx[t].sets] ELSE r
           archived(r) == IF tx[t].sets THEN status(r) ELSE Automation!Revoke(t, status(r))
<1>1. /\ tx[t].pc = "status" /\ UNCHANGED <<overlap, engine, runs>>
      /\ Automation!Write(t, {archived(r) : r \in Automation!Stored(t)})
  BY DEF Automation!CommitStatus
<1>2. PICK d \in Datasets, q, r \in DatasetRow :
        /\ tx[t].dataset = {d} /\ tx[t].row = {r} /\ dataset[d] = {q}
        /\ q.real = r.real /\ q.enough = r.enough /\ (~overlap => q = r)
  BY <1>1, RowOf
<1>3. dataset' = [e \in Datasets |-> IF e = d THEN {archived(q)} ELSE dataset[e]]
  <2> HIDE DEF archived
  <2>1. {archived(o) : o \in Automation!Stored(t)} = {archived(q)}
    BY <1>2 DEF Automation!Stored
  <2> QED BY <1>1, <1>2, <2>1 DEF Automation!Write
<1>4. tx[t].sets \in BOOLEAN
  BY DEF AutomationInv, AutomationTyped, DatasetRequest
<1>5. q.eligible => q.active
  BY <1>2 DEF AutomationInv, Automation!ApprovalsAreCurrent
<1>6. archived(q) = q \/ ~archived(q).eligible
  <2>1. CASE tx[t].sets = TRUE
    <3>1. archived(q) = status(q)
      BY <2>1
    <3>2. CASE q.eligible
      BY <3>1, <3>2, <2>1, <1>2, <1>5 DEF DatasetRow
    <3>3. CASE ~q.eligible
      BY <3>1, <3>3, <2>1, <1>2 DEF DatasetRow
    <3> QED BY <3>2, <3>3
  <2>2. CASE tx[t].sets = FALSE
    <3>1. /\ status(q) \in DatasetRow /\ status(q).eligible = q.eligible
          /\ archived(q) = Automation!Revoke(t, status(q))
      BY <2>2, <1>2 DEF DatasetRow
    <3> HIDE DEF status
    <3>2. ~Automation!Revoke(t, status(q)).eligible
      BY <3>1, <1>2 DEF Automation!Revoke, Automation!ReadEligible, DatasetRow
    <3> QED BY <3>1, <3>2
  <2> QED BY <2>1, <2>2, <1>4
<1> HIDE DEF archived
<1>7. CASE archived(q) = q
  <2>1. dataset' = dataset
    BY <1>2, <1>3, <1>7 DEF AutomationInv, AutomationTyped
  <2> QED BY <2>1, <1>1, GateSame
<1>8. CASE ~archived(q).eligible
  BY <1>1, <1>3, <1>8, GateAfter
<1> QED BY <1>6, <1>7, <1>8

LEMMA RunGate ==
  ASSUME AutomationInv, AutomationInv', ~overlap, Automation!GateOpen,
         NEW t \in Requests, Automation!CommitRun(t)
  PROVE  Automation!GateCloses
<1> DEFINE ended(r) == Automation!Revoke(t, r)
           run(e) == [dataset |-> e, at |-> tx[t].at, engine |-> engine,
                      passed |-> tx[t].passed, approved |-> FALSE]
<1>1. /\ tx[t].pc = "completed" /\ UNCHANGED <<overlap, engine>>
      /\ Automation!Write(t, {ended(r) : r \in Automation!Stored(t)})
      /\ runs' = runs \cup {run(e) : e \in {f \in tx[t].dataset : tx[t].at > 0}}
  BY DEF Automation!CommitRun
<1>2. PICK d \in Datasets, q, r \in DatasetRow :
        /\ tx[t].dataset = {d} /\ tx[t].row = {r} /\ dataset[d] = {q}
        /\ q.real = r.real /\ q.enough = r.enough /\ (~overlap => q = r)
  BY <1>1, RowOf
<1>3. dataset' = [e \in Datasets |-> IF e = d THEN {ended(q)} ELSE dataset[e]]
  <2> HIDE DEF ended
  <2>1. {ended(o) : o \in Automation!Stored(t)} = {ended(q)}
    BY <1>2 DEF Automation!Stored
  <2> QED BY <1>1, <1>2, <2>1 DEF Automation!Write
<1>4. ~ended(q).eligible
  BY <1>2 DEF Automation!Revoke, Automation!ReadEligible, DatasetRow
<1>5. runs \subseteq runs' /\ \A l \in runs' : l.dataset # d => l \in runs
  BY <1>1, <1>2
<1> HIDE DEF ended, run
<1> QED BY <1>1, <1>3, <1>4, <1>5, GateAfter

LEMMA DecisionGate ==
  ASSUME AutomationInv, AutomationInv', ~overlap, Automation!GateOpen,
         NEW t \in Requests, Automation!CommitDecision(t)
  PROVE  Automation!GateCloses
<1> DEFINE settled(r) == IF Automation!ReadEligible(t) # tx[t].sets
                         THEN [r EXCEPT !.eligible = tx[t].sets] ELSE r
           marked(m)  == IF \E l \in tx[t].run : l.at = m.at /\ l.approved # tx[t].sets
                         THEN [m EXCEPT !.approved = tx[t].sets] ELSE m
<1>1. /\ tx[t].pc = "decided" /\ UNCHANGED <<overlap, engine>>
      /\ Automation!Write(t, {settled(r) : r \in Automation!Stored(t)})
      /\ runs' = {marked(m) : m \in runs}
  BY DEF Automation!CommitDecision
<1>2. PICK d \in Datasets, q, r \in DatasetRow :
        /\ tx[t].dataset = {d} /\ tx[t].row = {r} /\ dataset[d] = {q}
        /\ q.real = r.real /\ q.enough = r.enough /\ (~overlap => q = r)
  BY <1>1, RowOf
<1>3. dataset' = [e \in Datasets |-> IF e = d THEN {settled(q)} ELSE dataset[e]]
  <2> HIDE DEF settled
  <2>1. {settled(o) : o \in Automation!Stored(t)} = {settled(q)}
    BY <1>2 DEF Automation!Stored
  <2> QED BY <1>1, <1>2, <2>1 DEF Automation!Write
<1>4. tx[t].sets \in BOOLEAN
  BY DEF AutomationInv, AutomationTyped, DatasetRequest
<1> DEFINE p == settled(q)
<1>5. /\ p.real = q.real /\ p.enough = q.enough /\ p.active = q.active
      /\ p.eligible = tx[t].sets
  BY <1>2, <1>4 DEF Automation!ReadEligible, DatasetRow
<1>6. \A m \in runs : /\ marked(m).dataset = m.dataset /\ marked(m).at = m.at
                      /\ marked(m).passed = m.passed /\ marked(m).engine = m.engine
  BY DEF AutomationInv, AutomationTyped, DatasetRun
<1>7. /\ LatestRead(t) /\ \A l, m \in runs : l.at = m.at => l = m
      /\ \A l \in tx[t].run : /\ l \in runs /\ l.dataset = d
                             /\ \A m \in runs : m.dataset = d => m.at <= l.at
  BY <1>1, <1>2 DEF AutomationInv, OneAtATime, LatestRead, Automation!Latest, Automation!RunsOf
<1>8. \A l \in runs : l.dataset # d => marked(l) = l
  BY <1>7
<1>9. ASSUME p.eligible
      PROVE  /\ p.real /\ p.enough /\ p.active
             /\ \E k \in runs' : /\ k.dataset = d /\ k.passed /\ k.approved /\ k.engine = engine
                                /\ \A m \in runs' : m.dataset = d => m.at <= k.at
  <2>1. PICK l \in tx[t].run : Automation!Approvable(r, l)
    BY <1>2, <1>5, <1>7, <1>9 DEF LatestRead
  <2>2. l \in runs /\ l.passed /\ l.engine = engine /\ p.real /\ p.enough /\ p.active
    BY <2>1, <1>2, <1>5, <1>7 DEF Automation!Approvable
  <2>3. tx[t].sets = TRUE
    BY <1>4, <1>5, <1>9
  <2>4. marked(l).approved
    BY <2>2, <2>3, <2>1 DEF AutomationInv, AutomationTyped, DatasetRun
  <2> HIDE DEF marked
  <2>5. marked(l) \in runs' /\ marked(l).dataset = d
    BY <1>1, <1>6, <1>7, <2>1
  <2>6. \A m \in runs' : m.dataset = d => m.at <= marked(l).at
    BY <1>1, <1>6, <1>7, <2>1
  <2> QED BY <2>2, <2>4, <2>5, <2>6, <1>6
<1> HIDE DEF marked, settled
<1>10. /\ \A m \in runs' : m.dataset # d => m \in runs
       /\ \A l \in runs : \E m \in runs' : m.dataset = l.dataset /\ m.at = l.at
       /\ \A l \in runs : l.dataset # d => l \in runs'
  BY <1>1, <1>6, <1>8
<1>11. dataset' = [e \in Datasets |-> IF e = d THEN {p} ELSE dataset[e]]
  BY <1>3
<1> HIDE DEF p
<1> QED BY <1>1, <1>9, <1>10, <1>11, GateAfter

LEMMA CreateGate ==
  ASSUME AutomationInv, AutomationInv', ~overlap, Automation!GateOpen,
         NEW d \in Datasets, Automation!Create(d)
  PROVE  Automation!GateCloses
<1>1. PICK p : ~p.eligible /\ dataset' = [dataset EXCEPT ![d] = {p}]
  <2>1. PICK real, enough \in BOOLEAN :
          dataset' = [dataset EXCEPT ![d] =
            {[real |-> real, enough |-> enough, active |-> TRUE, eligible |-> FALSE]}]
    BY DEF Automation!Create
  <2> QED BY <2>1
<1>2. dataset' = [e \in Datasets |-> IF e = d THEN {p} ELSE dataset[e]]
  BY <1>1 DEF AutomationInv, AutomationTyped
<1>3. UNCHANGED <<engine, runs>>
  BY DEF Automation!Create
<1> QED BY <1>1, <1>2, <1>3, GateAfter

(* Only a release, a dataset that is no longer eligible or an overlap       *)
(* closes a gate that is open.                                              *)
LEMMA GateStep ==
  ASSUME AutomationInv, AutomationInv', Automation!GateOpen, [Automation!Next]_Automation!vars
  PROVE  Automation!GateCloses
<1>1. CASE overlap
  BY <1>1 DEF Automation!GateCloses
<1>2. CASE Automation!Install
  BY <1>2 DEF Automation!Install, Automation!GateCloses
<1>3. CASE UNCHANGED <<engine, dataset, runs>>
  BY <1>3, GateSame
<1>4. ASSUME NEW t \in Requests,
             \/ Automation!SetStatus(t) \/ Automation!StartRun(t) \/ Automation!FlushRun(t)
             \/ Automation!CompleteRun(t) \/ Automation!FailRun(t) \/ Automation!Decide(t)
             \/ Automation!ReadLatest(t) \/ Automation!Abort(t)
      PROVE  UNCHANGED <<engine, dataset, runs>>
  BY <1>4 DEF Automation!SetStatus, Automation!StartRun, Automation!FlushRun,
     Automation!CompleteRun,
      Automation!FailRun, Automation!Decide, Automation!ReadLatest, Automation!Abort,
      Automation!Begin, Automation!Refuse
<1>5. UNCHANGED Automation!vars => UNCHANGED <<engine, dataset, runs>>
  BY DEF Automation!vars
<1> QED BY <1>1, <1>2, <1>3, <1>4, <1>5, StatusGate, RunGate, DecisionGate, CreateGate
        DEF Automation!Next

(* automation_status reads the latest approved run, else the latest of all: *)
(* if requests do not overlap, the gate that a passed and approved run has  *)
(* opened closes only when another release is installed or the approval of  *)
(* that run's own dataset ends, whatever is done with other datasets.       *)
THEOREM ApprovedStaysVisible == Spec => ApprovedIsNotHidden
<1> DEFINE Seen == scope = "automation" /\ Automation!GateOpen => Automation!GateCloses
<1>1. AutomationHolds /\ AutomationHolds' /\ [Next]_vars => [Seen]_vars
  <2> SUFFICES ASSUME AutomationHolds, AutomationHolds', Next, scope = "automation",
                      Automation!GateOpen
               PROVE  Automation!GateCloses
    OBVIOUS
  <2>1. scope' = "automation" /\ [Automation!Next]_Automation!vars
    BY DEF Next, AutomationNext, DiscoveryNext, AssessmentNext, SupportNext
  <2> QED BY <2>1, GateStep DEF AutomationHolds
<1> HIDE DEF Seen
<1>2. [][Seen]_vars => ApprovedIsNotHidden
  BY DEF ApprovedIsNotHidden, Seen
<1> QED BY <1>1, <1>2, AutomationAlways, PTL DEF Spec
-----------------------------------------------------------------------------
(* Rules.                                                                  *)

Statuses == {"absent", "auto_active", "needs_confirmation", "inactive", "confirmed", "rejected"}
Proposals == [Discovery!Rules -> Statuses]

DiscoveryTyped ==
  /\ overlap \in BOOLEAN
  /\ proposal \in Proposals /\ decided \in Proposals
  /\ tx = [t \in Requests |-> tx[t]]
  /\ \A t \in Requests : tx[t].pc \in {"idle", "read"}

(* What a request is going to write: a run overrules no decision, and it    *)
(* does not activate what was learned; if it is followed by no analysis it  *)
(* is a run.  Requests one at a time write over what they have read.        *)
Proposes(x, p, w) ==
  /\ x.read = {p} /\ x.write = {w}
  /\ \A r \in Learned : w[r] # p[r] =>
       w[r] # "auto_active" /\ (w[r] = "confirmed" => r \in x.decides)
  /\ \A r \in Discovery!Rules \ x.decides : p[r] \in {"confirmed", "rejected"} => w[r] = p[r]
  /\ x.analyses \/ x.learns \/ w = p
  /\ ~overlap => p = proposal
Proposing(x) == \E p, w \in Proposals : Proposes(x, p, w)

DiscoveryInv ==
  /\ DiscoveryTyped
  /\ \A t \in Requests : tx[t].pc = "read" => Proposing(tx[t])
  /\ ~overlap => \A s, t \in Requests : tx[s].pc = "read" /\ tx[t].pc = "read" => s = t
  /\ \A r \in Learned : proposal[r] # "auto_active"
  /\ Discovery!RulesAreObeyed

LEMMA DiscoveryStarts ==
  ASSUME Discovery!Init PROVE DiscoveryInv
<1>1. Discovery!Idle.pc = "idle"
  BY DEF Discovery!Idle
<1> USE DEF Discovery!Init
<1>2. \A t \in Requests : tx[t].pc = "idle"
  BY <1>1
<1>3. DiscoveryTyped
  BY <1>2 DEF DiscoveryTyped, Proposals, Statuses
<1>4. \A r \in Discovery!Rules : proposal[r] = "absent" /\ decided[r] = "absent"
  OBVIOUS
<1>5. Learned \subseteq Discovery!Rules
  BY DEF Discovery!Rules
<1>6. analysed = {}
  OBVIOUS
<1> QED BY <1>2, <1>3, <1>4, <1>5, <1>6 DEF DiscoveryInv, Discovery!RulesAreObeyed

LEMMA RunProposes ==
  ASSUME NEW p \in Proposals, NEW w \in Discovery!RunDiscovery(p)
  PROVE  /\ w \in Proposals
         /\ \A r \in Discovery!Rules : p[r] \in {"confirmed", "rejected"} => w[r] = p[r]
         /\ \A r \in Learned : w[r] # p[r] => w[r] \notin {"auto_active", "confirmed"}
<1>1. PICK specified \in {Discovery!Catalog \cup learned : learned \in SUBSET Learned},
           enough \in BOOLEAN, confidence \in [Discovery!Rules -> {"low", "middle", "high"}] :
        w = [r \in Discovery!Rules |->
               IF r \in specified
               THEN Discovery!Upserted(p[r], Discovery!DiscoveredStatus(r, enough, confidence[r]))
               ELSE p[r]]
  BY DEF Discovery!RunDiscovery
<1>2. \A r : /\ Discovery!DiscoveredStatus(r, enough, confidence[r])
                   \in {"auto_active", "inactive", "needs_confirmation"}
             /\ r \in Learned =>
                   Discovery!DiscoveredStatus(r, enough, confidence[r]) # "auto_active"
  BY RulesAssumption DEF Discovery!DiscoveredStatus
<1>3. \A r \in Discovery!Rules :
        \/ w[r] = p[r]
        \/ /\ p[r] \notin {"confirmed", "rejected"}
           /\ w[r] = Discovery!DiscoveredStatus(r, enough, confidence[r])
  BY <1>1 DEF Discovery!Upserted
<1>4. w = [r \in Discovery!Rules |-> w[r]]
  BY <1>1
<1> QED BY <1>2, <1>3, <1>4 DEF Proposals, Statuses, Discovery!Rules

LEMMA BeginProposes ==
  ASSUME DiscoveryInv, NEW t \in Requests, NEW x, Discovery!Begin(t, x), x.pc = "read", Proposing(x)
  PROVE  DiscoveryInv'
<1>1. /\ tx' = [tx EXCEPT ![t] = x] /\ (overlap \/ \A u \in Requests : tx[u].pc = "idle")
      /\ UNCHANGED <<overlap, counted, profile, proposal, analysed, decided, relearned>>
  BY DEF Discovery!Begin, Discovery!Idle
<1>2. tx'[t] = x /\ \A s \in Requests \ {t} : tx'[s] = tx[s]
  BY <1>1 DEF DiscoveryInv, DiscoveryTyped
<1>3. DiscoveryTyped'
  BY <1>1, <1>2 DEF DiscoveryInv, DiscoveryTyped
<1>4. \A s \in Requests : tx'[s].pc = "read" => Proposing(tx[s])' 
  BY <1>1, <1>2 DEF DiscoveryInv, Proposing, Proposes
<1>5. ~overlap => \A s, u \in Requests : tx'[s].pc = "read" /\ tx'[u].pc = "read" => s = u
  BY <1>1, <1>2
<1>6. Discovery!RulesAreObeyed'
  BY <1>1 DEF DiscoveryInv, Discovery!RulesAreObeyed, Discovery!ActiveCodes
<1> QED BY <1>1, <1>3, <1>4, <1>5, <1>6 DEF DiscoveryInv

LEMMA RefuseProposes ==
  ASSUME DiscoveryInv, NEW t \in Requests, Discovery!Refuse(t)
  PROVE  DiscoveryInv'
<1>1. /\ tx' = [tx EXCEPT ![t] = Discovery!Idle] /\ Discovery!Idle.pc = "idle"
      /\ UNCHANGED <<overlap, counted, profile, proposal, analysed, decided, relearned>>
  BY DEF Discovery!Refuse, Discovery!Idle
<1>2. tx'[t] = Discovery!Idle /\ \A s \in Requests \ {t} : tx'[s] = tx[s]
  BY <1>1 DEF DiscoveryInv, DiscoveryTyped
<1>3. DiscoveryTyped'
  BY <1>1, <1>2 DEF DiscoveryInv, DiscoveryTyped
<1>4. \A s \in Requests : tx'[s].pc = "read" => Proposing(tx[s])'
  BY <1>1, <1>2 DEF DiscoveryInv, Proposing, Proposes
<1>5. ~overlap => \A s, u \in Requests : tx'[s].pc = "read" /\ tx'[u].pc = "read" => s = u
  BY <1>1, <1>2 DEF DiscoveryInv
<1>6. Discovery!RulesAreObeyed'
  BY <1>1 DEF DiscoveryInv, Discovery!RulesAreObeyed, Discovery!ActiveCodes
<1> QED BY <1>1, <1>3, <1>4, <1>5, <1>6 DEF DiscoveryInv

LEMMA RequestsPropose ==
  ASSUME DiscoveryInv, NEW t \in Requests,
         \/ Discovery!Upload(t) \/ Discovery!Archive(t) \/ Discovery!ExecuteDiscovery(t)
         \/ Discovery!Relearn(t) \/ Discovery!DecideRule(t)
  PROVE  DiscoveryInv'
<1> DEFINE plain(analyses, x) ==
             /\ x.pc = "read" /\ x.read = {proposal} /\ x.write = {proposal}
             /\ x.analyses = analyses
           learning(learned, x) ==
             /\ x.pc = "read" /\ x.read = {proposal} /\ x.write = {learned} /\ x.learns
<1>1. proposal \in Proposals /\ Learned \subseteq Discovery!Rules
  BY DEF DiscoveryInv, DiscoveryTyped, Discovery!Rules
<1>2. ASSUME NEW x, NEW learned \in Discovery!RunDiscovery(proposal), learning(learned, x),
             Discovery!Begin(t, x)
      PROVE  DiscoveryInv'
  <2>1. /\ learned \in Proposals
        /\ \A r \in Discovery!Rules : proposal[r] \in {"confirmed", "rejected"} =>
             learned[r] = proposal[r]
        /\ \A r \in Learned : learned[r] # proposal[r] =>
             learned[r] \notin {"auto_active", "confirmed"}
    BY <1>1, RunProposes
  <2>2. Proposes(x, proposal, learned)
    BY <2>1, <1>2 DEF Proposes
  <2> QED BY <2>1, <2>2, <1>1, <1>2, BeginProposes DEF Proposing
<1>3. ASSUME NEW x, NEW this, plain(this, x), this, Discovery!Begin(t, x)
      PROVE  DiscoveryInv'
  <2>1. Proposes(x, proposal, proposal)
    BY <1>3 DEF Proposes
  <2> QED BY <2>1, <1>1, <1>3, BeginProposes DEF Proposing
<1>4. ASSUME NEW x, x.pc = "read", x.read = {proposal}, x.write = {proposal}, Discovery!Begin(t, x)
      PROVE  DiscoveryInv'
  <2>1. Proposes(x, proposal, proposal)
    BY <1>4 DEF Proposes
  <2> QED BY <2>1, <1>1, <1>4, BeginProposes DEF Proposing
<1>5. CASE Discovery!Upload(t)
  <2>1. CASE \E learned \in Discovery!RunDiscovery(proposal) :
               Discovery!Begin(t, [Discovery!Learning(TRUE, learned) EXCEPT !.adds = 1])
    BY <2>1, <1>2 DEF Discovery!Learning, Discovery!Request, Discovery!Idle
  <2>2. CASE \E this \in BOOLEAN : Discovery!Begin(t, [Discovery!Request(this) EXCEPT !.adds = 1])
    BY <2>2, <1>4 DEF Discovery!Request, Discovery!Idle
  <2> QED BY <2>1, <2>2, <1>5 DEF Discovery!Upload
<1>6. CASE Discovery!Archive(t)
  BY <1>4, <1>6 DEF Discovery!Archive, Discovery!Request, Discovery!Idle
<1>7. CASE Discovery!ExecuteDiscovery(t)
  BY <1>2, <1>7 DEF Discovery!ExecuteDiscovery, Discovery!Learning, Discovery!Request,
     Discovery!Idle
<1>8. CASE Discovery!Relearn(t)
  BY <1>2, <1>8 DEF Discovery!Relearn, Discovery!Learning, Discovery!Request, Discovery!Idle
<1>9. CASE Discovery!DecideRule(t)
  <2>1. PICK r \in Discovery!Rules, decision \in Discovery!Decisions :
          Discovery!Begin(t, [Discovery!Request(TRUE) EXCEPT
            !.write = {[proposal EXCEPT ![r] = decision]}, !.decides = {r}])
    BY <1>9, Zenon DEF Discovery!DecideRule
  <2> DEFINE w == [proposal EXCEPT ![r] = decision]
             x == [Discovery!Request(TRUE) EXCEPT !.write = {w}, !.decides = {r}]
  <2>2. /\ w \in Proposals /\ w[r] = decision /\ decision # "auto_active"
        /\ \A o \in Discovery!Rules \ {r} : w[o] = proposal[o]
    BY <1>1 DEF Proposals, Statuses, Discovery!Decisions
  <2>3. /\ x.pc = "read" /\ x.read = {proposal} /\ x.write = {w} /\ x.decides = {r} /\ x.analyses
    BY DEF Discovery!Request, Discovery!Idle
  <2>4. Discovery!Begin(t, x)
    BY <2>1
  <2> HIDE DEF w, x
  <2>5. Proposes(x, proposal, w)
    BY <1>1, <2>2, <2>3 DEF Proposes
  <2> QED BY <1>1, <2>2, <2>3, <2>4, <2>5, BeginProposes DEF Proposing
<1> QED BY <1>5, <1>6, <1>7, <1>8, <1>9

LEMMA CommitProposes ==
  ASSUME DiscoveryInv, NEW t \in Requests, Discovery!Commit(t)
  PROVE  DiscoveryInv'
<1> DEFINE seen == Discovery!Seen(t)
<1>1. /\ tx[t].pc = "read" /\ UNCHANGED overlap
      /\ proposal' = seen
      /\ analysed' = IF tx[t].analyses /\ ~overlap THEN {Discovery!ActiveCodes(seen)} ELSE analysed
      /\ decided' = [r \in Discovery!Rules |-> IF r \in tx[t].decides THEN seen[r] ELSE decided[r]]
      /\ relearned' = (~overlap /\ ~tx[t].analyses /\ (relearned \/ tx[t].learns))
      /\ tx' = [tx EXCEPT ![t] = Discovery!Idle]
  BY DEF Discovery!Commit
<1>2. PICK p, w \in Proposals : Proposes(tx[t], p, w)
  BY <1>1 DEF DiscoveryInv, Proposing
<1>3. tx'[t].pc = "idle" /\ \A s \in Requests \ {t} : tx'[s] = tx[s]
  BY <1>1 DEF DiscoveryInv, DiscoveryTyped, Discovery!Idle
<1>4. \A r \in Discovery!Rules : seen[r] = IF p[r] # w[r] THEN w[r] ELSE proposal[r]
  BY <1>2 DEF Discovery!Seen, Discovery!Changed, Proposes
<1>5. seen = [r \in Discovery!Rules |-> seen[r]]
  BY DEF Discovery!Seen
<1> HIDE DEF seen
<1>6. proposal \in Proposals /\ decided \in Proposals /\ Learned \subseteq Discovery!Rules
  BY DEF DiscoveryInv, DiscoveryTyped, Discovery!Rules
<1>7. seen \in Proposals
  BY <1>2, <1>4, <1>5, <1>6 DEF Proposals
<1>8. decided' \in Proposals
  BY <1>1, <1>6, <1>7 DEF Proposals
<1>9. DiscoveryTyped'
  BY <1>1, <1>3, <1>7, <1>8 DEF DiscoveryInv, DiscoveryTyped
<1>10. \A s \in Requests : tx'[s].pc = "read" => Proposing(tx[s])'
  <2> SUFFICES ASSUME NEW s \in Requests, tx'[s].pc = "read" PROVE Proposing(tx[s])'
    OBVIOUS
  <2>1. s # t /\ tx'[s] = tx[s]
    BY <1>3
  <2>2. overlap
    BY <1>1, <2>1 DEF DiscoveryInv
  <2> QED BY <1>1, <2>1, <2>2 DEF DiscoveryInv, Proposing, Proposes
<1>11. ~overlap => \A s, u \in Requests : tx'[s].pc = "read" /\ tx'[u].pc = "read" => s = u
  BY <1>3 DEF DiscoveryInv
<1>12. \A r \in Learned : seen[r] # "auto_active"
  BY <1>2, <1>4, <1>6 DEF DiscoveryInv, Proposes
<1>13. \A r \in Learned : seen[r] = "confirmed" => decided'[r] = "confirmed"
  BY <1>1, <1>2, <1>4, <1>6 DEF DiscoveryInv, Discovery!RulesAreObeyed, Proposes
<1>14. ASSUME ~overlap, NEW r \in Discovery!Rules, decided'[r] \in {"confirmed", "rejected"}
       PROVE  proposal'[r] = decided'[r]
  <2>1. CASE r \in tx[t].decides
    BY <2>1, <1>1
  <2>2. CASE r \notin tx[t].decides
    <3>1. decided'[r] = decided[r]
      BY <2>2, <1>1
    <3>2. proposal[r] = decided[r] /\ p = proposal
      BY <3>1, <1>2, <1>14 DEF DiscoveryInv, Discovery!RulesAreObeyed, Proposes
    <3> QED BY <2>2, <3>1, <3>2, <1>1, <1>2, <1>4, <1>14 DEF Proposes
  <2> QED BY <2>1, <2>2
<1>15. ASSUME ~overlap PROVE relearned' \/ analysed' \subseteq {Discovery!ActiveCodes(seen)}
  <2>1. CASE tx[t].analyses
    BY <2>1, <1>1, <1>15
  <2>2. CASE ~tx[t].analyses /\ tx[t].learns
    BY <2>2, <1>1, <1>15
  <2>3. CASE ~tx[t].analyses /\ ~tx[t].learns
    <3>1. w = p
      BY <2>3, <1>2 DEF Proposes
    <3>2. \A r \in Discovery!Rules : seen[r] = proposal[r]
      BY <3>1, <1>4
    <3>3. Discovery!ActiveCodes(seen) = Discovery!ActiveCodes(proposal)
      BY <3>2 DEF Discovery!ActiveCodes
    <3>4. relearned \/ analysed \subseteq {Discovery!ActiveCodes(proposal)}
      BY <1>15 DEF DiscoveryInv, Discovery!RulesAreObeyed
    <3> QED BY <2>3, <3>3, <3>4, <1>1, <1>15
  <2> QED BY <2>1, <2>2, <2>3
<1>16. Discovery!RulesAreObeyed'
  <2>1. Discovery!ActiveCodes(proposal)' = Discovery!ActiveCodes(seen)
    BY <1>1 DEF Discovery!ActiveCodes
  <2> QED BY <2>1, <1>1, <1>12, <1>13, <1>14, <1>15 DEF Discovery!RulesAreObeyed
<1> QED BY <1>1, <1>9, <1>10, <1>11, <1>12, <1>16 DEF DiscoveryInv

(* Every step keeps what holds of proposals and decisions.                  *)
LEMMA DiscoveryKeeps ==
  ASSUME DiscoveryInv, [Discovery!Next]_Discovery!vars
  PROVE  DiscoveryInv'
<1>1. ASSUME NEW t \in Requests, Discovery!Abort(t) PROVE DiscoveryInv'
  BY <1>1, RefuseProposes DEF Discovery!Abort
<1>2. CASE Discovery!Next
  BY <1>1, <1>2, RequestsPropose, CommitProposes DEF Discovery!Next
<1>3. CASE UNCHANGED Discovery!vars
  <2>1. UNCHANGED <<overlap, counted, profile, proposal, analysed, tx, decided, relearned>>
    BY <1>3 DEF Discovery!vars
  <2> QED BY <2>1 DEF DiscoveryInv, DiscoveryTyped, Proposing, Proposes, Discovery!RulesAreObeyed,
                      Discovery!ActiveCodes
<1> QED BY <1>2, <1>3

DiscoveryHolds == scope = "discovery" => DiscoveryInv

LEMMA DiscoveryScope ==
  ASSUME [Next]_vars, scope' = "discovery"
  PROVE  scope = "discovery" /\ [Discovery!Next]_Discovery!vars
BY DEF Next, vars, requests, automation, discovery, analysis, Discovery!vars, AutomationNext,
       DiscoveryNext, AssessmentNext, SupportNext

(* _upsert_rule leaves a decided rule alone and does not activate a rule    *)
(* about a recurring field; every request that writes the rules analyses    *)
(* the chains again but decide_activity_profile.  So what applies was       *)
(* confirmed, and if requests do not overlap confirmations and refusals     *)
(* survive every run; a rule that was turned off may be turned on again.    *)
THEOREM RulesStayObeyed == Spec => []RulesAreObeyed
<1>1. Init => DiscoveryHolds
  BY DiscoveryStarts DEF Init, AutomationInit, DiscoveryInit, AssessmentInit,
       SupportInit, DiscoveryHolds
<1>2. DiscoveryHolds /\ [Next]_vars => DiscoveryHolds'
  BY DiscoveryScope, DiscoveryKeeps DEF DiscoveryHolds
<1>3. DiscoveryHolds => RulesAreObeyed
  BY DEF DiscoveryHolds, DiscoveryInv, RulesAreObeyed
<1> QED BY <1>1, <1>2, <1>3, PTL DEF Spec
=============================================================================
