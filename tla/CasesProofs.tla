---------------------------- MODULE CasesProofs ----------------------------
(***************************************************************************)
(* A review commits only on the support and the status it validated        *)
(* (ReviewsRestOnCurrentSupport), and findings are versioned without gaps  *)
(* (VersionsAdvance), for any number of requests, discrepancies and lines.  *)
(*                                                                         *)
(* Both are about the moment of a commit and hold because of the locks: no *)
(* two requests hold conflicting locks of a row (Exclusive), and every     *)
(* request holds or waits for the locks of what it is about to write       *)
(* (Covered).  So what a review has validated (Validated) and what a       *)
(* recorded finding follows (Follows) is not changed by another commit.    *)
(***************************************************************************)
EXTENDS Cases, TLAPS

Exclusive ==
  \A k, l \in locks : k.row = l.row /\ k.by # l.by => ~Conflicting(k.mode, l.mode)

Staged(x) ==
  /\ x.kind = "none" <=> x.pc = "idle"
  /\ x.kind = "review" => x.pc \in {"validate", "commit"}
  /\ x.kind = "transition" => x.pc \in {"link", "commit"}
  /\ x.kind \in Analyses => x.pc \in {"evaluate", "record", "summarise", "commit"}
  /\ x.kind \notin Analyses => x.version = 0 /\ x.sets = {}
  /\ x.pc \in {"evaluate", "record"} => x.version = 0
  /\ x.pc = "evaluate" => x.sets = {}

Covered(t, x) ==
  LET held(row, mode) == Wants(t, row, mode) \in locks \cup x.want
  IN  /\ \A l \in x.want : l.by = t
      /\ x.kind = "review" => /\ held("case", "update")
                              /\ provable => held("docs", "update")
      /\ x.kind = "reprocess" => held("docs", "write")
      /\ x.kind = "correct" /\ x.pc # "evaluate" => held("docs", "write")
      /\ x.sets # {} => held("case", "write")
      /\ x.kind = "transition" => held("case", "write")
      /\ x.version > 0 => held("case", "share") /\ held("finding", "write")

Validated(x) ==
  x.kind = "review" /\ x.pc = "commit" /\ provable =>
    /\ x.want = {}
    /\ x.judges = finding.version /\ finding.line = content.line
    /\ Direct(content) /\ amount = content.value
    /\ x.seen = status

Follows(t, x) ==
  x.version > 0 =>
    /\ finding.version >= x.version - 1
    /\ finding.version = x.version - 1 => finding.line # x.content.line
    /\ x.pc = "commit" => /\ finding.version = x.version - 1
                          /\ Wants(t, "finding", "write") \in locks

Local(t, x) == Staged(x) /\ Covered(t, x) /\ Validated(x) /\ Follows(t, x)

IInv == TypeOK /\ Exclusive /\ \A t \in Requests : Local(t, tx[t])
-----------------------------------------------------------------------------
(* A step that changes only the record of its request keeps the invariant   *)
(* if the new record is as it should be.                                    *)
LEMMA Advance ==
  ASSUME IInv, NEW t \in Requests, NEW y \in States, tx' = [tx EXCEPT ![t] = y],
         UNCHANGED <<provable, rows, locks>>, Local(t, y)
  PROVE  IInv'
<1>1. tx'[t] = y /\ \A u \in Requests \ {t} : tx'[u] = tx[u]
  BY DEF IInv, TypeOK
<1>2. TypeOK'
  BY DEF IInv, TypeOK, rows
<1>3. Exclusive'
  BY DEF IInv, Exclusive
<1>4. ASSUME NEW u \in Requests PROVE Local(u, tx[u])' <=> Local(u, tx'[u])
  BY <1>1 DEF rows, Local, Staged, Covered, Validated, Follows, Direct
<1>5. \A u \in Requests : Local(u, tx[u])'
  BY <1>1, <1>4 DEF IInv
<1> QED BY <1>2, <1>3, <1>5 DEF IInv

(* Waiting ends: the lock is granted when it conflicts with no other's.     *)
LEMMA AcquireKeeps ==
  ASSUME IInv, NEW t \in Requests, Acquire(t)
  PROVE  IInv'
<1>1. PICK l \in Turn(t) : /\ Blockers(t, l) = {} /\ locks' = locks \cup {l}
                           /\ tx' = [tx EXCEPT ![t].want = @ \ {l}]
                           /\ UNCHANGED <<provable, rows>>
  BY DEF Acquire
<1> DEFINE y == [tx[t] EXCEPT !.want = @ \ {l}]
<1>2. /\ tx[t] \in States /\ l \in tx[t].want /\ l.by = t
      /\ l \in [by : Requests, row : Rows, mode : Modes]
  BY <1>1 DEF IInv, TypeOK, States, Turn, Local, Covered
<1>3. y \in States /\ tx' = [tx EXCEPT ![t] = y]
  BY <1>1, <1>2 DEF IInv, TypeOK, States
<1>4. /\ y.want = tx[t].want \ {l} /\ y.pc = tx[t].pc /\ y.kind = tx[t].kind
      /\ y.content = tx[t].content /\ y.seen = tx[t].seen /\ y.sets = tx[t].sets
      /\ y.version = tx[t].version /\ y.judges = tx[t].judges
  BY <1>2 DEF States
<1>5. tx'[t] = y /\ \A u \in Requests \ {t} : tx'[u] = tx[u]
  BY <1>3 DEF IInv, TypeOK
<1> HIDE DEF y
<1>6. TypeOK'
  BY <1>1, <1>2, <1>3 DEF IInv, TypeOK, rows
<1>7. Exclusive'
  <2> SUFFICES ASSUME NEW j \in locks \cup {l}, NEW k \in locks \cup {l}, j.row = k.row, j.by # k.by
               PROVE  ~Conflicting(j.mode, k.mode)
    BY <1>1 DEF Exclusive
  <2>1. \A k0 \in locks : k0.row = l.row /\ k0.by # t => ~Conflicting(k0.mode, l.mode)
    BY <1>1 DEF Blockers
  <2> QED BY <2>1, <1>2 DEF IInv, Exclusive, Conflicting
<1>8. Local(t, tx[t])'
  <2>1. Local(t, tx[t])
    BY DEF IInv
  <2>2. Staged(y)
    BY <2>1, <1>4 DEF Local, Staged
  <2>3. Covered(t, tx[t])'
    BY <2>1, <1>1, <1>4, <1>5 DEF Local, Covered
  <2>4. Validated(tx[t])'
    BY <2>1, <1>1, <1>2, <1>4, <1>5 DEF Local, Validated, rows, Direct
  <2>5. Follows(t, tx[t])'
    BY <2>1, <1>1, <1>4, <1>5 DEF Local, Follows, rows
  <2> QED BY <2>2, <2>3, <2>4, <2>5, <1>5 DEF Local, Staged
<1>9. ASSUME NEW u \in Requests \ {t} PROVE Local(u, tx[u])'
  <2>1. Local(u, tx[u])
    BY DEF IInv
  <2> QED BY <2>1, <1>1, <1>5 DEF rows, Local, Staged, Covered, Validated, Follows, Direct
<1> QED BY <1>6, <1>7, <1>8, <1>9 DEF IInv

(* A request that ends leaves the locks of the others as they were.  The    *)
(* rows may change if what the others validated and follow stays.           *)
LEMMA ReleaseKeeps ==
  ASSUME IInv, NEW t \in Requests, Release(t), TypeOK', UNCHANGED provable,
         \A u \in Requests \ {t} : Validated(tx[u])' /\ Follows(u, tx[u])'
  PROVE  IInv'
<1>1. tx'[t] = Idle /\ \A u \in Requests \ {t} : tx'[u] = tx[u]
  BY DEF Release, IInv, TypeOK
<1>2. Exclusive'
  BY DEF IInv, Exclusive, Release
<1>3. Local(t, tx[t])'
  BY <1>1 DEF Local, Idle, Staged, Covered, Validated, Follows, Analyses
<1>4. ASSUME NEW u \in Requests \ {t} PROVE Local(u, tx[u])'
  <2>1. Staged(tx[u]) /\ Covered(u, tx[u])
    BY DEF IInv, Local
  <2>2. Staged(tx[u])'
    BY <2>1, <1>1 DEF Staged
  <2>3. Covered(u, tx[u])'
    BY <2>1, <1>1 DEF Covered, Release, Wants
  <2> QED BY <2>2, <2>3 DEF Local
<1> QED BY <1>2, <1>3, <1>4 DEF IInv

LEMMA IdleIsAState == CasesAssumption => Idle \in States
BY SMT DEF CasesAssumption, Idle, States, Contents, Analyses, Statuses, Undecided, Decisions

LEMMA AbortKeeps ==
  ASSUME IInv, NEW t \in Requests, Abort(t)
  PROVE  IInv'
<1>1. tx'[t] = Idle /\ \A u \in Requests \ {t} : tx'[u] = tx[u]
  BY DEF Abort, Release, IInv, TypeOK
<1>2. TypeOK'
  BY IdleIsAState, CasesAssumption DEF IInv, TypeOK, Abort, Release, rows
<1>3. ASSUME NEW u \in Requests \ {t} PROVE Validated(tx[u])' /\ Follows(u, tx[u])'
  <2>1. Validated(tx[u]) /\ Follows(u, tx[u])
    BY DEF IInv, Local
  <2>2. Wants(u, "finding", "write") \in locks => Wants(u, "finding", "write") \in locks'
    BY DEF Abort, Release, Wants
  <2> QED BY <2>1, <2>2, <1>1 DEF Validated, Follows, Abort, rows, Direct
<1> QED BY <1>2, <1>3, ReleaseKeeps DEF Abort
-----------------------------------------------------------------------------
(* The steps of a request before its end.                                   *)

LEMMA WantsAreLocks ==
  ASSUME NEW t \in Requests, NEW row \in Rows, NEW mode \in Modes
  PROVE  /\ Wants(t, row, mode) \in [by : Requests, row : Rows, mode : Modes]
         /\ Wants(t, row, mode).by = t
BY DEF Wants

LEMMA StartKeeps ==
  ASSUME IInv, CasesAssumption, NEW t \in Requests, Start(t)
  PROVE  IInv'
<1>0. Idle \in States
  BY IdleIsAState
<1>1. ASSUME NEW kind \in Analyses, NEW want \in SUBSET {Wants(t, "docs", "write")},
             NEW read \in Contents, NEW chain \in {"clear", "review"},
             Begin(t, kind, "evaluate", want, read, chain),
             kind = "reprocess" => Wants(t, "docs", "write") \in want
      PROVE  IInv'
  <2> DEFINE y == [Idle EXCEPT !.kind = kind, !.pc = "evaluate", !.want = want,
                               !.content = read, !.chain = chain]
  <2>1. tx' = [tx EXCEPT ![t] = y] /\ UNCHANGED <<provable, rows, locks>>
    BY <1>1 DEF Begin
  <2>2. /\ y.kind = kind /\ y.pc = "evaluate" /\ y.want = want /\ y.sets = {} /\ y.version = 0
        /\ y \in States
    <3>1. want \in SUBSET [by : Requests, row : Rows, mode : Modes]
      BY <1>1, WantsAreLocks DEF Rows, Modes
    <3>2. y \in States
      BY <3>1, <1>0 DEF States
    <3> QED BY <3>2 DEF Idle
  <2> HIDE DEF y
  <2>3. Local(t, y)
    BY <1>1, <2>2, WantsAreLocks DEF Local, Staged, Covered, Validated, Follows, Analyses, Rows, Modes
  <2> QED BY <2>1, <2>2, <2>3, Advance
<1>2. CASE CorrectLine(t)
  <2>1. PICK v \in Amounts : Begin(t, "correct", "evaluate", {}, [content EXCEPT !.value = v], chainStatus)
    BY <1>2 DEF CorrectLine
  <2>2. [content EXCEPT !.value = v] \in Contents
    BY DEF IInv, TypeOK, Contents
  <2>3. "correct" \in Analyses /\ chainStatus \in {"clear", "review"}
    BY DEF Analyses, IInv, TypeOK
  <2> QED BY <1>1, <2>1, <2>2, <2>3
<1>3. CASE Reprocess(t)
  <2>1. PICK n \in 1..MaxLines, v \in Amounts :
          Begin(t, "reprocess", "evaluate", {Wants(t, "docs", "write")},
                [line |-> n, value |-> v, fact |-> v], chainStatus)
    BY <1>3 DEF Reprocess
  <2>2. [line |-> n, value |-> v, fact |-> v] \in Contents
    BY DEF Contents
  <2> QED BY <1>1, <2>1, <2>2 DEF Analyses, IInv, TypeOK
<1>4. CASE Reanalyse(t)
  <2>1. /\ "reanalyse" \in Analyses /\ chainStatus \in {"clear", "review"}
        /\ content \in Contents /\ {} \in SUBSET {Wants(t, "docs", "write")}
    BY DEF Analyses, IInv, TypeOK
  <2> QED BY <1>1, <1>4, <2>1 DEF Reanalyse
<1>5. CASE Review(t)
  <2> DEFINE want == {Wants(t, "case", "update")} \cup
                       (IF provable THEN {Wants(t, "chain", "update"), Wants(t, "docs", "update")} ELSE {})
             y == [Idle EXCEPT !.kind = "review", !.pc = "validate", !.want = want,
                               !.content = Idle.content, !.chain = Idle.chain]
  <2>1. tx' = [tx EXCEPT ![t] = y] /\ UNCHANGED <<provable, rows, locks>>
    BY <1>5 DEF Review, Begin
  <2>2. /\ y.kind = "review" /\ y.pc = "validate" /\ y.want = want /\ y.sets = {} /\ y.version = 0
        /\ y \in States
    <3>1. want \in SUBSET [by : Requests, row : Rows, mode : Modes]
      BY WantsAreLocks DEF Rows, Modes
    <3>2. y \in States
      BY <3>1, <1>0 DEF States
    <3> QED BY <3>2 DEF Idle
  <2>3. Local(t, y)
    BY <2>2, WantsAreLocks DEF Local, Staged, Covered, Validated, Follows, Analyses, Rows, Modes
  <2> QED BY <2>1, <2>2, <2>3, Advance
<1>6. CASE Transition(t)
  <2>1. PICK target \in CASE_TRANSITIONS[IF status = "none" THEN "superseded" ELSE status] :
          tx' = [tx EXCEPT ![t] = [Idle EXCEPT !.kind = "transition", !.pc = "link",
                                               !.want = {Wants(t, "case", "write")},
                                               !.seen = status, !.status = target]]
    BY <1>6 DEF Transition
  <2> DEFINE y == [Idle EXCEPT !.kind = "transition", !.pc = "link",
                               !.want = {Wants(t, "case", "write")},
                               !.seen = status, !.status = target]
  <2>2. target \in Statuses
    BY DEF CASE_TRANSITIONS, IInv, TypeOK, Statuses, Undecided, Decisions
  <2>3. /\ y.kind = "transition" /\ y.pc = "link" /\ y.want = {Wants(t, "case", "write")}
        /\ y.sets = {} /\ y.version = 0 /\ y \in States
    <3>1. {Wants(t, "case", "write")} \in SUBSET [by : Requests, row : Rows, mode : Modes]
      BY WantsAreLocks DEF Rows, Modes
    <3>2. y \in States
      BY <3>1, <2>2, <1>0 DEF States, IInv, TypeOK
    <3> QED BY <3>2 DEF Idle
  <2>4. Local(t, y)
    BY <2>3, WantsAreLocks DEF Local, Staged, Covered, Validated, Follows, Analyses, Rows, Modes
  <2>5. UNCHANGED <<provable, rows, locks>>
    BY <1>6 DEF Transition
  <2> QED BY <2>1, <2>3, <2>4, <2>5, Advance
<1> QED BY <1>2, <1>3, <1>4, <1>5, <1>6 DEF Start

LEMMA EvaluateKeeps ==
  ASSUME IInv, NEW t \in Requests, Evaluate(t)
  PROVE  IInv'
<1> DEFINE y == tx'[t]
<1>1. PICK s \in StatusesAfter(t) :
        tx' = [tx EXCEPT ![t].pc     = IF Fires(t) THEN "record" ELSE "summarise",
                         ![t].want   = FlushLocks(t, s),
                         ![t].seen   = status,
                         ![t].sets   = Changes(t, s),
                         ![t].status = s]
  BY DEF Evaluate
<1>2. tx[t] \in States /\ tx[t].pc = "evaluate" /\ tx[t].want = {} /\ status \in Statuses \cup {"none"}
  BY DEF Evaluate, At, IInv, TypeOK
<1>3. Local(t, tx[t]) /\ tx[t].kind \in Analyses /\ tx[t].version = 0
  <2>1. Local(t, tx[t])
    BY DEF IInv
  <2> QED BY <1>2, <2>1 DEF Local, Staged, States
<1>4. s \in Statuses \cup {"none"}
  BY <1>2 DEF StatusesAfter, Raised, Undecided, Statuses
<1>5. /\ y.pc = (IF Fires(t) THEN "record" ELSE "summarise")
      /\ y.kind = tx[t].kind /\ y.version = 0 /\ y.content = tx[t].content
      /\ y.sets = Changes(t, s) /\ y.want = FlushLocks(t, s)
  BY <1>1, <1>2, <1>3 DEF IInv, TypeOK, States
<1>6. /\ FlushLocks(t, s) \in SUBSET [by : Requests, row : Rows, mode : Modes]
      /\ Changes(t, s) \in SUBSET {"status", "amount"}
  BY WantsAreLocks DEF Rows, Modes, FlushLocks, Changes
<1>7. y \in States /\ tx' = [tx EXCEPT ![t] = y]
  <2>1. y = [tx[t] EXCEPT !.pc = IF Fires(t) THEN "record" ELSE "summarise",
                          !.want = FlushLocks(t, s), !.seen = status,
                          !.sets = Changes(t, s), !.status = s]
    BY <1>1 DEF IInv, TypeOK
  <2>2. y \in States
    BY ZenonT(40), <1>2, <1>4, <1>6, <2>1 DEF States
  <2> QED BY <1>1, <2>2 DEF IInv, TypeOK
<1> HIDE DEF y
<1>8. Local(t, y)
  <2>1. Staged(y) /\ Validated(y) /\ Follows(t, y)
    BY <1>3, <1>5 DEF Staged, Validated, Follows, Analyses
  <2>2. /\ tx[t].kind = "correct" => Wants(t, "docs", "write") \in y.want
        /\ y.sets # {} => Wants(t, "case", "write") \in y.want
        /\ \A l \in y.want : l.by = t
    BY <1>5 DEF Wants, FlushLocks
  <2>3. tx[t].kind = "reprocess" => Wants(t, "docs", "write") \in locks
    BY <1>2, <1>3 DEF Local, Covered
  <2>4. Covered(t, y)
    BY <1>3, <1>5, <2>2, <2>3 DEF Covered, Analyses
  <2> QED BY <2>1, <2>4 DEF Local
<1>9. UNCHANGED <<provable, rows, locks>>
  BY DEF Evaluate
<1> QED BY <1>7, <1>8, <1>9, Advance

LEMMA RecordFindingKeeps ==
  ASSUME IInv, NEW t \in Requests, RecordFinding(t)
  PROVE  IInv'
<1> DEFINE y == tx'[t]
           new == provable /\ Direct(tx[t].content) /\ finding.line # tx[t].content.line
<1>1. /\ tx' = [tx EXCEPT ![t].pc      = "summarise",
                          ![t].version = IF new THEN finding.version + 1 ELSE 0,
                          ![t].want    = IF new THEN {Wants(t, "finding", "write"),
                                                      Wants(t, "case", "share")} ELSE {}]
      /\ UNCHANGED <<provable, rows, locks>>
      /\ tx[t].pc = "record" /\ tx[t].want = {}
  BY DEF RecordFinding, At
<1>2. tx[t] \in States /\ finding.version \in Nat
  BY DEF IInv, TypeOK
<1>3. Local(t, tx[t]) /\ tx[t].kind \in Analyses
  <2>1. Local(t, tx[t])
    BY DEF IInv
  <2> QED BY <1>1, <1>2, <2>1 DEF Local, Staged, States
<1>4. /\ y.pc = "summarise" /\ y.kind = tx[t].kind /\ y.content = tx[t].content
      /\ y.sets = tx[t].sets
      /\ y.version = (IF new THEN finding.version + 1 ELSE 0)
      /\ y.want = (IF new THEN {Wants(t, "finding", "write"), Wants(t, "case", "share")} ELSE {})
  BY <1>1, <1>2 DEF IInv, TypeOK, States
<1>5. y.want \in SUBSET [by : Requests, row : Rows, mode : Modes] /\ \A l \in y.want : l.by = t
  BY <1>4, WantsAreLocks DEF Rows, Modes
<1>6. y \in States /\ tx' = [tx EXCEPT ![t] = y]
  <2>1. y = [tx[t] EXCEPT !.pc = "summarise", !.version = y.version, !.want = y.want]
    BY <1>1, <1>2, <1>4 DEF IInv, TypeOK, States
  <2>2. y.version \in Nat
    BY <1>2, <1>4
  <2>3. y \in States
    BY <1>2, <1>5, <2>1, <2>2 DEF States
  <2> QED BY <1>1, <2>3 DEF IInv, TypeOK
<1> HIDE DEF y
<1>7. Staged(y) /\ Validated(y)
  BY <1>3, <1>4 DEF Staged, Validated, Analyses
<1>8. Follows(t, y)
  BY <1>2, <1>4 DEF Follows
<1>9. Covered(t, y)
  <2>1. Covered(t, tx[t])
    BY <1>3 DEF Local
  <2>2. y.version > 0 => Wants(t, "finding", "write") \in y.want /\ Wants(t, "case", "share") \in y.want
    BY <1>4
  <2> QED BY <1>1, <1>3, <1>4, <1>5, <2>1, <2>2 DEF Covered, Analyses
<1> QED BY <1>1, <1>6, <1>7, <1>8, <1>9, Advance DEF Local

LEMMA SummariseKeeps ==
  ASSUME IInv, NEW t \in Requests, Summarise(t)
  PROVE  IInv'
<1> DEFINE y == tx'[t]
           want == IF ChainStatus(t) # tx[t].chain THEN {Wants(t, "chain", "write")} ELSE {}
<1>1. /\ tx' = [tx EXCEPT ![t].pc = "commit", ![t].want = want]
      /\ UNCHANGED <<provable, rows, locks>>
      /\ tx[t].pc = "summarise" /\ tx[t].want = {} /\ ~VersionTaken(t)
  BY DEF Summarise, At
<1>2. tx[t] \in States /\ finding.version \in Nat
  BY DEF IInv, TypeOK
<1>3. Local(t, tx[t]) /\ tx[t].kind \in Analyses
  <2>1. Local(t, tx[t])
    BY DEF IInv
  <2> QED BY <1>1, <1>2, <2>1 DEF Local, Staged, States
<1>4. want \in SUBSET [by : Requests, row : Rows, mode : Modes] /\ \A l \in want : l.by = t
  BY WantsAreLocks DEF Rows, Modes
<1> HIDE DEF want
<1>5. /\ y.pc = "commit" /\ y.kind = tx[t].kind /\ y.content = tx[t].content
      /\ y.sets = tx[t].sets /\ y.version = tx[t].version /\ y.want = want
  BY <1>1, <1>2 DEF IInv, TypeOK, States
<1>6. y \in States /\ tx' = [tx EXCEPT ![t] = y]
  BY <1>1, <1>2, <1>4, <1>5 DEF IInv, TypeOK, States
<1> HIDE DEF y
<1>7. Staged(y) /\ Validated(y)
  BY <1>3, <1>5 DEF Local, Staged, Validated, Analyses
<1>8. Covered(t, tx[t])
  BY <1>3 DEF Local
<1>9. Covered(t, y)
  BY <1>1, <1>3, <1>4, <1>5, <1>8 DEF Covered, Analyses
<1>10. Follows(t, y)
  <2>1. tx[t].version > 0 => Wants(t, "finding", "write") \in locks
    BY <1>1, <1>8 DEF Covered
  <2>2. Follows(t, tx[t]) /\ tx[t].version \in Nat
    BY <1>2, <1>3 DEF Local, States
  <2> QED BY <1>1, <1>2, <1>5, <2>1, <2>2 DEF Follows, VersionTaken
<1> QED BY <1>1, <1>6, <1>7, <1>9, <1>10, Advance DEF Local

LEMMA ValidateKeeps ==
  ASSUME IInv, NEW t \in Requests, Validate(t)
  PROVE  IInv'
<1>1. PICK d \in Decisions, noted \in BOOLEAN, matches \in BOOLEAN :
        IF provable /\ ~(SupportedBy(matches) /\ noted)
        THEN Abort(t)
        ELSE /\ tx' = [tx EXCEPT ![t].pc     = "commit",
                                 ![t].seen   = status,
                                 ![t].status = d,
                                 ![t].judges = IF provable THEN finding.version ELSE 0]
             /\ UNCHANGED <<provable, rows, locks>>
  BY DEF Validate
<1>2. CASE provable /\ ~(SupportedBy(matches) /\ noted)
  BY <1>1, <1>2, AbortKeeps
<1>3. CASE ~(provable /\ ~(SupportedBy(matches) /\ noted))
  <2> DEFINE judges == IF provable THEN finding.version ELSE 0
             y == [tx[t] EXCEPT !.pc = "commit", !.seen = status, !.status = d, !.judges = judges]
  <2>1. /\ tx[t] \in States /\ tx[t].pc = "validate" /\ tx[t].want = {} /\ judges \in Nat
        /\ status \in Statuses \cup {"none"} /\ d \in Statuses
    BY DEF Validate, At, IInv, TypeOK, Statuses
  <2> HIDE DEF judges
  <2>2. tx' = [tx EXCEPT ![t] = y] /\ y \in States
    BY ZenonT(40), <1>1, <1>3, <2>1 DEF IInv, TypeOK, States, judges
  <2>3. /\ y.pc = "commit" /\ y.kind = tx[t].kind /\ y.want = {} /\ y.sets = tx[t].sets
        /\ y.version = tx[t].version /\ y.judges = judges /\ y.seen = status
    BY <2>1 DEF States
  <2> HIDE DEF y
  <2>4. Local(t, tx[t])
    BY DEF IInv
  <2>5. tx[t].kind \notin Analyses \cup {"none", "transition"} /\ tx[t].version = 0
    BY <2>1, <2>4 DEF Local, Staged
  <2>6. Staged(y) /\ Follows(t, y) /\ Covered(t, y)
    BY <2>1, <2>3, <2>4, <2>5 DEF Local, Staged, Follows, Covered
  <2>7. Validated(y)
    BY <1>3, <2>3 DEF Validated, SupportedBy, judges
  <2> QED BY <1>1, <1>3, <2>2, <2>6, <2>7, Advance DEF Local
<1> QED BY <1>2, <1>3

LEMMA LinkJudgmentKeeps ==
  ASSUME IInv, NEW t \in Requests, LinkJudgment(t)
  PROVE  IInv'
<1>1. PICK matches \in BOOLEAN :
        tx' = [tx EXCEPT ![t].pc = "commit",
                         ![t].judges = IF SupportedBy(matches) THEN finding.version ELSE 0]
  BY DEF LinkJudgment
<1> DEFINE judges == IF SupportedBy(matches) THEN finding.version ELSE 0
           y == [tx[t] EXCEPT !.pc = "commit", !.judges = judges]
<1>2. /\ tx[t] \in States /\ tx[t].pc = "link" /\ tx[t].want = {} /\ judges \in Nat
      /\ UNCHANGED <<provable, rows, locks>>
  BY DEF LinkJudgment, At, IInv, TypeOK
<1> HIDE DEF judges
<1>3. tx' = [tx EXCEPT ![t] = y] /\ y \in States
  BY ZenonT(40), <1>1, <1>2 DEF IInv, TypeOK, States, judges
<1>4. /\ y.pc = "commit" /\ y.kind = tx[t].kind /\ y.want = {} /\ y.sets = tx[t].sets
      /\ y.version = tx[t].version
  BY <1>2 DEF States
<1> HIDE DEF y
<1>5. Local(t, tx[t])
  BY DEF IInv
<1>6. tx[t].kind \notin Analyses \cup {"none", "review"} /\ tx[t].version = 0
  BY <1>2, <1>5 DEF Local, Staged
<1>7. Local(t, y)
  BY <1>2, <1>4, <1>5, <1>6 DEF Local, Staged, Follows, Covered, Validated
<1> QED BY <1>2, <1>3, <1>7, Advance
-----------------------------------------------------------------------------
(* The commits.                                                             *)

(* What another request holds is not held in a conflicting mode.            *)
LEMMA Apart ==
  ASSUME IInv, NEW t \in Requests, NEW u \in Requests \ {t}, NEW row, NEW m, NEW n,
         Wants(t, row, m) \in locks, Wants(u, row, n) \in locks
  PROVE  ~Conflicting(m, n)
BY DEF IInv, Exclusive, Wants

LEMMA CommitAnalysisKeeps ==
  ASSUME IInv, NEW t \in Requests, CommitAnalysis(t)
  PROVE  IInv'
<1> DEFINE x == tx[t]
<1>1. /\ x \in States /\ x.pc = "commit" /\ x.want = {} /\ x.kind \in Analyses
      /\ Release(t) /\ UNCHANGED provable
  BY DEF CommitAnalysis, At, IInv, TypeOK
<1>2. Local(t, x)
  BY DEF IInv
<1>3. tx'[t] = Idle /\ \A u \in Requests \ {t} : tx'[u] = tx[u]
  BY <1>1 DEF Release, IInv, TypeOK
<1>4. TypeOK'
  <2>1. content' \in Contents
    BY <1>1 DEF CommitAnalysis, IInv, TypeOK, Contents, States
  <2>2. status' \in Statuses \cup {"none"} /\ amount' \in Amounts
    BY <1>1 DEF CommitAnalysis, IInv, TypeOK, Contents, States
  <2>3. chainStatus' \in {"clear", "review"}
    BY DEF CommitAnalysis, ChainStatus, IInv, TypeOK
  <2>4. finding' \in [version : Nat, line : 0..MaxLines]
    BY <1>1, CasesAssumption DEF CommitAnalysis, IInv, TypeOK, Contents, States, CasesAssumption
  <2>5. tx' \in [Requests -> States] /\ locks' \subseteq [by : Requests, row : Rows, mode : Modes]
    BY <1>1, IdleIsAState, CasesAssumption DEF Release, IInv, TypeOK
  <2> QED BY <1>1, <2>1, <2>2, <2>3, <2>4, <2>5 DEF IInv, TypeOK
<1>5. ASSUME NEW u \in Requests \ {t} PROVE Validated(tx[u])'
  <2> SUFFICES ASSUME tx[u].kind = "review", tx[u].pc = "commit", provable
               PROVE  Validated(tx[u])'
    BY <1>1, <1>3 DEF Validated
  <2>1. Local(u, tx[u]) /\ tx[u].want = {}
    BY DEF IInv, Local, Validated
  <2>2. Wants(u, "case", "update") \in locks /\ Wants(u, "docs", "update") \in locks
    BY <2>1 DEF Local, Covered
  <2>3. \A m : Wants(t, "case", m) \notin locks /\ Wants(t, "docs", m) \notin locks
    BY <2>2, Apart DEF Conflicting
  <2>4. x.kind = "reanalyse" /\ x.sets = {} /\ ~(x.version > 0)
    BY <1>1, <1>2, <2>3 DEF Local, Covered, Analyses
  <2>5. content' = content /\ status' = status /\ amount' = amount /\ finding' = finding
    BY <2>4 DEF CommitAnalysis
  <2> QED BY <1>3, <2>1, <2>5, <1>1 DEF Local, Validated, Direct
<1>6. ASSUME NEW u \in Requests \ {t} PROVE Follows(u, tx[u])'
  <2> SUFFICES ASSUME tx[u].version > 0
               PROVE  Follows(u, tx[u])'
    BY <1>3 DEF Follows
  <2>1. Local(u, tx[u]) /\ tx[u] \in States /\ finding.version \in Nat
    BY DEF IInv, TypeOK
  <2>2. Wants(u, "finding", "write") \in locks => Wants(u, "finding", "write") \in locks'
    BY <1>1 DEF Release, Wants
  <2>3. CASE ~(x.version > 0)
    <3>1. finding' = finding
      BY <2>3 DEF CommitAnalysis
    <3> QED BY <3>1, <2>1, <2>2, <1>3 DEF Local, Follows
  <2>4. CASE x.version > 0
    <3>1. Wants(t, "finding", "write") \in locks /\ finding.version = x.version - 1
      BY <1>1, <1>2, <2>4 DEF Local, Follows
    <3>2. Wants(u, "finding", "write") \notin locks
      BY <3>1, Apart DEF Conflicting
    <3>3. tx[u].pc # "commit"
      BY <3>2, <2>1 DEF Local, Follows
    <3>4. finding'.version = finding.version + 1
      BY <1>1, <2>1, <2>4, <3>1 DEF CommitAnalysis, States
    <3>5. /\ finding'.version >= tx[u].version - 1
          /\ finding'.version # tx[u].version - 1
      BY <3>4, <2>1 DEF Local, Follows, States
    <3> QED BY <3>3, <3>5, <1>3 DEF Follows
  <2> QED BY <2>3, <2>4
<1> QED BY <1>1, <1>4, <1>5, <1>6, ReleaseKeeps

LEMMA CommitDecisionKeeps ==
  ASSUME IInv, NEW t \in Requests, CommitDecision(t)
  PROVE  IInv'
<1>1. /\ tx[t] \in States /\ tx[t].pc = "commit" /\ tx[t].want = {}
      /\ tx[t].kind \in {"review", "transition"}
      /\ Release(t) /\ UNCHANGED <<provable, content, amount, chainStatus, finding>>
  BY DEF CommitDecision, At, IInv, TypeOK
<1>2. Local(t, tx[t])
  BY DEF IInv
<1>3. tx'[t] = Idle /\ \A u \in Requests \ {t} : tx'[u] = tx[u]
  BY <1>1 DEF Release, IInv, TypeOK
<1>4. TypeOK'
  <2>1. status' \in Statuses \cup {"none"}
    BY <1>1 DEF CommitDecision, IInv, TypeOK, States
  <2>2. tx' \in [Requests -> States] /\ locks' \subseteq [by : Requests, row : Rows, mode : Modes]
    BY <1>1, IdleIsAState, CasesAssumption DEF Release, IInv, TypeOK
  <2> QED BY <1>1, <2>1, <2>2 DEF IInv, TypeOK
<1>5. ASSUME NEW u \in Requests \ {t} PROVE Validated(tx[u])'
  <2> SUFFICES ASSUME tx[u].kind = "review", tx[u].pc = "commit", provable
               PROVE  FALSE
    BY <1>1, <1>3 DEF Validated
  <2>1. Local(u, tx[u]) /\ tx[u].want = {}
    BY DEF IInv, Local, Validated
  <2>2. Wants(u, "case", "update") \in locks
    BY <2>1 DEF Local, Covered
  <2>3. \E m : Wants(t, "case", m) \in locks
    BY <1>1, <1>2 DEF Local, Covered
  <2> QED BY <2>2, <2>3, Apart DEF Conflicting
<1>6. ASSUME NEW u \in Requests \ {t} PROVE Follows(u, tx[u])'
  <2>1. Follows(u, tx[u])
    BY DEF IInv, Local
  <2>2. Wants(u, "finding", "write") \in locks => Wants(u, "finding", "write") \in locks'
    BY <1>1 DEF Release, Wants
  <2> QED BY <2>1, <2>2, <1>1, <1>3 DEF Follows
<1> QED BY <1>1, <1>4, <1>5, <1>6, ReleaseKeeps
-----------------------------------------------------------------------------
LEMMA Initially == Init => IInv
<1> SUFFICES ASSUME Init PROVE IInv
  OBVIOUS
<1>1. tx = [t \in Requests |-> Idle] /\ Idle \in States
  BY IdleIsAState, CasesAssumption DEF Init
<1>2. TypeOK
  BY <1>1, CasesAssumption DEF Init, TypeOK, CasesAssumption, Contents, Statuses, Undecided
<1>3. Exclusive
  BY DEF Init, Exclusive
<1>4. ASSUME NEW t \in Requests PROVE Local(t, tx[t])
  BY <1>1 DEF Idle, Local, Staged, Covered, Validated, Follows, Analyses
<1> QED BY <1>2, <1>3, <1>4 DEF IInv

LEMMA NextKeeps ==
  ASSUME IInv, [Next]_vars
  PROVE  IInv'
<1>1. ASSUME NEW t \in Requests, Start(t) \/ Acquire(t) \/ Proceed(t)
      PROVE  IInv'
  <2>1. CASE Start(t)          BY <2>1, StartKeeps, CasesAssumption
  <2>2. CASE Acquire(t)        BY <2>2, AcquireKeeps
  <2>3. CASE Evaluate(t)       BY <2>3, EvaluateKeeps
  <2>4. CASE RecordFinding(t)  BY <2>4, RecordFindingKeeps
  <2>5. CASE Summarise(t)      BY <2>5, SummariseKeeps
  <2>6. CASE Refused(t)        BY <2>6, AbortKeeps DEF Refused
  <2>7. CASE CommitAnalysis(t) BY <2>7, CommitAnalysisKeeps
  <2>8. CASE Validate(t)       BY <2>8, ValidateKeeps
  <2>9. CASE LinkJudgment(t)   BY <2>9, LinkJudgmentKeeps
  <2>10. CASE CommitDecision(t) BY <2>10, CommitDecisionKeeps
  <2>11. CASE DeadlockVictim(t) BY <2>11, AbortKeeps DEF DeadlockVictim
  <2> QED BY <1>1, <2>1, <2>2, <2>3, <2>4, <2>5, <2>6, <2>7, <2>8, <2>9, <2>10, <2>11 DEF Proceed
<1>2. CASE UNCHANGED vars
  <2>1. UNCHANGED <<provable, content, status, amount, chainStatus, finding, locks, tx>>
    BY <1>2 DEF vars, rows
  <2> QED BY <2>1 DEF IInv, TypeOK, Exclusive, Local, Staged, Covered, Validated, Follows, Direct
<1> QED BY <1>1, <1>2 DEF Next

(* The reachable states of any number of requests are well-formed, and the  *)
(* row locks exclude each other: what the theorems below rest on.           *)
THEOREM CasesInvariant == Spec => []IInv
BY Initially, NextKeeps, PTL DEF Spec

(* Every variable of the case and its requests keeps its type.              *)
THEOREM TypeCorrect == Spec => []TypeOK
<1>1. IInv => TypeOK
  BY DEF IInv
<1> QED BY <1>1, CasesInvariant, PTL

(* A review of a provable case commits only while the support and the       *)
(* status it has validated are the current ones.                            *)
THEOREM ReviewsRestOnSupport == Spec => ReviewsRestOnCurrentSupport
<1>1. IInv => \A t \in Requests : Concludes(t, "review") /\ provable =>
                /\ tx[t].judges = finding.version /\ finding.line = content.line
                /\ Direct(content) /\ amount = content.value
                /\ tx[t].seen = status
  BY DEF IInv, Local, Validated, Concludes
<1> QED BY <1>1, CasesInvariant, PTL DEF ReviewsRestOnCurrentSupport

(* A recorded finding has the version after the latest one and other        *)
(* support than it.                                                         *)
THEOREM FindingsAreVersioned == Spec => VersionsAdvance
<1>1. IInv => \A t \in Requests : (\E k \in Analyses : Concludes(t, k)) /\ tx[t].version > 0 =>
                /\ tx[t].version = finding.version + 1
                /\ finding.line # tx[t].content.line
  <2> SUFFICES ASSUME IInv, NEW t \in Requests, tx[t].pc = "commit", tx[t].version > 0
               PROVE  /\ tx[t].version = finding.version + 1
                      /\ finding.line # tx[t].content.line
    BY DEF Concludes
  <2>1. Follows(t, tx[t]) /\ tx[t] \in States /\ finding.version \in Nat
    BY DEF IInv, TypeOK, Local
  <2> QED BY <2>1 DEF Follows, States
<1> QED BY <1>1, CasesInvariant, PTL DEF VersionsAdvance
=============================================================================
