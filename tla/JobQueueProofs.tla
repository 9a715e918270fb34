--------------------------- MODULE JobQueueProofs ---------------------------
(***************************************************************************)
(* Theorems about JobQueue for every set of jobs, workers and requests and *)
(* every limit on attempts.                                                *)
(***************************************************************************)
EXTENDS JobQueue, FiniteSetTheorems, TLAPS

(* What a request in progress carries: a key before the insert, a job while *)
(* it cancels.                                                              *)
ClerkArg ==
  \A c \in Clerks : /\ cpc[c] = "insert" => carg[c] \in Keys \cup {NoKey}
                    /\ cpc[c] \in {"cancel", "unlinked"} => carg[c] \in Jobs

(* A worker past its poll has a job.                                        *)
WorkerJob ==
  \A w \in Workers : wpc[w] \notin {"idle", "recovering"} <=> wjob[w] \in Jobs

(* Stale rows are remembered between the two halves of a poll only.         *)
PollMemory == \A w \in Workers : wpc[w] # "recovering" => wstale[w] = NoStale

Typed == TypeOK /\ ClerkArg /\ WorkerJob /\ PollMemory

-----------------------------------------------------------------------------
(* Initially everything has its type.                                       *)
LEMMA InitTyped == Init => Typed
  BY JobsAssumption, KeysAssumption
  DEF Init, Typed, TypeOK, ClerkArg, WorkerJob, PollMemory, NoStale, NoRead, Statuses, Live,
    Terminal, Files, Events

(* Requests keep the types.                                                 *)
LEMMA ClerkTyped ==
  ASSUME Typed, weather' = weather, NEW c \in Clerks, ClerkStep(c)
  PROVE  Typed'
<1> USE KeysAssumption DEF Typed, TypeOK, ClerkArg, WorkerJob, PollMemory, rowVars, outVars,
      wVars, cVars,
        Statuses, Live, Terminal, Files, Events
<1>1. CASE \E k \in Keys \cup {NoKey} : EnqueueLookup(c, k)
  BY <1>1 DEF EnqueueLookup
<1>2. CASE \E j \in Jobs : EnqueueInsert(c, j)
  BY <1>2 DEF EnqueueInsert, InsertRow
<1>3. CASE EnqueueConflict(c)
  BY <1>3 DEF EnqueueConflict
<1>4. CASE \E j \in Jobs : CancelRead(c, j)
  BY <1>4 DEF CancelRead
<1>5. CASE CancelUnlink(c)
  BY <1>5 DEF CancelUnlink
<1>6. CASE CancelCommit(c)
  BY <1>6 DEF CancelCommit
<1>7. CASE CancelAborts(c)
  BY <1>7 DEF CancelAborts
<1>8. CASE \E old, new \in Jobs : Retry(c, old, new)
  BY <1>8 DEF Retry, InsertRow
<1>9. QED
  BY <1>1, <1>2, <1>3, <1>4, <1>5, <1>6, <1>7, <1>8 DEF ClerkStep, EnqueueFlush

(* Workers keep the types.                                                  *)
LEMMA WorkerTyped ==
  ASSUME Typed, weather' = weather, NEW w \in Workers, WorkerStep(w)
  PROVE  Typed'
<1> USE JobsAssumption, WorkersAssumption DEF Typed, TypeOK, ClerkArg, WorkerJob, PollMemory,
        rowVars, outVars, wVars, cVars, Statuses, Live, Terminal, Files, Events
<1>1. CASE ReadStale(w)
  BY <1>1 DEF ReadStale
<1>2. ASSUME NEW j \in Jobs, Claim(w, j) PROVE Typed'
  <2>1. NoStale \in [requeue : SUBSET Jobs, expire : SUBSET Jobs]
    BY DEF NoStale
  <2>2. TypeOK'
    BY <1>2, <2>1 DEF Claim, StatusAfterRecovery
  <2>3. PollMemory'
    BY <1>2 DEF Claim
  <2>4. QED
    BY <1>2, <2>2, <2>3 DEF Claim
<1>3. CASE ClaimNothing(w)
  <2>1. NoStale \in [requeue : SUBSET Jobs, expire : SUBSET Jobs]
    BY DEF NoStale
  <2>2. TypeOK'
    BY <1>3, <2>1 DEF ClaimNothing, StatusAfterRecovery
  <2>3. PollMemory'
    BY <1>3 DEF ClaimNothing
  <2>4. QED
    BY <1>3, <2>2, <2>3 DEF ClaimNothing
<1>4. CASE DropClaim(w)
  BY <1>4 DEF DropClaim, GoIdle
<1>5. CASE StartExecution(w)
  BY <1>5 DEF StartExecution
<1>6. CASE HandlerFlush(w)
  BY <1>6 DEF HandlerFlush
<1>7. CASE HandlerRaises(w)
  BY <1>7 DEF HandlerRaises
<1>8. CASE FinishHandler(w)
  BY <1>8 DEF FinishHandler
<1>9. CASE CommitCompletion(w)
  <2>1. wjob[w] \in Jobs
    BY <1>9 DEF CommitCompletion
  <2>2. /\ status' \in [Jobs -> Statuses]
        /\ lockedBy' \in [Jobs -> Workers \cup {NoWorker}]
        /\ leaseOver' \in [Jobs -> BOOLEAN]
    BY <1>9 DEF CommitCompletion
  <2>3. journal' \in [Jobs -> SUBSET Events]
    <3>1. "job.completed" \in Events
      OBVIOUS
    <3>2. journal[wjob[w]] \cup {"job.completed"} \in SUBSET Events
      BY <2>1, <3>1, Zenon
    <3>3. QED
      BY <1>9, <3>2 DEF CommitCompletion
  <2>4. effects' \in [Jobs -> Nat]
    BY <1>9, <2>1 DEF CommitCompletion
  <2>5. QED
    BY <1>9, <2>2, <2>3, <2>4 DEF CommitCompletion, GoIdle
<1>10. CASE FailReread(w)
  <2> DEFINE j == wjob[w]
             moved == MovesToRejected(j)
             read == [status |-> status[j], retry |-> MayRetry(attempts[j]),
                      locked |-> lockedBy[j] # NoWorker, moved |-> moved]
  <2>1. j \in Jobs
    BY <1>10 DEF FailReread
  <2>2. read \in [status : Statuses, retry : BOOLEAN, locked : BOOLEAN, moved : BOOLEAN]
    <3>1. MayRetry(attempts[j]) \in BOOLEAN /\ moved \in BOOLEAN
      BY DEF MayRetry, MovesToRejected
    <3>2. (lockedBy[j] # NoWorker) \in BOOLEAN
      OBVIOUS
    <3>3. QED
      BY <2>1, <3>1, <3>2
  <2>3. wread' = [wread EXCEPT ![w] = read]
    BY <1>10 DEF FailReread
  <2>4. wread' \in [Workers -> [status : Statuses, retry : BOOLEAN,
                                locked : BOOLEAN, moved : BOOLEAN]]
    BY <2>2, <2>3
  <2>5. file' \in [Jobs -> Files]
    BY <1>10 DEF FailReread
  <2>6. QED
    BY <1>10, <2>4, <2>5 DEF FailReread
<1>11. CASE FailCommit(w)
  <2>1. wjob[w] \in Jobs
    BY <1>11 DEF FailCommit
  <2>2. status' \in [Jobs -> Statuses]
    BY <1>11 DEF FailCommit, WrittenStatus
  <2>3. /\ lockedBy' \in [Jobs -> Workers \cup {NoWorker}]
        /\ leaseOver' \in [Jobs -> BOOLEAN]
    BY <1>11 DEF FailCommit
  <2>4. /\ ready' \in [Jobs -> BOOLEAN]
        /\ rejectedPath' \in [Jobs -> BOOLEAN]
    BY <1>11 DEF FailCommit
  <2>5. journal' \in [Jobs -> SUBSET Events]
    BY <1>11 DEF FailCommit
  <2>6. wread' \in [Workers -> [status : Statuses, retry : BOOLEAN,
                                locked : BOOLEAN, moved : BOOLEAN]]
    BY <1>11 DEF FailCommit, NoRead
  <2>7. QED
    BY <1>11, <2>2, <2>3, <2>4, <2>5, <2>6 DEF FailCommit, GoIdle
<1>12. QED
  BY <1>1, <1>2, <1>3, <1>4, <1>5, <1>6, <1>7, <1>8, <1>9, <1>10, <1>11 DEF WorkerStep, FinishPoll

(* The passing of time, crashes and maintenance keep the types.             *)
LEMMA EnvironmentTyped ==
  ASSUME Typed, weather' = weather, Environment
  PROVE  Typed'
<1> USE JobsAssumption, WorkersAssumption DEF Typed, TypeOK, ClerkArg, WorkerJob, PollMemory,
        rowVars, outVars, wVars, cVars, Statuses, Live, Terminal, Files, Events
<1>1. CASE \E w \in Workers : Crash(w)
  <2>1. NoStale \in [requeue : SUBSET Jobs, expire : SUBSET Jobs]
    BY DEF NoStale
  <2>2. NoRead \in [status : Statuses, retry : BOOLEAN, locked : BOOLEAN, moved : BOOLEAN]
    BY DEF NoRead
  <2>3. QED
    BY <1>1, <2>1, <2>2 DEF Crash, GoIdle
<1>2. CASE \E j \in Jobs : LeaseExpires(j)
  BY <1>2 DEF LeaseExpires
<1>3. CASE \E j \in Jobs : BackoffElapses(j)
  BY <1>3 DEF BackoffElapses
<1>4. CASE \E j \in Jobs : PurgeFinished(j)
  BY <1>4 DEF PurgeFinished
<1>5. CASE \E j \in Jobs : SweepQuarantine(j)
  BY <1>5 DEF SweepQuarantine
<1>6. QED
  BY <1>1, <1>2, <1>3, <1>4, <1>5 DEF Environment

LEMMA StutterTyped ==
  ASSUME Typed, UNCHANGED vars
  PROVE  Typed'
BY DEF Typed, TypeOK, ClerkArg, WorkerJob, PollMemory, vars, rowVars, outVars, wVars, cVars

LEMMA NextTyped ==
  ASSUME Typed, [Next]_vars
  PROVE  Typed'
BY ClerkTyped, WorkerTyped, EnvironmentTyped, StutterTyped DEF Next

(* Every variable keeps its type in every behaviour.                        *)
THEOREM TypeCorrect == Spec => []TypeOK
<1>1. Init => Typed
  BY InitTyped
<1>2. Typed /\ [Next]_vars => Typed'
  BY NextTyped
<1>3. Typed => TypeOK
  BY DEF Typed
<1>4. QED
  BY <1>1, <1>2, <1>3, PTL DEF Spec

-----------------------------------------------------------------------------
(* IngestedOnce.  The staged file is a token: it exists once per upload and *)
(* is consumed before the work is committed, so the work cannot be          *)
(* committed a second time.                                                 *)

Unlinked(w, j) == wpc[w] = "unlinked" /\ wjob[w] = j

TokenOf(j) ==
  /\ status[j] = "absent" => /\ effects[j] = 0
                             /\ \A w \in Workers : wjob[w] # j /\ j \notin Recovered(w)
  /\ file[j] = "quarantine" => effects[j] = 0 /\ \A w \in Workers : ~Unlinked(w, j)
  /\ \A v, w \in Workers : Unlinked(v, j) /\ Unlinked(w, j) => v = w
  /\ (\E w \in Workers : Unlinked(w, j)) => effects[j] = 0
  /\ effects[j] <= 1

Token == \A j \in Ingest : TokenOf(j)

LEMMA InitToken == Init => Token
BY JobsAssumption DEF Init, Token, TokenOf, Unlinked, Recovered, Requeued, Expired, NoStale

(* A step that commits no work, unlinks nothing and brings no file back     *)
(* keeps the token of a job.                                                *)
LEMMA TokenKept ==
  ASSUME Typed, NEW j \in Ingest, TokenOf(j),
         status'[j] = "absent" =>
           /\ status[j] = "absent"
           /\ \A w \in Workers : wjob'[w] # j /\ j \notin Recovered(w)',
         file'[j] = "quarantine" => file[j] = "quarantine",
         effects'[j] = effects[j],
         \A w \in Workers : Unlinked(w, j)' => Unlinked(w, j)
  PROVE  TokenOf(j)'
BY DEF TokenOf

LEMMA ClerkToken ==
  ASSUME Typed, Token, NEW c \in Clerks, ClerkStep(c)
  PROVE  Token'
<1> SUFFICES ASSUME NEW j \in Ingest
             PROVE  TokenOf(j)'
  BY DEF Token
<1>0. TokenOf(j) /\ j \in Jobs
  BY JobsAssumption DEF Token
<1> USE <1>0 DEF Typed, TypeOK, Unlinked, Recovered, Requeued, Expired,
        rowVars, outVars, wVars, cVars
<1>1. CASE \E k \in Keys \cup {NoKey} : EnqueueLookup(c, k)
  BY <1>1, TokenKept DEF EnqueueLookup, TokenOf
<1>2. CASE \E k \in Jobs : EnqueueInsert(c, k)
  <2>1. PICK k \in Jobs : EnqueueInsert(c, k)
    BY <1>2
  <2>2. CASE k = j
    BY <2>1, <2>2 DEF EnqueueInsert, InsertRow, TokenOf
  <2>3. CASE k # j
    BY <2>1, <2>3, TokenKept DEF EnqueueInsert, InsertRow, TokenOf
  <2>4. QED
    BY <2>2, <2>3
<1>3. CASE EnqueueConflict(c)
  BY <1>3, TokenKept DEF EnqueueConflict, TokenOf
<1>4. CASE \E k \in Jobs : CancelRead(c, k)
  BY <1>4, TokenKept DEF CancelRead, TokenOf
<1>5. CASE CancelUnlink(c)
  BY <1>5, TokenKept DEF CancelUnlink, TokenOf
<1>6. CASE CancelCommit(c)
  BY <1>6, TokenKept DEF CancelCommit, TokenOf
<1>7. CASE CancelAborts(c)
  BY <1>7, TokenKept DEF CancelAborts, TokenOf
<1>8. CASE \E old, new \in Jobs : Retry(c, old, new)
  <2>1. PICK old \in Jobs, new \in Jobs : Retry(c, old, new)
    BY <1>8
  <2>2. CASE new = j
    BY <2>1, <2>2 DEF Retry, InsertRow, TokenOf
  <2>3. CASE new # j
    BY <2>1, <2>3, TokenKept DEF Retry, InsertRow, TokenOf
  <2>4. QED
    BY <2>2, <2>3
<1>9. QED
  BY <1>1, <1>2, <1>3, <1>4, <1>5, <1>6, <1>7, <1>8 DEF ClerkStep, EnqueueFlush

LEMMA WorkerToken ==
  ASSUME Typed, Token, NEW w \in Workers, WorkerStep(w)
  PROVE  Token'
<1> SUFFICES ASSUME NEW j \in Ingest
             PROVE  TokenOf(j)'
  BY DEF Token
<1>0. TokenOf(j) /\ j \in Jobs
  BY JobsAssumption DEF Token
<1> USE <1>0, JobsAssumption DEF Typed, TypeOK, Unlinked, Recovered, Requeued, Expired,
        rowVars, outVars, wVars, cVars
<1>1. CASE ReadStale(w)
  BY <1>1, TokenKept DEF ReadStale, StaleRow, TokenOf
<1>2. ASSUME NEW k \in Jobs, Claim(w, k) PROVE TokenOf(j)'
  <2>1. UNCHANGED <<file, effects>> /\ \A v \in Workers : Unlinked(v, j)' => Unlinked(v, j)
    BY <1>2 DEF Claim
  <2>2. status'[j] = "absent" => status[j] = "absent" /\ j # k
    BY <1>2 DEF Claim, StatusAfterRecovery
  <2>3. status'[j] = "absent" =>
          \A v \in Workers : wjob'[v] # j /\ j \notin Recovered(v)'
    BY <1>2, <2>2 DEF Claim, NoStale, TokenOf
  <2>4. QED
    BY <2>1, <2>2, <2>3, TokenKept
<1>3. CASE ClaimNothing(w)
  BY <1>3, TokenKept DEF ClaimNothing, StatusAfterRecovery, NoStale, TokenOf
<1>4. CASE DropClaim(w)
  BY <1>4, TokenKept DEF DropClaim, GoIdle, TokenOf
<1>5. CASE StartExecution(w)
  BY <1>5, TokenKept DEF StartExecution, TokenOf
<1>6. CASE HandlerFlush(w)
  BY <1>6, TokenKept DEF HandlerFlush, TokenOf
<1>7. CASE HandlerRaises(w)
  BY <1>7, TokenKept DEF HandlerRaises, TokenOf
<1>8. CASE FinishHandler(w)
  <2>1. CASE wjob[w] = j
    BY <1>8, <2>1 DEF FinishHandler, HasInput, TokenOf
  <2>2. CASE wjob[w] # j
    BY <1>8, <2>2, TokenKept DEF FinishHandler, TokenOf
  <2>3. QED
    BY <2>1, <2>2
<1>9. CASE CommitCompletion(w)
  <2>1. CASE wjob[w] = j
    BY <1>9, <2>1 DEF CommitCompletion, GoIdle, TokenOf
  <2>2. CASE wjob[w] # j
    BY <1>9, <2>2, TokenKept DEF CommitCompletion, GoIdle, TokenOf
  <2>3. QED
    BY <2>1, <2>2
<1>10. CASE FailReread(w)
  BY <1>10, TokenKept DEF FailReread, TokenOf
<1>11. CASE FailCommit(w)
  BY <1>11, TokenKept DEF FailCommit, GoIdle, WrittenStatus, TokenOf
<1>12. QED
  BY <1>1, <1>2, <1>3, <1>4, <1>5, <1>6, <1>7, <1>8, <1>9, <1>10, <1>11 DEF WorkerStep, FinishPoll

LEMMA EnvironmentToken ==
  ASSUME Typed, Token, Environment
  PROVE  Token'
<1> SUFFICES ASSUME NEW j \in Ingest
             PROVE  TokenOf(j)'
  BY DEF Token
<1>0. TokenOf(j) /\ j \in Jobs
  BY JobsAssumption DEF Token
<1> USE <1>0, JobsAssumption DEF Typed, TypeOK, Unlinked, Recovered, Requeued, Expired,
        rowVars, outVars, wVars, cVars
<1>1. CASE \E w \in Workers : Crash(w)
  BY <1>1, TokenKept DEF Crash, GoIdle, NoStale, TokenOf
<1>2. CASE \E k \in Jobs : LeaseExpires(k)
  BY <1>2, TokenKept DEF LeaseExpires, TokenOf
<1>3. CASE \E k \in Jobs : BackoffElapses(k)
  BY <1>3, TokenKept DEF BackoffElapses, TokenOf
<1>4. CASE \E k \in Jobs : PurgeFinished(k)
  BY <1>4, TokenKept DEF PurgeFinished, TokenOf
<1>5. CASE \E k \in Jobs : SweepQuarantine(k)
  BY <1>5, TokenKept DEF SweepQuarantine, TokenOf
<1>6. QED
  BY <1>1, <1>2, <1>3, <1>4, <1>5 DEF Environment

LEMMA StutterToken ==
  ASSUME Token, UNCHANGED vars
  PROVE  Token'
BY DEF Token, TokenOf, Unlinked, Recovered, Requeued, Expired, vars, rowVars, outVars, wVars

(* The work of an upload is committed at most once, whatever the workers,   *)
(* leases, crashes and cancellations do.                                    *)
THEOREM IngestedAtMostOnce == Spec => []IngestedOnce
<1>1. Init => Typed /\ Token
  BY InitTyped, InitToken
<1>2. Typed /\ Token /\ [Next]_vars => Typed' /\ Token'
  BY NextTyped, ClerkToken, WorkerToken, EnvironmentToken, StutterToken DEF Next
<1>3. Token => IngestedOnce
  BY DEF Token, TokenOf, IngestedOnce
<1>4. QED
  BY <1>1, <1>2, <1>3, PTL DEF Spec

-----------------------------------------------------------------------------
(* AttemptsBounded.  A worker is a debtor of a job when it may still put it *)
(* back in the queue on the strength of a row read earlier.  Nobody becomes *)
(* a debtor once the attempts are used up, and every debtor pays once.      *)

Debtor(w, j) ==
  \/ j \in Requeued(w)
  \/ wjob[w] = j /\ wpc[w] = "recording" /\ wread[w].retry

Debt(j)  == {w \in Workers : Debtor(w, j)}
Due(j)   == IF status[j] = "queued" THEN 1 ELSE 0

BudgetOf(j) ==
  attempts[j] >= MaxAttempts
    => attempts[j] + Cardinality(Debt(j)) + Due(j) <= MaxAttempts + Cardinality(Workers) - 1

FreshOf(j) == status[j] = "absent" => attempts[j] = 0 /\ \A w \in Workers : j \notin Recovered(w)

Budget == \A j \in Jobs : BudgetOf(j) /\ FreshOf(j)

LEMMA InitBudget == Init => Budget
BY LimitsAssumption DEF Init, Budget, BudgetOf, FreshOf, Recovered, Requeued, Expired, NoStale

LEMMA DebtFinite ==
  ASSUME NEW j \in Jobs
  PROVE  /\ IsFiniteSet(Debt(j)) /\ Cardinality(Debt(j)) \in Nat
         /\ Cardinality(Workers) \in Nat
BY WorkersAssumption, FS_Subset, FS_CardinalityType DEF Debt

(* With attempts left the bound says nothing.                               *)
LEMMA BudgetFree ==
  ASSUME Typed', NEW j \in Jobs, attempts'[j] < MaxAttempts
  PROVE  BudgetOf(j)'
BY LimitsAssumption DEF BudgetOf, Typed, TypeOK

(* A step that starts no attempt keeps the bound when it makes no new       *)
(* debtor and a job it puts in the queue is paid for by one.                *)
LEMMA BudgetKept ==
  ASSUME Typed, Typed', NEW j \in Jobs, BudgetOf(j),
         attempts'[j] = attempts[j],
         Debt(j)' \subseteq Debt(j),
         status'[j] = "queued" => status[j] = "queued" \/ Debt(j)' # Debt(j)
  PROVE  BudgetOf(j)'
<1>1. /\ Cardinality(Debt(j)) \in Nat /\ Cardinality(Debt(j)') \in Nat
      /\ Cardinality(Debt(j)') <= Cardinality(Debt(j))
  BY DebtFinite, FS_Subset, FS_CardinalityType
<1>2. Debt(j)' # Debt(j) => Cardinality(Debt(j)') + 1 <= Cardinality(Debt(j))
  <2> SUFFICES ASSUME Debt(j)' # Debt(j)
               PROVE  Cardinality(Debt(j)') + 1 <= Cardinality(Debt(j))
    OBVIOUS
  <2>1. PICK w \in Debt(j) : w \notin Debt(j)'
    OBVIOUS
  <2>2. /\ IsFiniteSet(Debt(j) \ {w})
        /\ Cardinality(Debt(j) \ {w}) = Cardinality(Debt(j)) - 1
    BY <2>1, DebtFinite, FS_RemoveElement
  <2>3. Debt(j)' \subseteq Debt(j) \ {w}
    BY <2>1
  <2>4. Cardinality(Debt(j)') <= Cardinality(Debt(j) \ {w})
    BY <2>2, <2>3, FS_Subset
  <2>5. QED
    BY <1>1, <2>2, <2>4
<1>3. Cardinality(Workers) \in Nat /\ attempts[j] \in Nat /\ MaxAttempts \in Nat
  BY DebtFinite, LimitsAssumption DEF Typed, TypeOK
<1>4. QED
  BY <1>1, <1>2, <1>3 DEF BudgetOf, Due

(* A claim uses up an attempt and the place in the queue or the debt it     *)
(* rests on.                                                                *)
LEMMA BudgetClaimed ==
  ASSUME Typed, Typed', NEW j \in Jobs, NEW w \in Workers, BudgetOf(j),
         attempts'[j] = attempts[j] + 1,
         status'[j] = "running",
         Debt(j)' \subseteq Debt(j) \ {w},
         status[j] = "queued" \/ w \in Debt(j)
  PROVE  BudgetOf(j)'
<1>1. /\ Cardinality(Debt(j)) \in Nat /\ Cardinality(Debt(j)') \in Nat
      /\ Cardinality(Workers) \in Nat /\ attempts[j] \in Nat /\ MaxAttempts \in Nat
  BY DebtFinite, FS_Subset, FS_CardinalityType, LimitsAssumption DEF Typed, TypeOK
<1>2. Cardinality(Debt(j)') <= Cardinality(Workers) - 1
  <2>1. Debt(j)' \subseteq Workers \ {w}
    BY DEF Debt
  <2>2. IsFiniteSet(Workers \ {w}) /\ Cardinality(Workers \ {w}) = Cardinality(Workers) - 1
    BY WorkersAssumption, FS_RemoveElement
  <2>3. QED
    BY <2>1, <2>2, FS_Subset
<1>3. Cardinality(Debt(j)') <= Cardinality(Debt(j))
  BY DebtFinite, FS_Subset
<1>4. w \in Debt(j) => Cardinality(Debt(j)') <= Cardinality(Debt(j)) - 1
  <2>1. w \in Debt(j) => /\ IsFiniteSet(Debt(j) \ {w})
                         /\ Cardinality(Debt(j) \ {w}) = Cardinality(Debt(j)) - 1
    BY DebtFinite, FS_RemoveElement
  <2>2. QED
    BY <2>1, FS_Subset
<1>5. QED
  BY <1>1, <1>2, <1>3, <1>4 DEF BudgetOf, Due

LEMMA ClerkBudget ==
  ASSUME Typed, Typed', Budget, NEW c \in Clerks, ClerkStep(c)
  PROVE  Budget'
<1> SUFFICES ASSUME NEW j \in Jobs
             PROVE  BudgetOf(j)' /\ FreshOf(j)'
  BY DEF Budget
<1>0. BudgetOf(j) /\ FreshOf(j)
  BY DEF Budget
<1>1. UNCHANGED <<attempts, wVars>>
  BY DEF ClerkStep, EnqueueFlush, EnqueueLookup, EnqueueInsert, EnqueueConflict, CancelRead,
    CancelUnlink,
         CancelCommit, CancelAborts, Retry, InsertRow, rowVars
<1>2. Debt(j)' = Debt(j) /\ \A w \in Workers : Recovered(w)' = Recovered(w)
  BY <1>1 DEF Debt, Debtor, Requeued, Expired, Recovered, wVars
<1>3. status'[j] = "absent" => status[j] = "absent"
  BY DEF ClerkStep, EnqueueFlush, EnqueueLookup, EnqueueInsert, EnqueueConflict, CancelRead,
    CancelUnlink,
         CancelCommit, CancelAborts, Retry, InsertRow, rowVars, Typed, TypeOK
<1>4. status'[j] = "queued" => status[j] \in {"queued", "absent"}
  BY DEF ClerkStep, EnqueueFlush, EnqueueLookup, EnqueueInsert, EnqueueConflict, CancelRead,
    CancelUnlink,
         CancelCommit, CancelAborts, Retry, InsertRow, rowVars, Typed, TypeOK
<1>5. FreshOf(j)'
  BY <1>0, <1>1, <1>2, <1>3 DEF FreshOf
<1>6. CASE status[j] = "absent"
  BY <1>0, <1>1, <1>6, BudgetFree, LimitsAssumption, <1>5 DEF FreshOf
<1>7. CASE status[j] # "absent"
  BY <1>0, <1>1, <1>2, <1>4, <1>5, <1>7, BudgetKept
<1>8. QED
  BY <1>6, <1>7

(* Recovering stale rows and claiming one of them.                          *)
LEMMA ClaimBudget ==
  ASSUME Typed, Typed', Budget, NEW w \in Workers, NEW k \in Jobs, Claim(w, k)
  PROVE  Budget'
<1> SUFFICES ASSUME NEW j \in Jobs
             PROVE  BudgetOf(j)' /\ FreshOf(j)'
  BY DEF Budget
<1>0. BudgetOf(j) /\ FreshOf(j)
  BY DEF Budget
<1> USE DEF Typed, TypeOK
<1>1. Debt(j)' \subseteq Debt(j) \ {w}
  BY DEF Claim, Debt, Debtor, Requeued, NoStale, cVars
<1>2. j \in Requeued(w) => w \in Debt(j)
  BY DEF Debt, Debtor
<1>3. /\ status' = [StatusAfterRecovery(w) EXCEPT ![k] = "running"]
      /\ attempts' = [attempts EXCEPT ![k] = @ + 1]
      /\ StatusAfterRecovery(w)[k] = "queued"
  BY DEF Claim, Claimable
<1>4. CASE j = k
  <2>1. status[j] = "queued" \/ j \in Requeued(w)
    BY <1>3, <1>4 DEF StatusAfterRecovery
  <2>2. attempts'[j] = attempts[j] + 1 /\ status'[j] = "running"
    BY <1>3, <1>4 DEF StatusAfterRecovery
  <2>3. BudgetOf(j)'
    BY <1>0, <1>1, <1>2, <2>1, <2>2, BudgetClaimed
  <2>4. QED
    BY <2>2, <2>3 DEF FreshOf
<1>5. CASE j # k
  <2>1. attempts'[j] = attempts[j] /\ status'[j] = StatusAfterRecovery(w)[j]
    BY <1>3, <1>5 DEF StatusAfterRecovery
  <2>2. status'[j] = "queued" => status[j] = "queued" \/ Debt(j)' # Debt(j)
    BY <1>1, <1>2, <2>1 DEF StatusAfterRecovery
  <2>3. BudgetOf(j)'
    BY <1>0, <1>1, <2>1, <2>2, BudgetKept
  <2>4. FreshOf(j)'
    BY <1>0, <2>1 DEF Claim, FreshOf, StatusAfterRecovery, Recovered, Requeued, Expired, NoStale
  <2>5. QED
    BY <2>3, <2>4
<1>6. QED
  BY <1>4, <1>5

LEMMA ClaimNothingBudget ==
  ASSUME Typed, Typed', Budget, NEW w \in Workers, ClaimNothing(w)
  PROVE  Budget'
<1> SUFFICES ASSUME NEW j \in Jobs
             PROVE  BudgetOf(j)' /\ FreshOf(j)'
  BY DEF Budget
<1>0. BudgetOf(j) /\ FreshOf(j)
  BY DEF Budget
<1> USE DEF Typed, TypeOK
<1>1. Debt(j)' \subseteq Debt(j) /\ (j \in Requeued(w) => w \in Debt(j) /\ w \notin Debt(j)')
  BY DEF ClaimNothing, Debt, Debtor, Requeued, NoStale, cVars
<1>2. attempts'[j] = attempts[j] /\ status'[j] = StatusAfterRecovery(w)[j]
  BY DEF ClaimNothing
<1>3. status'[j] = "queued" => status[j] = "queued" \/ Debt(j)' # Debt(j)
  BY <1>1, <1>2 DEF StatusAfterRecovery
<1>4. BudgetOf(j)'
  BY <1>0, <1>1, <1>2, <1>3, BudgetKept
<1>5. FreshOf(j)'
  BY <1>0, <1>2 DEF ClaimNothing, FreshOf, StatusAfterRecovery, Recovered, Requeued, Expired,
    NoStale
<1>6. QED
  BY <1>4, <1>5

(* A failure re-reads the row: the worker becomes a debtor only while       *)
(* attempts are left, and writing the outcome pays.                         *)
LEMMA FailureBudget ==
  ASSUME Typed, Typed', Budget, NEW w \in Workers, FailReread(w) \/ FailCommit(w)
  PROVE  Budget'
<1> SUFFICES ASSUME NEW j \in Jobs
             PROVE  BudgetOf(j)' /\ FreshOf(j)'
  BY DEF Budget
<1>0. BudgetOf(j) /\ FreshOf(j)
  BY DEF Budget
<1> USE DEF Typed, TypeOK
<1>1. attempts' = attempts /\ \A v \in Workers : Recovered(v)' = Recovered(v)
  BY DEF FailReread, FailCommit, rowVars, cVars, Recovered, Requeued, Expired
<1>2. CASE attempts[j] < MaxAttempts
  <2>1. BudgetOf(j)'
    BY <1>1, <1>2, BudgetFree
  <2>2. status'[j] = "absent" => status[j] = "absent"
    BY DEF FailReread, FailCommit, WrittenStatus, rowVars
  <2>3. QED
    BY <1>0, <1>1, <2>1, <2>2 DEF FreshOf
<1>3. CASE ~(attempts[j] < MaxAttempts) /\ FailReread(w)
  <2>1. status' = status
    BY <1>3 DEF FailReread, rowVars
  <2>2. Debt(j)' \subseteq Debt(j)
    BY <1>3 DEF FailReread, Debt, Debtor, Requeued, MayRetry
  <2>3. QED
    BY <1>0, <1>1, <2>1, <2>2, BudgetKept DEF FreshOf
<1>4. CASE ~(attempts[j] < MaxAttempts) /\ FailCommit(w)
  <2>1. Debt(j)' \subseteq Debt(j)
    BY <1>4 DEF FailCommit, GoIdle, NoRead, Debt, Debtor, Requeued
  <2>2. status'[j] = "queued" => status[j] = "queued" \/ (w \in Debt(j) /\ w \notin Debt(j)')
    <3>1. CASE wjob[w] = j
      <4>1. w \notin Debt(j)'
        BY <1>4 DEF FailCommit, GoIdle, NoRead, NoStale, PollMemory, Debt, Debtor, Requeued
      <4>2. status[j] = "queued" \/ wread[w].retry \/ status'[j] # "queued"
        BY <1>4, <3>1 DEF FailCommit, WrittenStatus
      <4>3. wread[w].retry => w \in Debt(j)
        BY <1>4, <3>1 DEF FailCommit, Debt, Debtor
      <4>4. QED
        BY <4>1, <4>2, <4>3
    <3>2. CASE wjob[w] # j
      BY <1>4, <3>2 DEF FailCommit, WrittenStatus
    <3>3. QED
      BY <3>1, <3>2
  <2>3. status'[j] = "absent" => status[j] = "absent"
    BY <1>4 DEF FailCommit, WrittenStatus
  <2>4. QED
    BY <1>0, <1>1, <2>1, <2>2, <2>3, BudgetKept DEF FreshOf
<1>5. QED
  BY <1>2, <1>3, <1>4

(* The steps of a worker: only a poll makes debtors, of jobs with attempts  *)
(* left.                                                                    *)
LEMMA WorkerBudget ==
  ASSUME Typed, Typed', Budget, NEW w \in Workers, WorkerStep(w)
  PROVE  Budget'
<1>1. CASE ReadStale(w)
  <2> SUFFICES ASSUME NEW j \in Jobs
               PROVE  BudgetOf(j)' /\ FreshOf(j)'
    BY DEF Budget
  <2>0. BudgetOf(j) /\ FreshOf(j)
    BY DEF Budget
  <2> USE <1>1 DEF Typed, TypeOK
  <2>1. attempts' = attempts /\ status' = status
    BY DEF ReadStale, rowVars
  <2>2. ~(attempts[j] < MaxAttempts) => Debt(j)' \subseteq Debt(j)
    BY DEF ReadStale, Debt, Debtor, Requeued, MayRetry
  <2>3. BudgetOf(j)'
    <3>1. CASE attempts[j] < MaxAttempts
      BY <2>1, <3>1, BudgetFree
    <3>2. CASE ~(attempts[j] < MaxAttempts)
      BY <2>0, <2>1, <2>2, <3>2, BudgetKept
    <3>3. QED
      BY <3>1, <3>2
  <2>4. FreshOf(j)'
    BY <2>0, <2>1 DEF FreshOf, ReadStale, StaleRow, Recovered, Requeued, Expired
  <2>5. QED
    BY <2>3, <2>4
<1>2. CASE FinishPoll(w)
  BY <1>2, ClaimBudget, ClaimNothingBudget DEF FinishPoll
<1>3. CASE FailReread(w) \/ FailCommit(w)
  BY <1>3, FailureBudget
<1>4. CASE \/ DropClaim(w) \/ StartExecution(w) \/ HandlerFlush(w) \/ HandlerRaises(w)
           \/ FinishHandler(w) \/ CommitCompletion(w)
  <2> SUFFICES ASSUME NEW j \in Jobs
               PROVE  BudgetOf(j)' /\ FreshOf(j)'
    BY DEF Budget
  <2>0. BudgetOf(j) /\ FreshOf(j)
    BY DEF Budget
  <2> USE <1>4 DEF Typed, TypeOK, DropClaim, StartExecution, HandlerFlush, HandlerRaises,
          FinishHandler, CommitCompletion, GoIdle, rowVars
  <2>1. attempts' = attempts /\ wstale' = wstale
    OBVIOUS
  <2>2. Debt(j)' \subseteq Debt(j)
    BY DEF Debt, Debtor, Requeued
  <2>3. status'[j] = status[j] \/ status'[j] = "completed"
    OBVIOUS
  <2>4. BudgetOf(j)'
    BY <2>0, <2>1, <2>2, <2>3, BudgetKept
  <2>5. FreshOf(j)'
    BY <2>0, <2>1, <2>3 DEF FreshOf, Recovered, Requeued, Expired
  <2>6. QED
    BY <2>4, <2>5
<1>5. QED
  BY <1>1, <1>2, <1>3, <1>4 DEF WorkerStep

(* Crashes forgive debts; time and maintenance start no attempt.            *)
LEMMA EnvironmentBudget ==
  ASSUME Typed, Typed', Budget, Environment \/ UNCHANGED vars
  PROVE  Budget'
<1> SUFFICES ASSUME NEW j \in Jobs
             PROVE  BudgetOf(j)' /\ FreshOf(j)'
  BY DEF Budget
<1>0. BudgetOf(j) /\ FreshOf(j)
  BY DEF Budget
<1> USE DEF Typed, TypeOK, Environment, Crash, LeaseExpires, BackoffElapses, PurgeFinished,
        SweepQuarantine, GoIdle, NoStale, NoRead, vars, rowVars, outVars, wVars
<1>1. attempts' = attempts
  OBVIOUS
<1>2. \A w \in Workers : /\ Requeued(w)' \subseteq Requeued(w)
                         /\ Recovered(w)' \subseteq Recovered(w)
  BY DEF Recovered, Requeued, Expired
<1>3. Debt(j)' \subseteq Debt(j)
  BY <1>2 DEF Debt, Debtor
<1>4. status'[j] = status[j] \/ status'[j] = "purged"
  OBVIOUS
<1>5. BudgetOf(j)'
  BY <1>0, <1>1, <1>3, <1>4, BudgetKept
<1>6. FreshOf(j)'
  BY <1>0, <1>1, <1>2, <1>4 DEF FreshOf
<1>7. QED
  BY <1>5, <1>6

(* A job is attempted at most MaxAttempts times plus once for every worker  *)
(* but one, whatever the number of workers.                                 *)
THEOREM AttemptsStayBounded == Spec => []AttemptsBounded
<1>1. Init => Typed /\ Budget
  BY InitTyped, InitBudget
<1>2. Typed /\ Budget /\ [Next]_vars => Typed' /\ Budget'
  BY NextTyped, ClerkBudget, WorkerBudget, EnvironmentBudget DEF Next
<1>3. Typed /\ Budget => AttemptsBounded
  <2> SUFFICES ASSUME Typed, Budget, NEW j \in Jobs
               PROVE  attempts[j] <= MaxAttempts + Cardinality(Workers) - 1
    BY DEF AttemptsBounded
  <2>1. /\ attempts[j] \in Nat /\ MaxAttempts \in Nat /\ Cardinality(Workers) \in Nat
        /\ Cardinality(Debt(j)) \in Nat
    BY DebtFinite, LimitsAssumption DEF Typed, TypeOK
  <2>2. QED
    BY <2>1 DEF Budget, BudgetOf, Due
<1>4. QED
  BY <1>1, <1>2, <1>3, PTL DEF Spec
-----------------------------------------------------------------------------
(* One worker.  What it has in its memory stays true until it writes it:    *)
(* nobody else moves a job that is running, but to cancel it.               *)

OneWorker == \A v, w \in Workers : v = w

Reported == {"job.completed", "job.failed"}

JobFits(j) ==
  /\ status[j] = "absent" => attempts[j] = 0 /\ effects[j] = 0
  /\ status[j] = "queued" => MayRetry(attempts[j]) /\ effects[j] = 0
  /\ status[j] = "running" => attempts[j] > 0 /\ effects[j] = 0
  /\ journal[j] \cap Reported # {} => status[j] \in Terminal \cup {"purged"} /\ ~InFlight(j)
  /\ ~(Reported \subseteq journal[j])

Underway(j) ==
  /\ status[j] \in {"running", "cancelled"}
  /\ attempts[j] > 0 /\ effects[j] = 0

WorkerFits(w) ==
  /\ \A j \in Recovered(w) : Underway(j)
  /\ \A j \in Requeued(w) : MayRetry(attempts[j])
  /\ \A j \in Expired(w) : ~MayRetry(attempts[j])
  /\ wjob[w] \in Jobs => Underway(wjob[w])
  /\ wpc[w] = "recording" => /\ wread[w].retry = MayRetry(attempts[wjob[w]])
                             /\ wread[w].status \in {"running", "cancelled"}

Solo ==
  /\ \A j \in Jobs : JobFits(j)
  /\ \A w \in Workers : WorkerFits(w)
  /\ \A c \in Clerks : cpc[c] \in {"cancel", "unlinked"} => status[carg[c]] \in Live

LEMMA SoloStarts == Init => Solo
BY LimitsAssumption, JobsAssumption
DEF Init, Solo, JobFits, WorkerFits, Underway, Recovered, Requeued, Expired, NoStale, MayRetry,
    Reported, InFlight

LEMMA ClerkSolo ==
  ASSUME Typed, Solo, NEW c \in Clerks, ClerkStep(c)
  PROVE  Solo'
<1> USE LimitsAssumption, JobsAssumption, KeysAssumption
    DEF Typed, TypeOK, ClerkArg, Solo, JobFits, WorkerFits, Underway, Recovered, Requeued, Expired,
        MayRetry, Reported, InFlight, Terminal, Live, rowVars, outVars, wVars, cVars
<1>1. CASE \E k \in Keys \cup {NoKey} : EnqueueLookup(c, k)
  BY <1>1 DEF EnqueueLookup
<1>2. CASE \E j \in Jobs : EnqueueInsert(c, j)
  BY <1>2 DEF EnqueueInsert, InsertRow
<1>3. CASE EnqueueConflict(c)
  BY <1>3 DEF EnqueueConflict
<1>4. CASE \E j \in Jobs : CancelRead(c, j)
  BY <1>4 DEF CancelRead
<1>5. CASE CancelUnlink(c)
  BY <1>5 DEF CancelUnlink
<1>6. CASE CancelCommit(c)
  BY <1>6 DEF CancelCommit
<1>7. CASE CancelAborts(c)
  BY <1>7 DEF CancelAborts
<1>8. CASE \E old, new \in Jobs : Retry(c, old, new)
  BY <1>8 DEF Retry, InsertRow
<1> QED BY <1>1, <1>2, <1>3, <1>4, <1>5, <1>6, <1>7, <1>8 DEF ClerkStep, EnqueueFlush

LEMMA EnvironmentSolo ==
  ASSUME Typed, Solo, Environment
  PROVE  Solo'
<1> USE LimitsAssumption, JobsAssumption, WorkersAssumption, KeysAssumption
    DEF Typed, TypeOK, ClerkArg, Solo, JobFits, WorkerFits, Underway, Recovered, Requeued, Expired,
        MayRetry, Reported, InFlight, Terminal, Live, rowVars, outVars, wVars, cVars
<1>1. CASE \E w \in Workers : Crash(w)
  BY <1>1 DEF Crash, GoIdle, NoStale, NoRead
<1>2. CASE \E j \in Jobs : LeaseExpires(j)
  BY <1>2 DEF LeaseExpires
<1>3. CASE \E j \in Jobs : BackoffElapses(j)
  BY <1>3 DEF BackoffElapses
<1>4. CASE \E j \in Jobs : PurgeFinished(j)
  BY <1>4 DEF PurgeFinished
<1>5. CASE \E j \in Jobs : SweepQuarantine(j)
  BY <1>5 DEF SweepQuarantine
<1> QED BY <1>1, <1>2, <1>3, <1>4, <1>5 DEF Environment

LEMMA WorkerSolo ==
  ASSUME OneWorker, Typed, Solo, NEW w \in Workers, WorkerStep(w)
  PROVE  Solo'
<1> USE LimitsAssumption, JobsAssumption, WorkersAssumption, KeysAssumption
    DEF OneWorker, Typed, TypeOK, ClerkArg, WorkerJob, PollMemory, Solo, JobFits, WorkerFits,
      Underway,
        Recovered, Requeued, Expired, MayRetry, Reported, InFlight, Terminal, Live,
        rowVars, outVars, wVars, cVars
<1>1. CASE ReadStale(w)
  BY <1>1 DEF ReadStale, StaleRow
<1>2. ASSUME NEW j \in Jobs, Claim(w, j) PROVE Solo'
  <2>1. /\ \A v \in Workers : v = w
        /\ wstale'[w] = NoStale /\ wjob'[w] = j /\ wpc'[w] = "claimed"
        /\ status[j] = "queued" \/ j \in Requeued(w)
    BY <1>2 DEF Claim, Claimable, StatusAfterRecovery
  <2>2. /\ MayRetry(attempts[j]) /\ effects[j] = 0 /\ status[j] # "absent"
        /\ journal[j] \cap Reported = {}
    BY ZenonT(40), <2>1
  <2>3. status'[j] = "running" /\ attempts'[j] = attempts[j] + 1 /\ journal' = journal
        /\ effects' = effects /\ cpc' = cpc /\ carg' = carg
    BY <1>2 DEF Claim, StatusAfterRecovery
  <2>4. \A k \in Jobs : k # j => /\ attempts'[k] = attempts[k]
                                /\ status'[k] = StatusAfterRecovery(w)[k]
    BY <1>2 DEF Claim, StatusAfterRecovery
  <2>5. JobFits(j)'
    BY <2>2, <2>3
  <2>6. ASSUME NEW k \in Jobs, k # j PROVE JobFits(k)'
    <3>1. CASE k \in Recovered(w)
      <4>1. Underway(k) /\ journal[k] \cap Reported = {}
        BY <3>1
      <4>2. status'[k] \in {"queued", "failed"} /\ (status'[k] = "queued" => MayRetry(attempts[k]))
        BY <2>4, <2>6, <3>1 DEF StatusAfterRecovery
      <4> QED BY <2>3, <2>4, <2>6, <4>1, <4>2
    <3>2. CASE k \notin Recovered(w)
      <4>1. status'[k] = status[k]
        BY <2>4, <2>6, <3>2 DEF StatusAfterRecovery
      <4>2. ~InFlight(k)'
        BY <2>1, <2>6 DEF NoStale
      <4> QED BY <2>3, <2>4, <2>6, <4>1, <4>2
    <3> QED BY <3>1, <3>2
  <2>7. \A v \in Workers : WorkerFits(v)'
    BY <2>1, <2>2, <2>3 DEF NoStale
  <2>8. \A c \in Clerks : (cpc[c] \in {"cancel", "unlinked"} => status[carg[c]] \in Live)'
    <3> SUFFICES ASSUME NEW c \in Clerks, cpc[c] \in {"cancel", "unlinked"}
                 PROVE  status'[carg[c]] \in Live
      BY <2>3
    <3> QED BY <2>3, <2>4 DEF StatusAfterRecovery
  <2> QED BY <2>5, <2>6, <2>7, <2>8
<1>3. CASE ClaimNothing(w)
  BY <1>3 DEF ClaimNothing, StatusAfterRecovery, NoStale
<1>4. CASE DropClaim(w)
  BY <1>4 DEF DropClaim, GoIdle
<1>5. CASE StartExecution(w)
  BY <1>5 DEF StartExecution
<1>6. CASE HandlerFlush(w)
  BY <1>6 DEF HandlerFlush
<1>7. CASE HandlerRaises(w)
  BY <1>7 DEF HandlerRaises
<1>8. CASE FinishHandler(w)
  BY <1>8 DEF FinishHandler
<1>9. CASE CommitCompletion(w)
  <2>1. PICK j \in Jobs : wjob[w] = j
    BY <1>9 DEF CommitCompletion
  <2>2. /\ Underway(j) /\ journal[j] \cap Reported = {}
        /\ \A v \in Workers : v = w
        /\ wjob'[w] = NoJob /\ wpc'[w] = "idle" /\ wstale'[w] = NoStale
    BY <1>9, <2>1 DEF CommitCompletion, GoIdle
  <2>3. /\ status'[j] = "completed" /\ attempts' = attempts /\ cpc' = cpc /\ carg' = carg
        /\ journal'[j] = journal[j] \cup {"job.completed"}
    BY <1>9, <2>1 DEF CommitCompletion
  <2>4. \A k \in Jobs : k # j => /\ status'[k] = status[k] /\ effects'[k] = effects[k]
                                /\ journal'[k] = journal[k]
    BY <1>9, <2>1 DEF CommitCompletion
  <2>5. \A k \in Jobs : ~InFlight(k)'
    BY <2>2 DEF NoStale
  <2>6. JobFits(j)'
    BY <2>2, <2>3, <2>5
  <2>7. \A k \in Jobs : k # j => JobFits(k)'
    BY <2>3, <2>4, <2>5
  <2>8. \A v \in Workers : WorkerFits(v)'
    BY <2>2 DEF NoStale
  <2>9. \A c \in Clerks : (cpc[c] \in {"cancel", "unlinked"} => status[carg[c]] \in Live)'
    BY <2>1, <2>3, <2>4
  <2> QED BY <2>6, <2>7, <2>8, <2>9
<1>10. CASE FailReread(w)
  <2>1. PICK j \in Jobs : wjob[w] = j
    BY <1>10 DEF FailReread
  <2>2. /\ wread'[w].status = status[j] /\ wread'[w].retry = MayRetry(attempts[j])
        /\ \A v \in Workers : v = w
    BY <1>10, <2>1 DEF FailReread
  <2>3. UNCHANGED <<status, attempts, effects, journal, wjob, wstale, cpc, carg>>
    BY <1>10 DEF FailReread
  <2>4. \A k \in Jobs : JobFits(k)'
    BY <2>3
  <2>5. \A v \in Workers : WorkerFits(v)'
    BY <2>1, <2>2, <2>3
  <2> QED BY <2>3, <2>4, <2>5
<1>11. CASE FailCommit(w)
  <2>1. PICK j \in Jobs : wjob[w] = j
    BY <1>11 DEF FailCommit
  <2>2. /\ Underway(j) /\ journal[j] \cap Reported = {}
        /\ \A v \in Workers : v = w
        /\ wjob'[w] = NoJob /\ wpc'[w] = "idle" /\ wstale'[w] = NoStale
    <3>1. wpc[w] = "recording" /\ GoIdle(w) /\ wstale' = wstale
      BY <1>11 DEF FailCommit
    <3>2. /\ wjob'[w] = NoJob /\ wpc'[w] = "idle" /\ wstale'[w] = NoStale
          /\ \A v \in Workers : v = w
      BY <3>1 DEF GoIdle
    <3>3. Underway(j) /\ InFlight(j)
      BY <2>1
    <3>4. journal[j] \cap Reported = {}
      BY <3>3
    <3> QED BY <3>2, <3>3, <3>4
  <2>3. /\ status'[j] = IF MayRetry(attempts[j]) THEN "queued" ELSE "failed"
        /\ journal'[j] = IF MayRetry(attempts[j]) THEN journal[j]
                                                  ELSE journal[j] \cup {"job.failed"}
        /\ attempts' = attempts /\ effects' = effects /\ cpc' = cpc /\ carg' = carg
    BY <1>11, <2>1 DEF FailCommit, WrittenStatus
  <2>4. \A k \in Jobs : k # j => status'[k] = status[k] /\ journal'[k] = journal[k]
    BY <1>11, <2>1 DEF FailCommit
  <2>5. \A k \in Jobs : ~InFlight(k)'
    BY <2>2 DEF NoStale
  <2>6. JobFits(j)'
    BY <2>2, <2>3, <2>5
  <2>7. \A k \in Jobs : k # j => JobFits(k)'
    BY <2>3, <2>4, <2>5
  <2>8. \A v \in Workers : WorkerFits(v)'
    BY <2>2 DEF NoStale
  <2>9. \A c \in Clerks : (cpc[c] \in {"cancel", "unlinked"} => status[carg[c]] \in Live)'
    BY <2>1, <2>3, <2>4
  <2> QED BY <2>6, <2>7, <2>8, <2>9
<1> QED BY <1>1, <1>2, <1>3, <1>4, <1>5, <1>6, <1>7, <1>8, <1>9, <1>10, <1>11
        DEF WorkerStep, FinishPoll

LEMMA SoloKeeps ==
  ASSUME OneWorker, Typed, Solo, [Next]_vars
  PROVE  Solo'
<1>1. CASE UNCHANGED vars
  BY <1>1 DEF Solo, JobFits, WorkerFits, Underway, Recovered, Requeued, Expired, InFlight,
              vars, rowVars, outVars, wVars, cVars
<1> QED BY <1>1, ClerkSolo, WorkerSolo, EnvironmentSolo DEF Next

(* What holds of one worker in every behaviour.                             *)
LEMMA SoloAlways ==
  ASSUME OneWorker
  PROVE  Spec => [](Typed /\ Solo)
<1>1. Init => Typed /\ Solo
  BY InitTyped, SoloStarts
<1>2. Typed /\ Solo /\ [Next]_vars => Typed' /\ Solo'
  BY NextTyped, SoloKeeps
<1> QED BY <1>1, <1>2, PTL DEF Spec

(* The audit trail tells one ending of a job that one worker executes: what *)
(* run_once has completed or given up is neither claimed nor recovered      *)
(* again, whatever crashes, expired leases and late cancellations do.       *)
THEOREM VerdictsAreFinal == ASSUME OneWorker PROVE Spec => []OneVerdict
<1>1. Typed /\ Solo => OneVerdict
  BY DEF Solo, JobFits, Reported, OneVerdict
<1> QED BY <1>1, SoloAlways, PTL
-----------------------------------------------------------------------------
(* The refinement.  What a step does to one job is a step of its life.      *)

Held(j) == \E w \in Workers : wjob[w] = j

Outcome(j) == IF MayRetry(attempts[j]) THEN "queued" ELSE "failed"

Rests(j) == attempts'[j] = attempts[j] /\ effects'[j] = effects[j] /\ (Held(j)' <=> Held(j))

Lives(j) ==
  \/ status'[j] = status[j] /\ Rests(j)
  \/ status[j] = "absent" /\ status'[j] = "queued" /\ Rests(j)
  \/ /\ ~Held(j) /\ Held(j)' /\ MayRetry(attempts[j])
     /\ status[j] = "queued" \/ Underway(j)
     /\ status'[j] = "running" /\ attempts'[j] = attempts[j] + 1 /\ effects'[j] = effects[j]
  \/ /\ Held(j) /\ ~Held(j)' /\ attempts'[j] = attempts[j]
     /\ \/ status'[j] = "completed" /\ effects'[j] = effects[j] + 1
        \/ status'[j] \in {Outcome(j), status[j]} /\ effects'[j] = effects[j]
  \/ ~Held(j) /\ Underway(j) /\ status'[j] = Outcome(j) /\ Rests(j)
  \/ status[j] \in Live /\ status'[j] = "cancelled" /\ Rests(j)
  \/ ~Held(j) /\ status[j] \in Terminal /\ status'[j] = "purged" /\ Rests(j)

LEMMA NamesOfStates ==
  /\ StateName("queued") = "pending" /\ StateName("running") = "active"
  /\ StateName("completed") = "done" /\ StateName("failed") = "dead"
  /\ StateName("cancelled") = "withdrawn" /\ StateName("purged") = "forgotten"
  /\ StateName("absent") = "absent"
BY DEF StateName

(* A step in which a job rests or lives is one of its lifecycle.            *)
LEMMA LivesAsPromised ==
  ASSUME Typed, Typed', NEW j \in Jobs, Lives(j)
  PROVE  Lifecycle!JobStep(j)
<1> USE NamesOfStates, LimitsAssumption
    DEF Typed, TypeOK, Held, Outcome, Rests, Underway, MayRetry, Live, Terminal, Statuses,
        Lifecycle!JobStep, Lifecycle!Same, Lifecycle!EndAs
<1>1. CASE status'[j] = status[j] /\ Rests(j)
  BY <1>1
<1>2. CASE status[j] = "absent" /\ status'[j] = "queued" /\ Rests(j)
  BY <1>2 DEF Lifecycle!Submit
<1>3. CASE /\ ~Held(j) /\ Held(j)' /\ MayRetry(attempts[j])
           /\ status[j] = "queued" \/ Underway(j)
           /\ status'[j] = "running" /\ attempts'[j] = attempts[j] + 1 /\ effects'[j] = effects[j]
  BY <1>3 DEF Lifecycle!Begin, Lifecycle!Lost
<1>4. CASE /\ Held(j) /\ ~Held(j)' /\ attempts'[j] = attempts[j]
           /\ status'[j] = "completed" /\ effects'[j] = effects[j] + 1
  BY <1>4 DEF Lifecycle!Succeed
<1>5. CASE /\ Held(j) /\ ~Held(j)' /\ attempts'[j] = attempts[j]
           /\ status'[j] = Outcome(j) /\ effects'[j] = effects[j]
  BY <1>5 DEF Lifecycle!Fail
<1>6. CASE /\ Held(j) /\ ~Held(j)' /\ attempts'[j] = attempts[j]
           /\ status'[j] = status[j] /\ effects'[j] = effects[j]
  BY <1>6 DEF Lifecycle!Lose
<1>7. CASE ~Held(j) /\ Underway(j) /\ status'[j] = Outcome(j) /\ Rests(j)
  BY <1>7 DEF Lifecycle!Recover, Lifecycle!Lost
<1>8. CASE status[j] \in Live /\ status'[j] = "cancelled" /\ Rests(j)
  BY <1>8 DEF Lifecycle!Withdraw
<1>9. CASE ~Held(j) /\ status[j] \in Terminal /\ status'[j] = "purged" /\ Rests(j)
  BY <1>9 DEF Lifecycle!Forget
<1> QED BY <1>1, <1>2, <1>3, <1>4, <1>5, <1>6, <1>7, <1>8, <1>9 DEF Lives

LEMMA ClerkLives ==
  ASSUME Typed, Solo, NEW c \in Clerks, ClerkStep(c), NEW j \in Jobs
  PROVE  Lives(j)
<1> USE JobsAssumption, KeysAssumption
    DEF Typed, TypeOK, ClerkArg, Solo, Lives, Rests, Held, rowVars, outVars, wVars, cVars
<1>1. CASE \E k \in Keys \cup {NoKey} : EnqueueLookup(c, k)
  BY <1>1 DEF EnqueueLookup
<1>2. CASE \E k \in Jobs : EnqueueInsert(c, k)
  BY <1>2 DEF EnqueueInsert, InsertRow
<1>3. CASE EnqueueConflict(c)
  BY <1>3 DEF EnqueueConflict
<1>4. CASE \E k \in Jobs : CancelRead(c, k)
  BY <1>4 DEF CancelRead
<1>5. CASE CancelUnlink(c)
  BY <1>5 DEF CancelUnlink
<1>6. CASE CancelCommit(c)
  BY <1>6 DEF CancelCommit
<1>7. CASE CancelAborts(c)
  BY <1>7 DEF CancelAborts
<1>8. CASE \E old, new \in Jobs : Retry(c, old, new)
  BY <1>8 DEF Retry, InsertRow
<1> QED BY <1>1, <1>2, <1>3, <1>4, <1>5, <1>6, <1>7, <1>8 DEF ClerkStep, EnqueueFlush

LEMMA EnvironmentLives ==
  ASSUME OneWorker, Typed, Solo, Environment, NEW j \in Jobs
  PROVE  Lives(j)
<1> USE JobsAssumption
    DEF Typed, TypeOK, WorkerJob, Lives, Rests, Held, rowVars, outVars, wVars, cVars
<1>1. CASE \E w \in Workers : Crash(w)
  BY <1>1 DEF Crash, GoIdle, OneWorker
<1>2. CASE \E k \in Jobs : LeaseExpires(k)
  BY <1>2 DEF LeaseExpires
<1>3. CASE \E k \in Jobs : BackoffElapses(k)
  BY <1>3 DEF BackoffElapses
<1>4. CASE \E k \in Jobs : PurgeFinished(k)
  BY <1>4 DEF PurgeFinished, InFlight
<1>5. CASE \E k \in Jobs : SweepQuarantine(k)
  BY <1>5 DEF SweepQuarantine
<1> QED BY <1>1, <1>2, <1>3, <1>4, <1>5 DEF Environment

LEMMA RecoveryLives ==
  ASSUME OneWorker, Typed, Solo, NEW w \in Workers, wpc[w] = "recovering", NEW j \in Jobs,
         status'[j] = StatusAfterRecovery(w)[j], Rests(j)
  PROVE  Lives(j)
<1>1. ~Held(j)
  BY DEF OneWorker, Held, Typed, WorkerJob
<1>2. CASE j \in Recovered(w)
  <2>1. Underway(j) /\ (j \in Requeued(w) <=> MayRetry(attempts[j]))
    BY <1>2 DEF Solo, WorkerFits, Recovered
  <2>2. status'[j] = Outcome(j)
    BY <1>2, <2>1 DEF StatusAfterRecovery, Outcome, Recovered
  <2> QED BY <1>1, <2>1, <2>2 DEF Lives
<1>3. CASE j \notin Recovered(w)
  <2>1. status'[j] = status[j]
    BY <1>3 DEF StatusAfterRecovery, Recovered
  <2> QED BY <2>1 DEF Lives
<1> QED BY <1>2, <1>3

LEMMA WorkerLives ==
  ASSUME OneWorker, Typed, Solo, NEW w \in Workers, WorkerStep(w), NEW j \in Jobs
  PROVE  Lives(j)
<1> USE JobsAssumption
    DEF OneWorker, Typed, TypeOK, WorkerJob, Rests, Held, rowVars, outVars, wVars, cVars
<1>1. CASE ReadStale(w)
  BY <1>1 DEF ReadStale, Lives
<1>2. ASSUME NEW k \in Jobs, Claim(w, k) PROVE Lives(j)
  <2>1. CASE j = k
    <3>1. ~Held(j) /\ Held(j)' /\ effects'[j] = effects[j]
      BY <1>2, <2>1 DEF Claim
    <3>2. /\ status'[j] = "running" /\ attempts'[j] = attempts[j] + 1
          /\ j \in Requeued(w) \/ (status[j] = "queued" /\ j \notin Recovered(w))
      BY <1>2, <2>1 DEF Claim, Claimable, StatusAfterRecovery, Recovered
    <3>3. MayRetry(attempts[j]) /\ (status[j] = "queued" \/ Underway(j))
      BY <3>2 DEF Solo, JobFits, WorkerFits, Recovered
    <3> QED BY <3>1, <3>2, <3>3 DEF Lives
  <2>2. CASE j # k
    <3>1. wpc[w] = "recovering" /\ status'[j] = StatusAfterRecovery(w)[j] /\ Rests(j)
      BY <1>2, <2>2 DEF Claim, StatusAfterRecovery
    <3> QED BY <3>1, RecoveryLives
  <2> QED BY <2>1, <2>2
<1>3. CASE ClaimNothing(w)
  <2>1. wpc[w] = "recovering" /\ status'[j] = StatusAfterRecovery(w)[j] /\ Rests(j)
    BY <1>3 DEF ClaimNothing, StatusAfterRecovery
  <2> QED BY <2>1, RecoveryLives
<1>4. CASE DropClaim(w)
  BY <1>4 DEF DropClaim, GoIdle, Lives
<1>5. CASE StartExecution(w)
  BY <1>5 DEF StartExecution, Lives
<1>6. CASE HandlerFlush(w)
  BY <1>6 DEF HandlerFlush, Lives
<1>7. CASE HandlerRaises(w)
  BY <1>7 DEF HandlerRaises, Lives
<1>8. CASE FinishHandler(w)
  BY <1>8 DEF FinishHandler, Lives
<1>9. CASE CommitCompletion(w)
  BY <1>9 DEF CommitCompletion, GoIdle, Lives
<1>10. CASE FailReread(w)
  BY <1>10 DEF FailReread, Lives
<1>11. CASE FailCommit(w)
  <2>1. wjob[w] \in Jobs /\ wpc[w] = "recording"
    BY <1>11 DEF FailCommit
  <2>2. /\ wread[w].retry = MayRetry(attempts[wjob[w]])
        /\ wread[w].status \in {"running", "cancelled"}
    BY <2>1 DEF Solo, WorkerFits
  <2>3. attempts' = attempts /\ effects' = effects /\ wjob' = [wjob EXCEPT ![w] = NoJob]
    BY <1>11 DEF FailCommit, GoIdle
  <2>4. status' = [status EXCEPT ![wjob[w]] = Outcome(wjob[w])]
    BY <1>11, <2>1, <2>2 DEF FailCommit, WrittenStatus, Outcome
  <2>5. CASE wjob[w] = j
    BY <2>1, <2>3, <2>4, <2>5 DEF Lives
  <2>6. CASE wjob[w] # j
    BY <2>1, <2>3, <2>4, <2>6 DEF Lives
  <2> QED BY <2>5, <2>6
<1> QED BY <1>1, <1>2, <1>3, <1>4, <1>5, <1>6, <1>7, <1>8, <1>9, <1>10, <1>11
        DEF WorkerStep, FinishPoll

(* What a single worker process promises for a job (JobLifecycle) is what   *)
(* the queue does for it, whatever crashes, expiring leases and late        *)
(* cancellations do: every step of the queue is a step of each job's life,  *)
(* or leaves it alone.                                                      *)
THEOREM QueueKeepsItsPromise == ASSUME OneWorker PROVE Spec => ImplementsLifecycle
<1>1. Init => Lifecycle!Init
  BY JobsAssumption, NamesOfStates DEF Init, Lifecycle!Init
<1>2. ASSUME Typed, Typed', Solo, [Next]_vars PROVE [Lifecycle!Next]_Lifecycle!vars
  <2>1. CASE UNCHANGED vars
    BY <2>1 DEF vars, rowVars, outVars, wVars, Lifecycle!vars
  <2>2. CASE Next
    <3>1. \A j \in Jobs : Lives(j)
      BY <1>2, <2>2, ClerkLives, WorkerLives, EnvironmentLives DEF Next
    <3>2. \A j \in Jobs : Lifecycle!JobStep(j)
      BY <1>2, <3>1, LivesAsPromised
    <3> QED BY <1>2, <3>2 DEF Lifecycle!Next, Typed, TypeOK
  <2> QED BY <1>2, <2>1, <2>2
<1>3. Typed /\ Solo /\ Typed' /\ [Next]_vars => [Lifecycle!Next]_Lifecycle!vars
  BY <1>2
<1> QED BY <1>1, <1>3, SoloAlways, PTL DEF Spec, ImplementsLifecycle, Lifecycle!Spec
-----------------------------------------------------------------------------
(* Calm weather and quiet times, for any number of workers: leases outlive  *)
(* handlers and no process dies.  A running job is then in the hands of the *)
(* worker that locked it, so no lease expires and recovery finds nothing to *)
(* do.                                                                      *)

InHand(w) ==
  wjob[w] \in Jobs =>
    /\ lockedBy[wjob[w]] = w
    /\ status[wjob[w]] \in {"running", "cancelled"}
    /\ effects[wjob[w]] = 0
    /\ wpc[w] = "recording" => wread[w].locked /\ wread[w].status \in {"running", "cancelled"}

Undisturbed(j) ==
  /\ ~leaseOver[j]
  /\ status[j] = "running" => \E w \in Workers : wjob[w] = j
  /\ status[j] \in {"absent", "queued"} => effects[j] = 0
  /\ effects[j] <= 1

Calm == /\ \A j \in Jobs : Undisturbed(j)
        /\ \A w \in Workers : wstale[w] = NoStale /\ InHand(w)

(* Initially nothing is running.                                            *)
LEMMA CalmStarts == Init => Calm
BY JobsAssumption DEF Init, Calm, Undisturbed, InHand

(* Requests write to rows that no worker has in hand, but to cancel them.   *)
LEMMA ClerkCalm ==
  ASSUME Typed, Calm, NEW c \in Clerks, ClerkStep(c)
  PROVE  Calm'
<1> USE JobsAssumption, KeysAssumption
    DEF Typed, TypeOK, ClerkArg, WorkerJob, Calm, Undisturbed, InHand, rowVars, outVars, wVars,
      cVars
<1>1. CASE \E k \in Keys \cup {NoKey} : EnqueueLookup(c, k)
  BY <1>1 DEF EnqueueLookup
<1>2. CASE \E j \in Jobs : EnqueueInsert(c, j)
  BY <1>2 DEF EnqueueInsert, InsertRow
<1>3. CASE EnqueueConflict(c)
  BY <1>3 DEF EnqueueConflict
<1>4. CASE \E j \in Jobs : CancelRead(c, j)
  BY <1>4 DEF CancelRead
<1>5. CASE CancelUnlink(c)
  BY <1>5 DEF CancelUnlink
<1>6. CASE CancelCommit(c)
  BY <1>6 DEF CancelCommit
<1>7. CASE CancelAborts(c)
  BY <1>7 DEF CancelAborts
<1>8. CASE \E old, new \in Jobs : Retry(c, old, new)
  BY <1>8 DEF Retry, InsertRow
<1> QED BY <1>1, <1>2, <1>3, <1>4, <1>5, <1>6, <1>7, <1>8 DEF ClerkStep, EnqueueFlush

(* No lease expires: a running job is in some worker's hands.               *)
LEMMA EnvironmentCalm ==
  ASSUME LeaseOutlivesHandler, Typed, Calm, Environment
  PROVE  Calm'
<1> USE JobsAssumption
    DEF LeaseOutlivesHandler, WorkersMayCrash, Typed, TypeOK, Calm, Undisturbed, InHand,
        rowVars, outVars, wVars, cVars
<1>1. ~\E w \in Workers : Crash(w)
  BY DEF Crash
<1>2. CASE \E j \in Jobs : LeaseExpires(j)
  BY <1>2 DEF LeaseExpires, InFlight
<1>3. CASE \E j \in Jobs : BackoffElapses(j)
  BY <1>3 DEF BackoffElapses
<1>4. CASE \E j \in Jobs : PurgeFinished(j)
  BY <1>4 DEF PurgeFinished, InFlight, Terminal
<1>5. CASE \E j \in Jobs : SweepQuarantine(j)
  BY <1>5 DEF SweepQuarantine
<1> QED BY <1>1, <1>2, <1>3, <1>4, <1>5 DEF Environment

(* A worker claims what is queued, which nobody has, and writes the outcome *)
(* of what it has in hand.                                                  *)
LEMMA WorkerCalm ==
  ASSUME Typed, Calm, NEW w \in Workers, WorkerStep(w)
  PROVE  Calm'
<1> USE JobsAssumption, WorkersAssumption
    DEF Typed, TypeOK, WorkerJob, Calm, Undisturbed, InHand, rowVars, outVars, wVars, cVars
<1>1. CASE ReadStale(w)
  <2>1. \A j \in Jobs : ~StaleRow(j)
    BY DEF StaleRow
  <2>2. wstale' = wstale
    BY <1>1, <2>1 DEF ReadStale, NoStale
  <2> QED BY <1>1, <2>2 DEF ReadStale
<1>2. ASSUME NEW j \in Jobs, Claim(w, j) PROVE Calm'
  <2>1. Recovered(w) = {} /\ Requeued(w) = {} /\ Expired(w) = {}
    BY DEF Recovered, Requeued, Expired, NoStale
  <2>2. status[j] = "queued" /\ effects[j] = 0
    BY <1>2, <2>1 DEF Claim, Claimable, StatusAfterRecovery
  <2>3. \A v \in Workers : wjob[v] # j
    BY <2>2
  <2>4. /\ status' = [status EXCEPT ![j] = "running"]
        /\ lockedBy' = [lockedBy EXCEPT ![j] = w]
        /\ leaseOver' = [k \in Jobs |-> leaseOver[k] /\ k # j]
        /\ wpc' = [wpc EXCEPT ![w] = "claimed"] /\ wjob' = [wjob EXCEPT ![w] = j]
        /\ wstale' = [wstale EXCEPT ![w] = NoStale]
        /\ effects' = effects /\ wread' = wread
    <3>1. StatusAfterRecovery(w) = status
      BY <2>1 DEF StatusAfterRecovery
    <3>2. lockedBy' = [k \in Jobs |-> IF k = j THEN w ELSE lockedBy[k]]
      BY <1>2, <2>1 DEF Claim
    <3>3. leaseOver' = [k \in Jobs |-> leaseOver[k] /\ k # j]
      BY <1>2, <2>1 DEF Claim
    <3>4. lockedBy' = [lockedBy EXCEPT ![j] = w]
      BY <3>2
    <3>5. /\ status' = [status EXCEPT ![j] = "running"]
          /\ wpc' = [wpc EXCEPT ![w] = "claimed"] /\ wjob' = [wjob EXCEPT ![w] = j]
          /\ wstale' = [wstale EXCEPT ![w] = NoStale] /\ effects' = effects /\ wread' = wread
      BY <1>2, <3>1 DEF Claim
    <3> QED BY <3>3, <3>4, <3>5
  <2>5. wpc[w] = "recovering" /\ wjob[w] \notin Jobs
    BY <1>2 DEF Claim
  <2>6. \A k \in Jobs : Undisturbed(k)'
    BY <2>2, <2>4, <2>5
  <2>7. \A v \in Workers : wstale'[v] = NoStale /\ InHand(v)'
    BY <2>2, <2>3, <2>4
  <2> QED BY <2>6, <2>7
<1>3. CASE ClaimNothing(w)
  <2>1. Recovered(w) = {} /\ Requeued(w) = {} /\ Expired(w) = {}
    BY DEF Recovered, Requeued, Expired, NoStale
  <2>2. status' = status /\ lockedBy' = lockedBy
    BY <1>3, <2>1 DEF ClaimNothing, StatusAfterRecovery
  <2>3. \A k \in Jobs : ~leaseOver'[k]
    BY <1>3 DEF ClaimNothing
  <2>4. wstale'[w] = NoStale /\ \A v \in Workers : v # w => wstale'[v] = wstale[v]
    BY <1>3 DEF ClaimNothing
  <2>5. wpc[w] = "recovering" /\ wpc' = [wpc EXCEPT ![w] = "idle"]
        /\ wjob' = wjob /\ wread' = wread /\ effects' = effects
    BY <1>3 DEF ClaimNothing
  <2> QED BY <2>2, <2>3, <2>4, <2>5
<1>4. CASE DropClaim(w)
  BY <1>4 DEF DropClaim, Owns, GoIdle
<1>5. CASE StartExecution(w)
  BY <1>5 DEF StartExecution
<1>6. CASE HandlerFlush(w)
  BY <1>6 DEF HandlerFlush
<1>7. CASE HandlerRaises(w)
  BY <1>7 DEF HandlerRaises
<1>8. CASE FinishHandler(w)
  BY <1>8 DEF FinishHandler
<1>9. CASE CommitCompletion(w)
  <2>1. PICK j \in Jobs : wjob[w] = j
    BY <1>9 DEF CommitCompletion
  <2>2. /\ effects[j] = 0 /\ \A v \in Workers : wjob[v] = j => v = w
        /\ status' = [status EXCEPT ![j] = "completed"]
        /\ lockedBy' = [lockedBy EXCEPT ![j] = NoWorker]
        /\ leaseOver' = [leaseOver EXCEPT ![j] = FALSE]
        /\ effects' = [effects EXCEPT ![j] = @ + 1]
        /\ wpc' = [wpc EXCEPT ![w] = "idle"] /\ wjob' = [wjob EXCEPT ![w] = NoJob]
        /\ wstale' = wstale /\ wread' = wread
    BY <1>9, <2>1 DEF CommitCompletion, GoIdle
  <2>3. \A k \in Jobs : Undisturbed(k)'
    BY <2>1, <2>2
  <2>4. \A v \in Workers : wstale'[v] = NoStale /\ InHand(v)'
    BY <2>1, <2>2
  <2> QED BY <2>3, <2>4
<1>10. CASE FailReread(w)
  <2>1. PICK j \in Jobs : wjob[w] = j
    BY <1>10 DEF FailReread
  <2>2. /\ wread'[w].locked = (lockedBy[j] # NoWorker) /\ wread'[w].status = status[j]
        /\ \A v \in Workers : v # w => wread'[v] = wread[v] /\ wpc'[v] = wpc[v]
    BY <1>10, <2>1 DEF FailReread
  <2>3. UNCHANGED <<status, lockedBy, leaseOver, effects, wjob, wstale>>
    BY <1>10 DEF FailReread
  <2>4. lockedBy[j] # NoWorker /\ status[j] \in {"running", "cancelled"}
    BY <2>1
  <2>5. wread'[w].locked /\ wread'[w].status \in {"running", "cancelled"}
    BY <2>2, <2>4
  <2>6. \A v \in Workers : wstale'[v] = NoStale /\ InHand(v)'
    BY <2>2, <2>3, <2>5
  <2> QED BY <2>3, <2>6
<1>11. CASE FailCommit(w)
  <2>1. PICK j \in Jobs : wjob[w] = j
    BY <1>11 DEF FailCommit
  <2>2. \A v \in Workers : wjob[v] = j => v = w
    BY <2>1
  <2>3. /\ wread[w].locked /\ wread[w].status \in {"running", "cancelled"}
    BY <1>11, <2>1 DEF FailCommit
  <2>4. /\ \E s \in {"queued", "failed"} : status' = [status EXCEPT ![j] = s]
        /\ lockedBy' = [lockedBy EXCEPT ![j] = NoWorker]
        /\ leaseOver' = [leaseOver EXCEPT ![j] = FALSE]
        /\ effects' = effects /\ wstale' = wstale
    BY <1>11, <2>1, <2>3 DEF FailCommit, WrittenStatus
  <2>5. /\ wpc' = [wpc EXCEPT ![w] = "idle"] /\ wjob' = [wjob EXCEPT ![w] = NoJob]
        /\ wread' = [wread EXCEPT ![w] = NoRead]
    BY <1>11 DEF FailCommit, GoIdle
  <2>6. \A k \in Jobs : Undisturbed(k)'
    BY <2>1, <2>2, <2>4, <2>5
  <2>7. \A v \in Workers : wstale'[v] = NoStale /\ InHand(v)'
    BY <2>1, <2>2, <2>4, <2>5
  <2> QED BY <2>6, <2>7
<1> QED BY <1>1, <1>2, <1>3, <1>4, <1>5, <1>6, <1>7, <1>8, <1>9, <1>10, <1>11
        DEF WorkerStep, FinishPoll

LEMMA CalmKeeps ==
  ASSUME LeaseOutlivesHandler, Typed, Calm, [Next]_vars
  PROVE  Calm'
<1>1. CASE UNCHANGED vars
  BY <1>1 DEF Calm, Undisturbed, InHand, vars, rowVars, outVars, wVars
<1> QED BY <1>1, ClerkCalm, WorkerCalm, EnvironmentCalm DEF Next

LEMMA CalmIsWorkedOnce ==
  ASSUME Typed, Calm
  PROVE  OneExecutor /\ EffectOnce
BY DEF Typed, TypeOK, WorkerJob, Calm, Undisturbed, InHand, OneExecutor, EffectOnce

CalmHolds == LeaseOutlivesHandler => Calm

(* What holds of calm weather and quiet times in every behaviour.           *)
LEMMA CalmAlways == Spec => [](Typed /\ CalmHolds)
<1>1. Init => Typed /\ CalmHolds
  BY InitTyped, CalmStarts DEF CalmHolds
<1>2. Typed /\ CalmHolds /\ [Next]_vars => Typed' /\ CalmHolds'
  <2> SUFFICES ASSUME Typed, CalmHolds, [Next]_vars PROVE Typed' /\ CalmHolds'
    OBVIOUS
  <2>1. LeaseOutlivesHandler' => LeaseOutlivesHandler
    BY DEF LeaseOutlivesHandler, Next, vars
  <2> QED BY <2>1, NextTyped, CalmKeeps DEF CalmHolds
<1> QED BY <1>1, <1>2, PTL DEF Spec

(* While leases outlive handlers no two workers execute a job at the same   *)
(* time and the work of any job is committed at most once, for any number   *)
(* of workers, jobs and requests and whatever is cancelled meanwhile.       *)
THEOREM NobodyWorksTwice == Spec => []WorkedOnce
<1>1. Typed /\ CalmHolds => WorkedOnce
  BY CalmIsWorkedOnce DEF CalmHolds, WorkedOnce
<1> QED BY <1>1, CalmAlways, PTL
-----------------------------------------------------------------------------
(* Quiet times: besides, files outlive the backlog and nobody cancels.      *)

Supplied(w) ==
  wjob[w] \in Jobs =>
    /\ status[wjob[w]] = "running"
    /\ wpc[w] = "recording" /\ wread[w].retry => HasInput(wjob[w])

Fed == /\ \A c \in Clerks : cpc[c] \in {"idle", "insert"}
       /\ \A w \in Workers : Supplied(w)
       /\ PendingHasInput

LEMMA FedStarts == Init => Fed
BY JobsAssumption DEF Init, Fed, Supplied, PendingHasInput

LEMMA ClerkFed ==
  ASSUME BacklogYoung, Typed, Calm, Fed, NEW c \in Clerks, ClerkStep(c)
  PROVE  Fed'
<1> USE JobsAssumption, KeysAssumption
    DEF BacklogYoung, Unattended, Typed, TypeOK, ClerkArg, WorkerJob, Calm, Undisturbed, InHand,
        Fed, Supplied, PendingHasInput, HasInput, rowVars, outVars, wVars, cVars
<1>1. CASE \E k \in Keys \cup {NoKey} : EnqueueLookup(c, k)
  BY <1>1 DEF EnqueueLookup
<1>2. ASSUME NEW j \in Jobs, EnqueueInsert(c, j) PROVE Fed'
  BY <1>2 DEF EnqueueInsert, InsertRow
<1>3. CASE EnqueueConflict(c)
  BY <1>3 DEF EnqueueConflict
<1>4. /\ ~\E j \in Jobs : CancelRead(c, j)
      /\ ~CancelUnlink(c) /\ ~CancelCommit(c) /\ ~CancelAborts(c)
  BY DEF CancelRead, CancelUnlink, CancelCommit, CancelAborts
<1>5. ~(\E old, new \in Jobs : Retry(c, old, new))
  BY DEF Retry
<1> QED BY <1>1, <1>2, <1>3, <1>4, <1>5 DEF ClerkStep, EnqueueFlush

LEMMA EnvironmentFed ==
  ASSUME BacklogYoung, Typed, Calm, Fed, Environment
  PROVE  Fed'
<1> USE JobsAssumption
    DEF BacklogYoung, LeaseOutlivesHandler, WorkersMayCrash, Typed, TypeOK, Calm, Undisturbed,
      InHand,
        Fed, Supplied, PendingHasInput, HasInput, rowVars, outVars, wVars, cVars
<1>1. ~\E w \in Workers : Crash(w)
  BY DEF Crash
<1>2. CASE \E j \in Jobs : LeaseExpires(j)
  BY <1>2 DEF LeaseExpires, InFlight
<1>3. CASE \E j \in Jobs : BackoffElapses(j)
  BY <1>3 DEF BackoffElapses
<1>4. CASE \E j \in Jobs : PurgeFinished(j)
  BY <1>4 DEF PurgeFinished, InFlight, Terminal
<1>5. CASE \E j \in Jobs : SweepQuarantine(j)
  BY <1>5 DEF SweepQuarantine
<1> QED BY <1>1, <1>2, <1>3, <1>4, <1>5 DEF Environment

LEMMA WorkerFed ==
  ASSUME Typed, Calm, Fed, NEW w \in Workers, WorkerStep(w)
  PROVE  Fed'
<1> USE JobsAssumption, WorkersAssumption
    DEF Typed, TypeOK, WorkerJob, Calm, Undisturbed, InHand, Fed, Supplied,
        PendingHasInput, HasInput, rowVars, outVars, wVars, cVars
<1>1. CASE ReadStale(w)
  BY <1>1 DEF ReadStale
<1>2. ASSUME NEW j \in Jobs, Claim(w, j) PROVE Fed'
  <2>1. Recovered(w) = {} /\ Requeued(w) = {} /\ Expired(w) = {}
    BY DEF Recovered, Requeued, Expired, NoStale
  <2>2. status[j] = "queued" /\ wpc[w] = "recovering" /\ wjob[w] \notin Jobs
    BY <1>2, <2>1 DEF Claim, Claimable, StatusAfterRecovery
  <2>3. \A v \in Workers : wjob[v] # j
    BY <2>2
  <2>4. /\ status' = [status EXCEPT ![j] = "running"]
        /\ wpc' = [wpc EXCEPT ![w] = "claimed"] /\ wjob' = [wjob EXCEPT ![w] = j]
        /\ file' = file /\ wread' = wread /\ cpc' = cpc
    <3>1. StatusAfterRecovery(w) = status
      BY <2>1 DEF StatusAfterRecovery
    <3> QED BY <1>2, <2>1, <3>1 DEF Claim
  <2>5. \A v \in Workers : Supplied(v)'
    BY <2>3, <2>4
  <2>6. PendingHasInput'
    BY <2>2, <2>3, <2>4
  <2> QED BY <2>4, <2>5, <2>6
<1>3. CASE ClaimNothing(w)
  BY <1>3 DEF ClaimNothing, StatusAfterRecovery, Recovered, Requeued, Expired, NoStale
<1>4. CASE DropClaim(w)
  BY <1>4 DEF DropClaim, Owns, GoIdle
<1>5. CASE StartExecution(w)
  BY <1>5 DEF StartExecution
<1>6. CASE HandlerFlush(w)
  BY <1>6 DEF HandlerFlush
<1>7. CASE HandlerRaises(w)
  BY <1>7 DEF HandlerRaises
<1>8. CASE FinishHandler(w)
  BY <1>8 DEF FinishHandler
<1>9. CASE CommitCompletion(w)
  BY <1>9 DEF CommitCompletion, GoIdle
<1>10. CASE FailReread(w)
  <2>1. PICK j \in Jobs : wjob[w] = j
    BY <1>10 DEF FailReread
  <2>2. /\ \A v \in Workers : wjob[v] = j => v = w
        /\ status[j] = "running" /\ wpc[w] = "failing"
    BY <1>10, <2>1 DEF FailReread
  <2>3. HasInput(j)
    BY SMTT(30), <2>1, <2>2
  <2>4. /\ wread'[w].retry = MayRetry(attempts[j])
        /\ file'[j] = IF MovesToRejected(j) THEN "rejected" ELSE file[j]
        /\ wpc'[w] = "recording"
        /\ \A v \in Workers : v # w => wread'[v] = wread[v] /\ wpc'[v] = wpc[v]
        /\ \A k \in Jobs : k # j => file'[k] = file[k]
    BY <1>10, <2>1 DEF FailReread
  <2>5. UNCHANGED <<status, wjob, cpc>>
    BY <1>10 DEF FailReread
  <2>6. ASSUME NEW v \in Workers PROVE Supplied(v)'
    <3>1. CASE v = w
      BY <2>1, <2>2, <2>3, <2>4, <2>5, <3>1 DEF MovesToRejected
    <3>2. CASE v # w
      <4>1. wjob[v] # j
        BY <2>2, <3>2
      <4> QED BY <2>4, <2>5, <3>2, <4>1
    <3> QED BY <3>1, <3>2
  <2>7. ASSUME NEW k \in Ingest, status'[k] \in {"queued", "running"}
        PROVE  \/ HasInput(k)'
               \/ \E v \in Workers : (wjob[v] = k /\ wpc[v] \in {"unlinked", "recording"})'
    <3>1. CASE k = j
      BY <2>1, <2>4, <2>5, <3>1
    <3>2. CASE k # j /\ HasInput(k)
      BY <2>4, <3>2
    <3>3. CASE k # j /\ \E v \in Workers : wjob[v] = k /\ wpc[v] \in {"unlinked", "recording"}
      BY <2>1, <2>4, <2>5, <3>3
    <3>4. HasInput(k) \/ \E v \in Workers : wjob[v] = k /\ wpc[v] \in {"unlinked", "recording"}
      <4>1. status[k] \in {"queued", "running"}
        BY <2>5, <2>7
      <4> QED BY <4>1
    <3> QED BY <3>1, <3>2, <3>3, <3>4
  <2> QED BY <2>5, <2>6, <2>7 DEF PendingHasInput
<1>11. CASE FailCommit(w)
  <2>1. PICK j \in Jobs : wjob[w] = j
    BY <1>11 DEF FailCommit
  <2>2. /\ \A v \in Workers : wjob[v] = j => v = w
        /\ wread[w].status \in {"running", "cancelled"} /\ wpc[w] = "recording"
        /\ wread[w].retry => HasInput(j)
    BY <1>11, <2>1 DEF FailCommit
  <2>3. /\ status' = [status EXCEPT ![j] = IF wread[w].retry THEN "queued" ELSE "failed"]
        /\ file' = file /\ cpc' = cpc
    BY <1>11, <2>1, <2>2 DEF FailCommit, WrittenStatus
  <2>4. /\ wpc' = [wpc EXCEPT ![w] = "idle"] /\ wjob' = [wjob EXCEPT ![w] = NoJob]
        /\ wread' = [wread EXCEPT ![w] = NoRead]
    BY <1>11 DEF FailCommit, GoIdle
  <2>5. ASSUME NEW v \in Workers PROVE Supplied(v)'
    <3>1. CASE v = w
      BY <2>4, <3>1
    <3>2. CASE v # w
      <4>1. wjob[v] # j
        BY <2>2, <3>2
      <4> QED BY <2>1, <2>3, <2>4, <3>2, <4>1
    <3> QED BY <3>1, <3>2
  <2>6. PendingHasInput'
    BY <2>1, <2>2, <2>3, <2>4
  <2> QED BY <2>3, <2>5, <2>6
<1> QED BY <1>1, <1>2, <1>3, <1>4, <1>5, <1>6, <1>7, <1>8, <1>9, <1>10, <1>11
        DEF WorkerStep, FinishPoll

LEMMA FedKeeps ==
  ASSUME BacklogYoung, Typed, Calm, Fed, [Next]_vars
  PROVE  Fed'
<1>1. CASE UNCHANGED vars
  BY <1>1 DEF Fed, Supplied, PendingHasInput, HasInput, vars, rowVars, outVars, wVars, cVars
<1> QED BY <1>1, ClerkFed, WorkerFed, EnvironmentFed DEF Next

FedHolds == BacklogYoung => Fed

(* While files outlive the backlog and nobody cancels, a job that still has *)
(* to run has the file it was created for, except while a worker is between *)
(* removing or moving it and the commit, for any number of workers and jobs *)
(* that compete.                                                            *)
THEOREM InputsOutliveTheBacklog == Spec => []InputIsKept
<1>1. Init => FedHolds
  BY FedStarts DEF FedHolds
<1>2. Typed /\ CalmHolds /\ FedHolds /\ [Next]_vars => FedHolds'
  <2> SUFFICES ASSUME Typed, CalmHolds, FedHolds, [Next]_vars, BacklogYoung' PROVE Fed'
    BY DEF FedHolds
  <2>1. BacklogYoung /\ LeaseOutlivesHandler
    BY DEF BacklogYoung, LeaseOutlivesHandler, Next, vars
  <2> QED BY <2>1, FedKeeps DEF CalmHolds, FedHolds
<1>3. FedHolds => InputIsKept
  BY DEF FedHolds, Fed, InputIsKept
<1> QED BY <1>1, <1>2, <1>3, CalmAlways, PTL DEF Spec
=============================================================================
