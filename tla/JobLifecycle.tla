---------------------------- MODULE JobLifecycle ----------------------------
(***************************************************************************)
(* What the processing queue promises for one job when a single worker     *)
(* process serves it, whatever crashes, expiring leases and late           *)
(* cancellations do: attempts are counted and limited, an attempt that is  *)
(* lost is given back, the work is committed once, and a job whose work is *)
(* done never runs again.  Each job lives on its own, so a step of the     *)
(* system may move several jobs at once.                                   *)
(***************************************************************************)
EXTENDS Naturals

CONSTANTS Jobs, MaxAttempts

VARIABLES
  life,      \* absent, pending, active, done, dead, withdrawn, forgotten
  tries,     \* attempts begun
  underway,  \* an attempt is being executed
  done       \* times the job's work was committed

vars == <<life, tries, underway, done>>

Init ==
  /\ life = [j \in Jobs |-> "absent"]
  /\ tries = [j \in Jobs |-> 0]
  /\ underway = [j \in Jobs |-> FALSE]
  /\ done = [j \in Jobs |-> 0]

Same(j, state) ==
  /\ life'[j] = state
  /\ tries'[j] = tries[j]
  /\ underway'[j] = underway[j]
  /\ done'[j] = done[j]

Submit(j) == life[j] = "absent" /\ Same(j, "pending")

(* The last attempt was lost.  Its recovery may overtake a cancellation     *)
(* that arrived late, but never touches a job whose work is done.           *)
Lost(j) ==
  /\ ~underway[j]
  /\ life[j] \in {"active", "withdrawn"}
  /\ tries[j] > 0
  /\ done[j] = 0

(* An attempt begins on a pending job, or on one whose attempt was lost.    *)
Begin(j) ==
  /\ ~underway[j]
  /\ life[j] = "pending" \/ Lost(j)
  /\ tries[j] < MaxAttempts
  /\ life'[j] = "active"
  /\ tries'[j] = tries[j] + 1
  /\ underway'[j]
  /\ done'[j] = done[j]

(* The end of an attempt decides the job's state, even over a cancellation. *)
EndAs(j, state, work) ==
  /\ underway[j]
  /\ life'[j] = state
  /\ tries'[j] = tries[j]
  /\ ~underway'[j]
  /\ done'[j] = done[j] + work

Succeed(j) == EndAs(j, "done", 1)
Fail(j)    == EndAs(j, IF tries[j] < MaxAttempts THEN "pending" ELSE "dead", 0)
Lose(j)    == EndAs(j, life[j], 0)

(* A lost attempt is noticed: the job waits for another one or is given up. *)
Recover(j) ==
  /\ Lost(j)
  /\ Same(j, IF tries[j] < MaxAttempts THEN "pending" ELSE "dead")

(* A cancellation may arrive late and overwrite any state.                  *)
Withdraw(j) == life[j] \in {"pending", "active", "done", "dead", "withdrawn"}
                 /\ Same(j, "withdrawn")

Forget(j) == /\ life[j] \in {"done", "dead", "withdrawn"}
             /\ ~underway[j]
             /\ Same(j, "forgotten")

JobStep(j) ==
  \/ Submit(j) \/ Begin(j) \/ Succeed(j) \/ Fail(j) \/ Lose(j)
  \/ Recover(j) \/ Withdraw(j) \/ Forget(j)
  \/ Same(j, life[j])

Next ==
  /\ DOMAIN life' = Jobs /\ DOMAIN tries' = Jobs
  /\ DOMAIN underway' = Jobs /\ DOMAIN done' = Jobs
  /\ \A j \in Jobs : JobStep(j)

Spec == Init /\ [][Next]_vars
=============================================================================
