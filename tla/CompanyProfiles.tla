-------------------------- MODULE CompanyProfiles --------------------------
(***************************************************************************)
(* The versions of a company's profile.  A configuration is stored once;   *)
(* asking for one that exists activates its version, another becomes the   *)
(* next version.  Nothing is locked: unique constraints refuse a number or *)
(* a configuration that another request has committed meanwhile.           *)
(***************************************************************************)
EXTENDS Naturals, FiniteSets

CONSTANTS
  Requests,   \* requests that are at work at a time (a bound)
  Configs     \* normalised configurations, identified by their hash

VARIABLES
  overlap,    \* whether requests overlap in this deployment
  versions,   \* rows: number, configuration, active
  tx

vars == <<overlap, versions, tx>>

Idle == [pc |-> "idle", config |-> {}, active |-> {}, number |-> 0]

Init ==
  /\ overlap \in BOOLEAN
  /\ versions = {}
  /\ tx = [t \in Requests |-> Idle]

Stored(c) == \E v \in versions : v.config = c
Actives   == {v \in versions : v.active}
NextNumber     == IF versions = {} THEN 1 ELSE 1 + CHOOSE n \in {v.number : v \in versions} :
                                              \A v \in versions : v.number <= n

(* A request looks for the configuration, then reads the last number and    *)
(* the active rows, or all rows if the configuration is stored.             *)
Create(t) ==
  /\ tx[t] = Idle /\ (overlap \/ \A u \in Requests : tx[u] = Idle)
  /\ \E c \in Configs :
       tx' = [tx EXCEPT ![t] = [Idle EXCEPT !.pc = IF Stored(c) THEN "activate" ELSE "create",
                                            !.config = {c}]]
  /\ UNCHANGED <<overlap, versions>>

ReadVersions(t) ==
  /\ tx[t].pc \in {"activate", "create"}
  /\ tx' = [tx EXCEPT ![t].pc = IF @ = "create" THEN "insert" ELSE "switch",
                      ![t].active = {v.number : v \in Actives},
                      ![t].number = NextNumber]
  /\ UNCHANGED <<overlap, versions>>

(* Rows that were read as active are set to inactive, and only these.       *)
Deactivated(t) ==
  {IF v.number \in tx[t].active THEN [v EXCEPT !.active = FALSE] ELSE v : v \in versions}

\* mutant: a configuration may be stored twice
FreeNumber(t) == \A v \in versions : v.number # tx[t].number
Free(t) == \A v \in versions : v.number # tx[t].number /\ v.config \notin tx[t].config

CommitNew(t) ==
  /\ tx[t].pc = "insert"
  /\ versions' = IF Free(t)
                 THEN Deactivated(t) \cup
                        {[number |-> tx[t].number, config |-> c, active |-> TRUE] : c \in tx[t].config}
                 ELSE versions
  /\ tx' = [tx EXCEPT ![t] = Idle]
  /\ UNCHANGED overlap

(* The row of the configuration becomes active unless it was read as such.  *)
CommitSwitch(t) ==
  /\ tx[t].pc = "switch"
  /\ versions' = {CASE v.config \notin tx[t].config /\ v.number \in tx[t].active -> [v EXCEPT !.active = FALSE]
                    [] v.config \in tx[t].config /\ v.number \notin tx[t].active -> [v EXCEPT !.active = TRUE]
                    [] OTHER -> v : v \in versions}
  /\ tx' = [tx EXCEPT ![t] = Idle]
  /\ UNCHANGED overlap

Next == \E t \in Requests : Create(t) \/ ReadVersions(t) \/ CommitNew(t) \/ CommitSwitch(t)

Spec == Init /\ [][Next]_vars
-----------------------------------------------------------------------------
(* Versions are numbered from 1 without gaps and no configuration is stored *)
(* twice, however requests overlap; one is active when they do not.         *)
VersionsAreConsistent ==
  /\ {v.number : v \in versions} = 1..Cardinality(versions)
  /\ \A v, w \in versions : v.config = w.config => v = w
  /\ ~overlap /\ versions # {} => Cardinality(Actives) = 1
=============================================================================
