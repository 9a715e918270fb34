----------------------------- MODULE RateLimits -----------------------------
(***************************************************************************)
(* Fixed windows that limit how often a key is used.  A request reads the  *)
(* clock, then consumes the counter in one statement, so that a request    *)
(* that is held up in between counts with an old time.                     *)
(***************************************************************************)
EXTENDS Naturals, FiniteSets

CONSTANTS
  Requests,   \* requests that are at work at a time (a bound)
  Limit, Window,
  MaxDelay,   \* time between the clock and the statement (a bound)
  MaxTime     \* (a bound)

VARIABLES
  clock,
  counter,    \* the row of the key, {} if there is none
  stamp,      \* per request: the time it has read, {} if it has not
  granted     \* requests that were allowed: when, and in which window (not in the code)

vars == <<clock, counter, stamp, granted>>

Init ==
  /\ clock = 0
  /\ counter = {}
  /\ stamp = [t \in Requests |-> {}]
  /\ granted = {}

ReadClock(t) ==
  /\ stamp[t] = {}
  /\ stamp' = [stamp EXCEPT ![t] = {clock}]
  /\ UNCHANGED <<clock, counter, granted>>

(* INSERT ... ON CONFLICT DO UPDATE: a window that is over at the time of   *)
(* the request gives way to one that starts then.                           *)
NewWindow(now) == [expires |-> now + Window, count |-> 1]

(* A count past the limit is counted no further (a bound).                  *)
Used(c, now) ==
  IF c.expires <= now THEN NewWindow(now)
  ELSE [c EXCEPT !.count = IF @ > Limit THEN @ ELSE @ + 1]

\* mutant: one more than the limit is allowed
AllowedOneMore(c) == c.count <= Limit + 1
Allowed(c) == c.count <= Limit

Consume(t) ==
  /\ \E now \in stamp[t] :
       LET c == IF counter = {} THEN NewWindow(now)
                ELSE Used(CHOOSE d \in counter : TRUE, now)
       IN  /\ counter' = {c}
           /\ granted' = granted \cup {[at |-> clock, expires |-> d.expires, count |-> d.count] :
                                     d \in {e \in counter' : Allowed(e)}}
  /\ stamp' = [stamp EXCEPT ![t] = {}]
  /\ UNCHANGED clock

(* Maintenance removes counters that have been over for some time.          *)
Purge ==
  /\ \E c \in counter : c.expires + Window < clock
  /\ counter' = {}
  /\ UNCHANGED <<clock, stamp, granted>>

Tick ==
  /\ clock < MaxTime
  /\ \A t \in Requests : \A n \in stamp[t] : clock < n + MaxDelay
  /\ clock' = clock + 1
  /\ UNCHANGED <<counter, stamp, granted>>

Next == (\E t \in Requests : ReadClock(t) \/ Consume(t)) \/ Purge \/ Tick

Spec == Init /\ [][Next]_vars
-----------------------------------------------------------------------------
GrantedIn(from, to) == {g \in granted : from <= g.at /\ g.at <= to}

(* Two limits are the most that any stretch of time as long as a window,    *)
(* less the delay of a request, lets through: it meets at most two windows. *)
TwiceTheLimit ==
  \A from, to \in 0..MaxTime :
    to - from <= Window - MaxDelay => Cardinality(GrantedIn(from, to)) <= 2 * Limit
=============================================================================
