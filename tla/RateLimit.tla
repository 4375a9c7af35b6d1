----------------------------- MODULE RateLimit -----------------------------
(***************************************************************************)
(* The limit on expensive requests of one user: a counter in Redis whose   *)
(* time to live is set in a second call, by whoever finds it without one.  *)
(* Without Redis everything is admitted.                                   *)
(*                                                                         *)
(* `granted` is history: how many requests of the counter's present life   *)
(* were admitted by its answer; `old` requests counted in an earlier life. *)
(***************************************************************************)
EXTENDS Requests, FiniteSets

CONSTANTS MaxRequests, \* max_requests
          MostCounted  \* a bound of the model: the counter stays there

ASSUME LimitAssumption ==
  /\ MaxRequests \in Nat \ {0}
  /\ MostCounted \in Nat /\ MostCounted > MaxRequests
  /\ IsFiniteSet(Requests)

VARIABLES
  counter, \* rate_limit:<action>:<user>; 0 is an absent key
  timed,   \* whether it has a time to live
  gate,    \* requests in _limiter
  granted

limitVars == <<counter, timed, gate, granted>>

Counters == 0..MostCounted

LimitTypeOK ==
  /\ counter \in Counters /\ timed \in BOOLEAN
  /\ counter = 0 => ~timed
  /\ gate \in [Requests -> {Free} \cup
       [op: {"count", "expire", "verdict"}, count: Counters, old: BOOLEAN]]
  /\ granted \in Nat

LimitInit ==
  /\ counter = 0 /\ timed = FALSE
  /\ gate = NoRequests
  /\ granted = 0

------------------------------------------------------------------------------

\* The user asks.
Enter(q) ==
  /\ gate[q] = Free
  /\ gate' = [gate EXCEPT ![q] = [op |-> "count", count |-> 0, old |-> FALSE]]
  /\ UNCHANGED <<counter, timed, granted>>

Count_ReadsFirst(q) ==
  LET next == IF counter < MostCounted THEN counter + 1 ELSE counter IN
  /\ gate[q].op = "count"
  /\ counter' = next
  /\ gate' = [gate EXCEPT ![q] = [op |-> IF timed THEN "verdict" ELSE "expire",
                                  count |-> counter, old |-> FALSE]]
  /\ UNCHANGED <<timed, granted>>

Count_TimedByFirst(q) ==
  LET next == IF counter < MostCounted THEN counter + 1 ELSE counter IN
  /\ gate[q].op = "count"
  /\ counter' = next
  /\ gate' = [gate EXCEPT ![q] = [op |-> IF next = 1 THEN "expire" ELSE "verdict",
                                  count |-> next, old |-> FALSE]]
  /\ UNCHANGED <<timed, granted>>

\* INCR and TTL in one transaction; without a TTL the key gets one.
Count(q) ==
  LET next == IF counter < MostCounted THEN counter + 1 ELSE counter IN
  /\ gate[q].op = "count"
  /\ counter' = next
  /\ gate' = [gate EXCEPT ![q] = [op |-> IF timed THEN "verdict" ELSE "expire",
                                  count |-> next, old |-> FALSE]]
  /\ UNCHANGED <<timed, granted>>

Expire_Recreates(q) ==
  /\ gate[q].op = "expire"
  /\ timed' = TRUE
  /\ gate' = [gate EXCEPT ![q].op = "verdict"]
  /\ UNCHANGED <<counter, granted>>

\* EXPIRE, of the key as it is by now: nothing, if it is gone.
Expire(q) ==
  /\ gate[q].op = "expire"
  /\ timed' = (counter # 0)
  /\ gate' = [gate EXCEPT ![q].op = "verdict"]
  /\ UNCHANGED <<counter, granted>>

\* Over the limit: 429.
Verdict(q) ==
  /\ gate[q].op = "verdict"
  /\ granted' = IF gate[q].count <= MaxRequests /\ ~gate[q].old THEN granted + 1 ELSE granted
  /\ gate' = [gate EXCEPT ![q] = Free]
  /\ UNCHANGED <<counter, timed>>

\* Redis fails at either call, and the request is admitted, even if it was
\* counted over the limit; or the process dies.
LimiterFails(q) ==
  /\ gate[q].op \in {"count", "expire"}
  /\ gate' = [gate EXCEPT ![q] = Free]
  /\ UNCHANGED <<counter, timed, granted>>

\* The window is over.
WindowEnds ==
  /\ timed
  /\ counter' = 0 /\ timed' = FALSE /\ granted' = 0
  /\ gate' = [q \in Requests |-> IF gate[q] = Free THEN Free ELSE [gate[q] EXCEPT !.old = TRUE]]

LimitNext ==
  \/ \E q \in Requests : Enter(q) \/ Count(q) \/ Expire(q) \/ Verdict(q) \/ LimiterFails(q)
  \/ WindowEnds

\* Windows end, and the user goes on asking and does not always hit a failure.
LimitFairness ==
  /\ WF_limitVars(WindowEnds)
  /\ \A q \in Requests :
       WF_limitVars(Enter(q)) /\ WF_limitVars(Verdict(q)) /\ SF_limitVars(Count(q))
       /\ SF_limitVars(Expire(q))

LimitSpec == LimitInit /\ [][LimitNext]_limitVars
------------------------------------------------------------------------------

\* In one life of the counter it admits no more than max_requests, however the
\* requests and the two calls of each overlap.
WithinLimit == granted <= MaxRequests

\* No user is locked out for good: a counter over the limit ends, even if the
\* request that should have given it a time to live died in between.
NoLockout == counter > MaxRequests ~> counter = 0
=============================================================================
