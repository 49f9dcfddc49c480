------------------------------ MODULE Throttle ------------------------------
(***************************************************************************)
(* services/rate_limit: a counter for each kind of request, kept as rows   *)
(* of the database so that every replica sees the same ones.  A request is *)
(* checked by one query and counted by a later insert, each on a           *)
(* connection of its own.  One key of each limiter is modelled: the ones of *)
(* another address or another e-mail are counted apart.                    *)
(***************************************************************************)
EXTENDS Naturals, FiniteSets

CONSTANTS MaxAttempts,  \* the threshold of every limiter
          Window,       \* the length of its window, in ticks
          MaxTime       \* bound on the clock

ASSUME ThrottleAssumption == MaxAttempts \in Nat \ {0} /\ Window \in Nat \ {0} /\ MaxTime \in Nat

VARIABLES now, hits     \* [Scopes -> [Times -> rows]]

Scopes == {"login", "registration", "password_reset"}
Times == 0..MaxTime
NoHits == [t \in Times |-> 0]

\* The rows of a limiter, and those a query of this moment counts.
Attempts(scope) == UNION {{t} \X (1..hits[scope][t]) : t \in Times}
InWindow(scope) == {row \in Attempts(scope) : row[1] + Window > now}
Recent(scope) == Cardinality(InWindow(scope))

\* Mutant: the attempt that reaches the threshold is let through.
LimitedLate(scope) == Recent(scope) > MaxAttempts

\* RateLimiter.check
Limited(scope) == Recent(scope) >= MaxAttempts

\* RateLimiter.record_failure
Counted(scope) == [hits EXCEPT ![scope][now] = @ + 1]

\* RateLimiter.reset: a successful login clears its own slate.
Forgiven(scope) == [hits EXCEPT ![scope] = NoHits]

\* sweep: the rows older than the widest window.
Swept == [scope \in Scopes |-> [t \in Times |-> IF t + Window < now THEN 0 ELSE hits[scope][t]]]
=============================================================================
