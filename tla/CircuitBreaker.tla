--------------------------- MODULE CircuitBreaker ---------------------------
(***************************************************************************)
(* The breaker of one downstream service (app/utils/circuit_breaker.py of  *)
(* the edge) as functions of its state b and the clock t.  None of its     *)
(* methods awaits, so each is one atomic step of the event loop.           *)
(***************************************************************************)
EXTENDS Naturals

CONSTANTS
  FailThreshold,   \* fail_threshold
  FailWindow,      \* fail_window_seconds
  OpenCooldown,    \* open_cooldown_seconds
  HalfOpenProbe    \* half_open_probe_seconds

ASSUME BreakerAssumption ==
  /\ FailThreshold \in Nat \ {0}
  /\ FailWindow \in Nat /\ OpenCooldown \in Nat /\ HalfOpenProbe \in Nat

States == {"CLOSED", "OPEN", "HALF_OPEN"}

Breakers == [state : States, failures : Nat, last_failure_ts : Nat, opened_ts : Nat,
             next_half_open_try_ts : Nat]

NewBreaker == [state |-> "CLOSED", failures |-> 0, last_failure_ts |-> 0, opened_ts |-> 0,
               next_half_open_try_ts |-> 0]

Cooled(b, t) == b.state = "OPEN" /\ t - b.opened_ts >= OpenCooldown
ProbeDue(b, t) == b.state = "HALF_OPEN" /\ t >= b.next_half_open_try_ts

\* allow(): its result, and the state it leaves.
Allows(b, t) == b.state = "CLOSED" \/ Cooled(b, t) \/ ProbeDue(b, t)

\* Mutant of AfterAllow: the next probe is never put off.
AfterAllowForgets(b, t) ==
  IF Cooled(b, t) THEN [b EXCEPT !.state = "HALF_OPEN", !.next_half_open_try_ts = t] ELSE b

\* Mutant of AfterAllow: the state stays OPEN after the cooldown.
AfterAllowStaysOpen(b, t) ==
  IF ProbeDue(b, t) THEN [b EXCEPT !.next_half_open_try_ts = t + HalfOpenProbe] ELSE b

AfterAllow(b, t) ==
  CASE Cooled(b, t)   -> [b EXCEPT !.state = "HALF_OPEN", !.next_half_open_try_ts = t]
    [] ProbeDue(b, t) -> [b EXCEPT !.next_half_open_try_ts = t + HalfOpenProbe]
    [] OTHER          -> b

\* Mutant of AfterSuccess: the failure count survives.
AfterSuccessKeepsCount(b) == [b EXCEPT !.state = "CLOSED"]

AfterSuccess(b) == [b EXCEPT !.state = "CLOSED", !.failures = 0]

\* Failures older than the window no longer count.
FailureCount(b, t) == (IF t - b.last_failure_ts > FailWindow THEN 0 ELSE b.failures) + 1

AfterFailure(b, t) ==
  LET counted == [b EXCEPT !.failures = FailureCount(b, t), !.last_failure_ts = t]
  IN  IF FailureCount(b, t) >= FailThreshold
      THEN [counted EXCEPT !.state = "OPEN", !.opened_ts = t]
      ELSE counted
=============================================================================
