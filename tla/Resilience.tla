----------------------------- MODULE Resilience -----------------------------
(***************************************************************************)
(* The decisions of worker/src/resilience as operators: the per-endpoint    *)
(* circuit breaker (breaker.rs) and the retry schedule (retry.rs).          *)
(*                                                                         *)
(* A breaker state is a record with the fields those decisions read.  The   *)
(* fields that are only stored and shown (consecutive_successes, opened_at, *)
(* last_failure_at, last_success_at) are left out.  Times and delays are    *)
(* integers in one unit; None is Rust's None.                               *)
(***************************************************************************)
EXTENDS Integers

CONSTANTS
    RetryAttempts,      \* retry_attempts            (5)
    BackoffBase,        \* backoff_base_delay        (5s)
    BackoffMax,         \* backoff_max_delay         (300s)
    BackoffMultiplier,  \* backoff_multiplier        (2)
    JitterMax,          \* jitter_max                (1s)
    FailureThreshold,   \* breaker_failure_threshold (5)
    RecoveryTimeout,    \* breaker_recovery_timeout  (60s)
    MinVisibility,      \* min_visibility            (30s)
    MaxVisibility,      \* max_visibility            (3600s)
    ProcessingOverhead, \* processing_overhead       (15s)
    None

ASSUME ResilienceConfig ==
    /\ RetryAttempts \in Nat
    /\ BackoffBase \in Nat \ {0}
    /\ BackoffMax \in Nat \ {0}
    /\ BackoffMultiplier \in Nat
    /\ JitterMax \in Nat
    /\ FailureThreshold \in Nat
    /\ RecoveryTimeout \in Nat \ {0}
    /\ MinVisibility \in Nat
    /\ MaxVisibility \in Nat
    /\ ProcessingOverhead \in Nat
    /\ None \notin Int

-----------------------------------------------------------------------------
(* Circuit breaker *)

BreakerMode == {"Closed", "Open", "HalfOpen"}

ClosedBreakerState ==
    [mode |-> "Closed", consecutive_failures |-> 0, next_probe_at |-> None,
     half_open_in_flight |-> FALSE, version |-> 0]

(* Wrong variants of the operators of this module, used by none of them: in *)
(* the place of the right one, each breaks the property that is there to    *)
(* catch it.                                                                *)
ProbeAlwaysDue(b, now) == b.next_probe_at # None
OnSuccessKeepsCount(b) ==
    IF b.mode = "HalfOpen"
    THEN [b EXCEPT !.mode = "Closed", !.next_probe_at = None,
                   !.half_open_in_flight = FALSE]
    ELSE b
OnFailureIgnoresProbe(b, now) ==
    LET counted == [b EXCEPT !.consecutive_failures = @ + 1]
    IN IF b.mode = "Closed" /\ counted.consecutive_failures >= FailureThreshold
       THEN [counted EXCEPT !.mode = "Open",
                            !.next_probe_at = now + RecoveryTimeout,
                            !.half_open_in_flight = FALSE]
       ELSE counted
BackoffOneStepAhead(attempt) ==
    LET delay == BackoffBase * BackoffMultiplier ^ (attempt + 1)
    IN IF delay <= BackoffMax THEN delay ELSE BackoffMax
VisibilityBelowMinimum(retry_delay) ==
    IF retry_delay + ProcessingOverhead <= MinVisibility
    THEN retry_delay + ProcessingOverhead ELSE MinVisibility
DelaySinceProbe(b, now) ==
    IF b.next_probe_at # None /\ now - b.next_probe_at >= 1
    THEN now - b.next_probe_at ELSE 1

-----------------------------------------------------------------------------
(* should_allow_request answers and edits its argument: the answer ...      *)
ProbeDue(b, now) == b.next_probe_at # None /\ now >= b.next_probe_at

ShouldAllow(b, now) ==
    \/ b.mode = "Closed"
    \/ b.mode = "Open" /\ ProbeDue(b, now)
    \/ b.mode = "HalfOpen" /\ ~b.half_open_in_flight

(* ... and the state it leaves: a request let through a breaker that is not *)
(* closed is the probe.                                                     *)
AfterGate(b, now) ==
    IF b.mode # "Closed" /\ ShouldAllow(b, now)
    THEN [b EXCEPT !.mode = "HalfOpen", !.half_open_in_flight = TRUE]
    ELSE b

OnSuccess(b) ==
    IF b.mode = "HalfOpen"
    THEN [b EXCEPT !.consecutive_failures = 0, !.mode = "Closed",
                   !.next_probe_at = None, !.half_open_in_flight = FALSE]
    ELSE [b EXCEPT !.consecutive_failures = 0]

OnFailure(b, now) ==
    LET counted == [b EXCEPT !.consecutive_failures = @ + 1]
    IN IF \/ b.mode = "HalfOpen"
          \/ b.mode = "Closed"
             /\ counted.consecutive_failures >= FailureThreshold
       THEN [counted EXCEPT !.mode = "Open",
                            !.next_probe_at = now + RecoveryTimeout,
                            !.half_open_in_flight = FALSE]
       ELSE counted

-----------------------------------------------------------------------------
(* Retry schedule *)

Smaller(a, b) == IF a <= b THEN a ELSE b
Larger(a, b)  == IF a >= b THEN a ELSE b

(* The loop of exponential_backoff: the delay before each pass, stopped at  *)
(* the maximum.  checked_mul overflows only above the maximum, where both   *)
(* exits of the loop return the maximum.                                    *)
BackoffLoop[n \in Nat] ==
    IF n = 0 THEN BackoffBase
             ELSE Smaller(BackoffLoop[n - 1] * Larger(BackoffMultiplier, 1),
                          BackoffMax)

ExponentialBackoff(attempt) == Smaller(BackoffLoop[attempt], BackoffMax)

(* calculate_retry_decision after a failed delivery: whether to retry, ...  *)
ShouldRetry(b) ==
    /\ b.mode # "Open"
    /\ b.consecutive_failures < RetryAttempts

(* ... and the delays the jitter allows; deliver_event raises them to 1.    *)
RetryDelays(b) ==
    {d \in 1..(BackoffMax + JitterMax) :
        \E j \in 0..JitterMax :
            d = Larger(ExponentialBackoff(b.consecutive_failures) + j, 1)}

ComputeVisibilityTimeout(retry_delay) ==
    Smaller(Larger(retry_delay + ProcessingOverhead, MinVisibility),
            MaxVisibility)

(* SQS takes visibility timeouts of 0 .. 12 hours; the clamp is in seconds. *)
ToSqsVisibilitySeconds(timeout) == Smaller(Larger(timeout, 0), 43200)

(* How long to wait when the breaker refuses the request.                   *)
RetryDelayFromBreaker(b, now) ==
    IF b.next_probe_at = None
    THEN Larger(RecoveryTimeout, 1)
    ELSE Larger(b.next_probe_at - now, 1)
=============================================================================
