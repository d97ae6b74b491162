---------------------------- MODULE BreakerClock ----------------------------
(***************************************************************************)
(* The breaker and the retry schedule of Resilience on a clock of seconds,  *)
(* as one worker drives them for one endpoint: at any instant a message     *)
(* comes up, is let through or refused, and a request let through is        *)
(* answered some time later, or its answer is lost to an error on the way   *)
(* to the breaker.  With the configuration of the code this shows how the   *)
(* delays, the visibility timeouts and the recovery timeout fit.            *)
(***************************************************************************)
EXTENDS Resilience

CONSTANTS
    Step,        \* the clock moves by multiples of this many seconds
    MaxNow,      \* bound: the last instant looked at
    MaxFailures  \* bound: consecutive failures looked at

ASSUME ClockAssumption ==
    Step \in Nat \ {0} /\ MaxNow \in Nat /\ MaxFailures \in Nat

VARIABLES
    now,
    b,         \* the breaker state of the endpoint
    asking,    \* a request is out
    (* history, read by properties only *)
    opened_at, \* when the breaker was last opened
    back_at,   \* when a message that the open breaker refused comes up again
    probed     \* a probe was let through since that refusal

vars == <<now, b, asking, opened_at, back_at, probed>>

Visible(d) == ToSqsVisibilitySeconds(ComputeVisibilityTimeout(d))

Init ==
    /\ now = 0 /\ b = ClosedBreakerState
    /\ asking = FALSE /\ opened_at = None
    /\ back_at = None /\ probed = FALSE

(* A message comes up: the gate.  One of those an open breaker refuses is   *)
(* remembered.                                                              *)
Pass ==
    /\ ShouldAllow(b, now)
    /\ b' = AfterGate(b, now) /\ asking' = TRUE
    /\ probed' = (probed \/ b.mode # "Closed")
    /\ UNCHANGED back_at

Refuse ==
    /\ ~ShouldAllow(b, now)
    /\ \/ /\ b.mode = "Open"
          /\ back_at' = now + Visible(RetryDelayFromBreaker(b, now))
          /\ probed' = FALSE
       \/ UNCHANGED <<back_at, probed>>
    /\ UNCHANGED <<b, asking>>

Gate ==
    /\ ~asking
    /\ Pass \/ Refuse
    /\ UNCHANGED <<now, opened_at>>

(* The request is over, and with it the turn of its message: on_success or  *)
(* on_failure, or an error that ends deliver_event before either.           *)
Answer ==
    /\ asking /\ asking' = FALSE
    /\ \/ b' = OnSuccess(b)
       \/ b.consecutive_failures < MaxFailures /\ b' = OnFailure(b, now)
    /\ opened_at' = IF b'.mode = "Open" THEN now ELSE opened_at
    /\ UNCHANGED <<now, back_at, probed>>

Lost ==
    /\ asking /\ asking' = FALSE
    /\ UNCHANGED <<now, b, opened_at, back_at, probed>>

TimePasses ==
    /\ now + Step <= MaxNow /\ now' = now + Step
    /\ UNCHANGED <<b, asking, opened_at, back_at, probed>>

Next == Gate \/ Answer \/ Lost \/ TimePasses

Spec == Init /\ [][Next]_vars

-----------------------------------------------------------------------------
(* Every delay the worker can choose in this state.                         *)
Delays == RetryDelays(b) \cup {RetryDelayFromBreaker(b, now)}

(* An open breaker lets nothing through until it has been open for the      *)
(* recovery timeout, and then one probe at a time: the request out is the   *)
(* only one it let through.                                                 *)
HoldsOff ==
    asking /\ opened_at # None /\ b.mode # "Closed" =>
        now >= opened_at + RecoveryTimeout /\ b.half_open_in_flight

(* A message never comes up before the instant written in next_retry_at.    *)
NotBeforeNextRetry == \A d \in Delays : Visible(d) >= d

(* A message that an open breaker refused spends a second receive on a      *)
(* refusal only if another message's probe came first: while no probe was   *)
(* let through since, the breaker has room for one as soon as the message   *)
(* comes up again, however long that takes and whatever was lost before.    *)
RefusedAgainOnlyAfterProbe ==
    back_at # None /\ now >= back_at /\ ~ShouldAllow(b, now) => probed

(* Until the maximum is reached, every failure doubles the delay.           *)
BackoffIsExponential ==
    \A j \in 0..JitterMax :
        Smaller(BackoffBase * BackoffMultiplier ^ b.consecutive_failures, BackoffMax) + j
            \in RetryDelays(b)
=============================================================================
