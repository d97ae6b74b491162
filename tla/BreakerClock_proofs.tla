------------------------- MODULE BreakerClock_proofs -------------------------
(***************************************************************************)
(* Theorems about BreakerClock, for any configuration and any clock.        *)
(***************************************************************************)
EXTENDS BreakerClock, TLAPS, WellFoundedInduction

-----------------------------------------------------------------------------
(* The breaker and the request it let through.                              *)

ClockState ==
    [mode                 : BreakerMode,
     consecutive_failures : Nat,
     next_probe_at        : Nat \cup {None},
     half_open_in_flight  : BOOLEAN,
     version              : Nat]

(* While the breaker is open the next probe is due a recovery timeout after *)
(* it was opened, and no request is out; a half-open breaker has given its  *)
(* probe's place away, and not before that -- whether the probe is still    *)
(* out or was lost.                                                         *)
ClockInv ==
    /\ now \in Nat /\ b \in ClockState /\ asking \in BOOLEAN
    /\ opened_at \in Nat \cup {None}
    /\ back_at \in Nat \cup {None} /\ probed \in BOOLEAN
    /\ opened_at # None => opened_at <= now
    /\ b.next_probe_at # None =>
         opened_at # None /\ b.next_probe_at = opened_at + RecoveryTimeout
    /\ b.mode = "Open" => b.next_probe_at # None /\ ~asking
    /\ b.mode = "HalfOpen" =>
         /\ b.half_open_in_flight
         /\ b.next_probe_at # None /\ now >= b.next_probe_at

LEMMA ClockInit == Init => ClockInv
<1> SUFFICES ASSUME Init PROVE ClockInv
  OBVIOUS
<1>1. b \in ClockState /\ b.mode = "Closed" /\ b.next_probe_at = None
  BY DEF Init, ClosedBreakerState, ClockState, BreakerMode
<1> QED  BY <1>1 DEF Init, ClockInv

LEMMA BackAtType ==
    ASSUME ClockInv, NEW d \in Nat
    PROVE  now + Visible(d) \in Nat
  BY ResilienceConfig
  DEF Visible, ToSqsVisibilitySeconds, ComputeVisibilityTimeout, Smaller, Larger, ClockInv

(* The wait of a refused request is at most the recovery timeout.           *)
LEMMA BreakerDelay ==
    ASSUME ClockInv
    PROVE  /\ RetryDelayFromBreaker(b, now) \in 1..RecoveryTimeout
           /\ b.next_probe_at # None =>
                now + RetryDelayFromBreaker(b, now) >= b.next_probe_at
  BY ResilienceConfig DEF ClockInv, ClockState, RetryDelayFromBreaker, Larger

LEMMA GateNext == ClockInv /\ Gate => ClockInv'
<1> SUFFICES ASSUME ClockInv, Gate PROVE ClockInv'
  OBVIOUS
<1>1. /\ now' = now /\ opened_at' = opened_at
      /\ back_at' \in Nat \cup {None} /\ probed' \in BOOLEAN
  <2>1. RetryDelayFromBreaker(b, now) \in Nat
    BY BreakerDelay, ResilienceConfig
  <2> QED  BY <2>1, BackAtType DEF Gate, Pass, Refuse, ClockInv
<1>2. CASE Pass /\ b.mode # "Closed"
  <2>1. /\ b' = [b EXCEPT !.mode = "HalfOpen", !.half_open_in_flight = TRUE]
        /\ asking' = TRUE
    BY <1>2 DEF Pass, AfterGate
  <2>2. b.next_probe_at # None /\ now >= b.next_probe_at
    BY <1>2 DEF Pass, ShouldAllow, ProbeDue, ClockInv
  <2> QED
    BY <1>1, <2>1, <2>2 DEF ClockInv, ClockState, BreakerMode
<1>3. CASE Pass /\ b.mode = "Closed"
  <2>1. b' = b /\ asking' = TRUE
    BY <1>3 DEF Pass, AfterGate
  <2> QED  BY <1>1, <1>3, <2>1 DEF ClockInv
<1>4. CASE Refuse
  BY <1>1, <1>4 DEF Refuse, ClockInv
<1> QED  BY <1>2, <1>3, <1>4 DEF Gate

LEMMA AnswerNext == ClockInv /\ Answer => ClockInv'
<1> SUFFICES ASSUME ClockInv, Answer PROVE ClockInv'
  OBVIOUS
<1>1. /\ now' = now /\ asking' = FALSE /\ b.mode \in {"Closed", "HalfOpen"}
      /\ opened_at' = IF b'.mode = "Open" THEN now ELSE opened_at
      /\ back_at' = back_at /\ probed' = probed
  BY DEF Answer, ClockInv, ClockState, BreakerMode
<1>2. CASE b' = OnSuccess(b)
  <2>1. /\ b' \in ClockState /\ b'.mode = "Closed"
        /\ b'.next_probe_at \in {None, b.next_probe_at}
    BY <1>1, <1>2 DEF OnSuccess, ClockInv, ClockState, BreakerMode
  <2> QED
    BY <1>1, <2>1 DEF ClockInv
<1>3. CASE b' = OnFailure(b, now)
  <2> DEFINE counted == [b EXCEPT !.consecutive_failures = @ + 1]
  <2>1. counted \in ClockState /\ counted.mode = b.mode
        /\ counted.next_probe_at = b.next_probe_at
    BY DEF ClockInv, ClockState
  <2>2. now + RecoveryTimeout \in Nat
    BY ResilienceConfig DEF ClockInv
  <2>3. CASE b' = [counted EXCEPT !.mode = "Open",
                                  !.next_probe_at = now + RecoveryTimeout,
                                  !.half_open_in_flight = FALSE]
    <3> HIDE DEF counted
    <3>1. /\ b' \in ClockState /\ b'.mode = "Open"
          /\ b'.next_probe_at = now + RecoveryTimeout
      BY <2>1, <2>2, <2>3 DEF ClockState, BreakerMode
    <3>2. now # None /\ now + RecoveryTimeout # None
      BY <2>2, ResilienceConfig DEF ClockInv
    <3>3. /\ now' = now /\ asking' = FALSE /\ opened_at' = now
          /\ now \in Nat /\ now <= now
      BY <1>1, <3>1 DEF ClockInv
    <3>4. /\ back_at' \in Nat \cup {None} /\ probed' \in BOOLEAN
          /\ b'.mode # "HalfOpen" /\ b'.next_probe_at = opened_at' + RecoveryTimeout
      BY <1>1, <3>1, <3>3 DEF ClockInv
    <3> QED
      BY <3>1, <3>2, <3>3, <3>4 DEF ClockInv
  <2>4. CASE b' = counted /\ b.mode # "HalfOpen"
    <3> HIDE DEF counted
    <3>1. /\ b' \in ClockState /\ b'.mode = "Closed"
          /\ b'.next_probe_at = b.next_probe_at /\ opened_at' = opened_at
      BY <1>1, <2>1, <2>4
    <3> QED
      BY <1>1, <3>1 DEF ClockInv
  <2> QED  BY <1>3, <2>3, <2>4 DEF OnFailure
<1> QED  BY <1>2, <1>3 DEF Answer

LEMMA LostNext == ClockInv /\ Lost => ClockInv'
  BY DEF ClockInv, Lost

LEMMA TimePassesNext == ClockInv /\ TimePasses => ClockInv'
<1> SUFFICES ASSUME ClockInv, TimePasses PROVE ClockInv'
  OBVIOUS
<1>1. now' \in Nat /\ now' >= now
  BY ClockAssumption DEF TimePasses, ClockInv
<1> QED
  BY <1>1, ResilienceConfig DEF TimePasses, ClockInv, ClockState

LEMMA ClockInvariant == Spec => []ClockInv
<1>1. ClockInv /\ [Next]_vars => ClockInv'
  <2>1. ClockInv /\ UNCHANGED vars => ClockInv'
    BY DEF vars, ClockInv
  <2> QED  BY <2>1, GateNext, AnswerNext, LostNext, TimePassesNext DEF Next
<1> QED  BY <1>1, ClockInit, PTL DEF Spec

(* An open breaker lets nothing through until it has been open for the      *)
(* recovery timeout, and then one probe at a time, whatever the             *)
(* configuration (breaker.rs 3-66).                                         *)
THEOREM HoldsOffHolds == Spec => []HoldsOff
<1>1. ClockInv => HoldsOff
  BY DEF ClockInv, ClockState, BreakerMode, HoldsOff
<1> QED  BY <1>1, ClockInvariant, PTL

-----------------------------------------------------------------------------
(* Delays and visibility timeouts.                                          *)

(* What SQS takes, and what max_visibility must allow for: no delay the     *)
(* worker chooses is cut off.  ResilienceConfig::default satisfies this     *)
(* with room to spare.                                                      *)
DelaysFit ==
    LET longest == Larger(BackoffMax + JitterMax, RecoveryTimeout)
    IN longest <= MaxVisibility /\ longest <= 43200

(* A timeout is only shorter than the delay it is for when it is cut off.   *)
LEMMA VisibleLongEnough ==
    ASSUME DelaysFit, NEW d \in Nat,
           d <= BackoffMax + JitterMax \/ d <= RecoveryTimeout
    PROVE  Visible(d) \in Nat /\ Visible(d) >= d
<1>1. d <= MaxVisibility /\ d <= 43200
  BY ResilienceConfig DEF DelaysFit, Larger
<1>2. d + ProcessingOverhead \in Nat /\ d + ProcessingOverhead >= d
  BY ResilienceConfig
<1>3. ComputeVisibilityTimeout(d) \in Nat /\ ComputeVisibilityTimeout(d) >= d
  BY <1>1, <1>2, ResilienceConfig DEF ComputeVisibilityTimeout, Smaller, Larger
<1> QED
  BY <1>1, <1>3 DEF Visible, ToSqsVisibilitySeconds, Smaller, Larger

(* With a configuration whose delays fit, a message never comes up before   *)
(* the instant written in next_retry_at (retry.rs 93-116).                  *)
THEOREM NotBeforeNextRetryHolds ==
    ASSUME DelaysFit
    PROVE  Spec => []NotBeforeNextRetry
<1>1. ASSUME ClockInv, NEW d \in Delays PROVE Visible(d) >= d
  <2>1. CASE d \in RetryDelays(b)
    <3>1. d \in Nat /\ d <= BackoffMax + JitterMax
      BY <2>1, ResilienceConfig DEF RetryDelays
    <3> QED  BY <3>1, VisibleLongEnough
  <2>2. CASE d = RetryDelayFromBreaker(b, now)
    <3>1. d \in Nat /\ d <= RecoveryTimeout
      BY <1>1, <2>2, BreakerDelay, ResilienceConfig
    <3> QED  BY <3>1, VisibleLongEnough
  <2> QED  BY <1>1, <2>1, <2>2 DEF Delays
<1>2. ClockInv => NotBeforeNextRetry
  BY <1>1 DEF NotBeforeNextRetry
<1> QED  BY <1>2, ClockInvariant, PTL

(* While no probe was let through since a refusal, the breaker is as open   *)
(* as it was then, and its probe is due when the message comes up again.    *)
RefusalInv ==
    back_at # None /\ ~probed =>
        /\ b.mode = "Open" /\ b.next_probe_at # None
        /\ b.next_probe_at <= back_at

(* With a configuration whose delays fit, a message that an open breaker    *)
(* refused is refused again only after another message's probe (breaker.rs  *)
(* 3-25, main.rs 158-181), whatever was lost on the way.                    *)
THEOREM RefusedAgainOnlyAfterProbeHolds ==
    ASSUME DelaysFit
    PROVE  Spec => []RefusedAgainOnlyAfterProbe
<1>1. Init => RefusalInv
  BY DEF Init, RefusalInv
<1>2. ClockInv /\ RefusalInv /\ [Next]_vars => RefusalInv'
  <2> SUFFICES ASSUME ClockInv, RefusalInv, [Next]_vars PROVE RefusalInv'
    OBVIOUS
  <2>1. ASSUME Gate, Pass PROVE RefusalInv'
    <3>1. back_at' = back_at /\ probed' = (probed \/ b.mode # "Closed")
      BY <2>1 DEF Pass
    <3> QED  BY <3>1 DEF RefusalInv
  <2>2. ASSUME Gate, Refuse, b.mode = "Open",
               back_at' = now + Visible(RetryDelayFromBreaker(b, now))
        PROVE  RefusalInv'
    <3> DEFINE d == RetryDelayFromBreaker(b, now)
    <3>1. /\ d \in Nat /\ d <= RecoveryTimeout
          /\ b.next_probe_at # None => now + d >= b.next_probe_at
      BY BreakerDelay, ResilienceConfig
    <3> HIDE DEF d
    <3>2. Visible(d) \in Nat /\ Visible(d) >= d
      BY <3>1, VisibleLongEnough
    <3>3. b.next_probe_at \in Nat /\ b.next_probe_at # None /\ now \in Nat
      BY <2>2 DEF ClockInv, ClockState
    <3>4. b.next_probe_at <= back_at'
      BY <2>2, <3>1, <3>2, <3>3 DEF d
    <3> QED  BY <2>2, <3>3, <3>4 DEF Refuse, RefusalInv
  <2>3. ASSUME UNCHANGED <<b, back_at, probed>> PROVE RefusalInv'
    BY <2>3 DEF RefusalInv
  <2>4. ASSUME Answer PROVE RefusalInv'
    <3>1. b.mode # "Open" /\ back_at' = back_at /\ probed' = probed
      BY <2>4 DEF Answer, ClockInv
    <3> QED  BY <3>1 DEF RefusalInv
  <2> QED
    BY <2>1, <2>2, <2>3, <2>4 DEF Next, Gate, Refuse, Lost, TimePasses, vars
<1>3. ClockInv /\ RefusalInv => RefusedAgainOnlyAfterProbe
  BY DEF ClockInv, ClockState, RefusalInv, RefusedAgainOnlyAfterProbe, ShouldAllow, ProbeDue
<1> QED  BY <1>1, <1>2, <1>3, ClockInvariant, PTL DEF Spec

-----------------------------------------------------------------------------
(* The loop that computes the delays: it ends, and its delays grow.         *)

(* A nonempty set of naturals has a smallest member: induction below is by  *)
(* the smallest counterexample.                                             *)
LEMMA Smallest ==
    ASSUME NEW T, T \subseteq Nat, T # {}
    PROVE  \E n \in T : \A k \in T : n <= k
<1> DEFINE R == OpToRel(<, Nat)
<1>1. IsWellFoundedOn(R, Nat)
  BY NatLessThanWellFounded
<1>0. R = {ss \in Nat \X Nat : ss[1] < ss[2]}
  BY Zenon DEF OpToRel
<1> HIDE DEF R
<1>2. \A j, k \in Nat : j < k => <<j, k>> \in R
  BY <1>0
<1>3. PICK n \in T : \A k \in T : ~(<<k, n>> \in R)
  BY <1>1, WFMin
<1>4. ASSUME NEW k \in T PROVE n <= k
  <2>1. k \in Nat /\ n \in Nat
    OBVIOUS
  <2>2. ~(k < n)
    BY <1>2, <1>3, <2>1
  <2> QED  BY <2>1, <2>2
<1> QED  BY <1>4

(* What a pass of the loop makes of a delay. *)
NextDelay(d) == Smaller(d * Larger(BackoffMultiplier, 1), BackoffMax)

LEMMA NextDelayType ==
    ASSUME NEW d \in Nat
    PROVE  NextDelay(d) \in Nat
<1>1. Larger(BackoffMultiplier, 1) \in Nat
  BY ResilienceConfig DEF Larger
<1>2. d * Larger(BackoffMultiplier, 1) \in Nat
  BY <1>1
<1> QED  BY <1>2, ResilienceConfig DEF NextDelay, Smaller

(* The first n passes of the loop.                                          *)
Prefix(f, n) ==
    /\ f \in [0..n -> Nat] /\ f[0] = BackoffBase
    /\ \A k \in 1..n : f[k] = NextDelay(f[k - 1])

LEMMA PrefixExists ==
    \A n \in Nat : \E f \in [0..n -> Nat] : Prefix(f, n)
<1> DEFINE T == {n \in Nat : ~\E f \in [0..n -> Nat] : Prefix(f, n)}
<1> SUFFICES ASSUME T # {} PROVE FALSE
  OBVIOUS
<1>1. PICK n \in T : \A k \in T : n <= k
  BY Smallest
<1>2. CASE n = 0
  <2> DEFINE f == [k \in 0..0 |-> BackoffBase]
  <2>1. f \in [0..0 -> Nat] /\ f[0] = BackoffBase
    BY ResilienceConfig
  <2> HIDE DEF f
  <2>2. Prefix(f, 0)
    BY <2>1 DEF Prefix
  <2> QED  BY <1>1, <1>2, <2>1, <2>2
<1>3. CASE n # 0
  <2>1. n - 1 \in Nat /\ n - 1 \notin T
    BY <1>1, <1>3
  <2>2. PICK f \in [0..(n - 1) -> Nat] : Prefix(f, n - 1)
    BY <2>1
  <2> DEFINE g == [k \in 0..n |-> IF k = n THEN NextDelay(f[n - 1]) ELSE f[k]]
  <2>3. NextDelay(f[n - 1]) \in Nat
    BY <2>1, <2>2, NextDelayType
  <2>4. g \in [0..n -> Nat]
    BY <1>1, <2>1, <2>3
  <2>5. g[0] = BackoffBase
    BY <1>1, <1>3, <2>1, <2>2 DEF Prefix
  <2>6. ASSUME NEW k \in 1..n PROVE g[k] = NextDelay(g[k - 1])
    <3>1. CASE k = n
      BY <2>1, <3>1
    <3>2. CASE k # n
      BY <2>1, <2>2, <3>2 DEF Prefix
    <3> QED  BY <3>1, <3>2
  <2>7. Prefix(g, n)
    BY <2>4, <2>5, <2>6 DEF Prefix
  <2> QED  BY <1>1, <2>4, <2>7
<1> QED  BY <1>2, <1>3

LEMMA PrefixUnique ==
    ASSUME NEW m \in Nat, NEW n \in Nat, m <= n,
           NEW f \in [0..m -> Nat], NEW g \in [0..n -> Nat], Prefix(f, m), Prefix(g, n)
    PROVE  \A k \in 0..m : f[k] = g[k]
<1> DEFINE T == {k \in 0..m : f[k] # g[k]}
<1> SUFFICES ASSUME T # {} PROVE FALSE
  OBVIOUS
<1>1. PICK k \in T : \A j \in T : k <= j
  <2>1. T \subseteq Nat
    OBVIOUS
  <2> HIDE DEF T
  <2> QED  BY <2>1, Smallest
<1>2. k # 0
  <2>1. f[0] = g[0]
    BY DEF Prefix
  <2> QED  BY <1>1, <2>1
<1>3. k - 1 \in 0..m /\ k - 1 \notin T
  BY <1>1, <1>2
<1>4. f[k - 1] = g[k - 1]
  BY <1>3
<1>5. f[k] = NextDelay(f[k - 1]) /\ g[k] = NextDelay(g[k - 1])
  BY <1>1, <1>2 DEF Prefix
<1> QED  BY <1>1, <1>4, <1>5

(* There is a function that the equation of BackoffLoop describes, so that  *)
(* BackoffLoop is one.                                                      *)
LEMMA BackoffRecursion ==
    BackoffLoop = [n \in Nat |-> IF n = 0 THEN BackoffBase ELSE NextDelay(BackoffLoop[n - 1])]
<1> DEFINE F(n) == CHOOSE f \in [0..n -> Nat] : Prefix(f, n)
           loop == [n \in Nat |-> F(n)[n]]
<1>1. \A n \in Nat : F(n) \in [0..n -> Nat] /\ Prefix(F(n), n)
  BY PrefixExists
<1> HIDE DEF F
<1>2. loop = [n \in Nat |-> IF n = 0 THEN BackoffBase ELSE NextDelay(loop[n - 1])]
  <2>1. F(0)[0] = BackoffBase
    BY <1>1 DEF Prefix
  <2>2. ASSUME NEW n \in Nat, n # 0 PROVE F(n)[n] = NextDelay(F(n - 1)[n - 1])
    <3>1. n - 1 \in Nat /\ n - 1 <= n /\ n \in 1..n /\ n - 1 \in 0..(n - 1)
      BY <2>2
    <3>2. F(n)[n - 1] = F(n - 1)[n - 1]
      BY <1>1, <3>1, PrefixUnique
    <3>3. F(n)[n] = NextDelay(F(n)[n - 1])
      BY <1>1, <3>1 DEF Prefix
    <3> QED  BY <3>2, <3>3
  <2> QED  BY <2>1, <2>2
<1> HIDE DEF loop
<1>3. \E g : g = [n \in Nat |-> IF n = 0 THEN BackoffBase
                                ELSE Smaller(g[n - 1] * Larger(BackoffMultiplier, 1),
                                             BackoffMax)]
  BY <1>2 DEF NextDelay
<1> QED
  BY <1>3, Zenon DEF BackoffLoop, NextDelay

(* Multiplying by the multiplier shortens no delay.                         *)
LEMMA Product ==
    ASSUME NEW d \in Nat, NEW k \in Nat, k >= 1
    PROVE  d * k \in Nat /\ d * k >= d
<1>1. k - 1 \in Nat /\ d * (k - 1) \in Nat
  OBVIOUS
<1>2. d * k = d * (k - 1) + d
  OBVIOUS
<1> QED  BY <1>1, <1>2

LEMMA BackoffStep ==
    /\ BackoffLoop[0] = BackoffBase
    /\ \A n \in Nat : BackoffLoop[n + 1] = NextDelay(BackoffLoop[n])
  BY BackoffRecursion

(* Every pass of the loop leaves a positive delay.                          *)
LEMMA BackoffPositive == \A n \in Nat : BackoffLoop[n] \in Nat /\ BackoffLoop[n] >= 1
<1> DEFINE T == {n \in Nat : ~(BackoffLoop[n] \in Nat /\ BackoffLoop[n] >= 1)}
<1> SUFFICES ASSUME T # {} PROVE FALSE
  OBVIOUS
<1>1. PICK n \in T : \A k \in T : n <= k
  <2>1. T \subseteq Nat
    OBVIOUS
  <2> HIDE DEF T
  <2> QED  BY <2>1, Smallest
<1>2. n # 0
  BY <1>1, BackoffStep, ResilienceConfig
<1>3. n - 1 \in Nat /\ n - 1 \notin T
  BY <1>1, <1>2
<1>4. BackoffLoop[n - 1] \in Nat /\ BackoffLoop[n - 1] >= 1
  BY <1>3
<1>5. BackoffLoop[n] = NextDelay(BackoffLoop[n - 1])
  BY <1>3, BackoffStep
<1>6. Larger(BackoffMultiplier, 1) \in Nat /\ Larger(BackoffMultiplier, 1) >= 1
  BY ResilienceConfig DEF Larger
<1>7. NextDelay(BackoffLoop[n - 1]) \in Nat /\ NextDelay(BackoffLoop[n - 1]) >= 1
  BY <1>4, <1>6, Product, ResilienceConfig DEF NextDelay, Smaller
<1> QED  BY <1>1, <1>5, <1>7

LEMMA BackoffRange == \A n \in Nat : ExponentialBackoff(n) \in 1..BackoffMax
  BY BackoffPositive, ResilienceConfig DEF ExponentialBackoff, Smaller

LEMMA BackoffGrowsOnce ==
    \A n \in Nat : ExponentialBackoff(n) <= ExponentialBackoff(n + 1)
<1> SUFFICES ASSUME NEW n \in Nat
             PROVE  ExponentialBackoff(n) <= ExponentialBackoff(n + 1)
  OBVIOUS
<1>1. BackoffLoop[n] \in Nat /\ BackoffLoop[n + 1] = NextDelay(BackoffLoop[n])
  BY BackoffPositive, BackoffStep
<1>2. Larger(BackoffMultiplier, 1) \in Nat /\ Larger(BackoffMultiplier, 1) >= 1
  BY ResilienceConfig DEF Larger
<1>3. /\ BackoffLoop[n] * Larger(BackoffMultiplier, 1) \in Nat
      /\ BackoffLoop[n] * Larger(BackoffMultiplier, 1) >= BackoffLoop[n]
  BY <1>1, <1>2, Product
<1> QED
  BY <1>1, <1>3, ResilienceConfig DEF ExponentialBackoff, NextDelay, Smaller

(* The delay after more failures in a row is never shorter, never longer    *)
(* than the maximum and never zero (retry.rs 32-56).                        *)
THEOREM BackoffNeverShrinks ==
    \A m, n \in Nat : m <= n =>
        /\ ExponentialBackoff(m) <= ExponentialBackoff(n)
        /\ ExponentialBackoff(n) \in 1..BackoffMax
<1> SUFFICES ASSUME NEW m \in Nat
             PROVE  \A n \in Nat : m <= n => ExponentialBackoff(m) <= ExponentialBackoff(n)
  BY BackoffRange
<1> DEFINE T == {n \in Nat : m <= n /\ ~(ExponentialBackoff(m) <= ExponentialBackoff(n))}
<1> SUFFICES ASSUME T # {} PROVE FALSE
  OBVIOUS
<1>1. PICK n \in T : \A k \in T : n <= k
  <2>1. T \subseteq Nat
    OBVIOUS
  <2> HIDE DEF T
  <2> QED  BY <2>1, Smallest
<1>2. \A k \in Nat : ExponentialBackoff(k) \in Nat
  BY BackoffRange, ResilienceConfig
<1>3. n # m
  BY <1>1, <1>2
<1>4. n - 1 \in Nat /\ n - 1 \notin T /\ m <= n - 1
  BY <1>1, <1>3
<1>5. ExponentialBackoff(m) <= ExponentialBackoff(n - 1)
  BY <1>4
<1>6. ExponentialBackoff(n - 1) <= ExponentialBackoff(n)
  BY <1>4, BackoffGrowsOnce
<1> QED  BY <1>1, <1>2, <1>4, <1>5, <1>6

(* There is a delay for every retry: the worker is never left without one.  *)
LEMMA RetryDelayExists ==
    ASSUME NEW s \in Nat, NEW j \in 0..JitterMax
    PROVE  /\ ExponentialBackoff(s) + j \in 1..(BackoffMax + JitterMax)
           /\ Larger(ExponentialBackoff(s) + j, 1) = ExponentialBackoff(s) + j
  BY BackoffRange, ResilienceConfig DEF Larger

-----------------------------------------------------------------------------
(* The powers of the multiplier.                                            *)

(* What the provers do not know of ^.                                       *)
PowersMultiply ==
    /\ BackoffMultiplier ^ 0 = 1
    /\ \A n \in Nat : BackoffMultiplier ^ (n + 1) = BackoffMultiplier ^ n * BackoffMultiplier

Capped(n) == Smaller(BackoffBase * BackoffMultiplier ^ n, BackoffMax)

LEMMA PowerType ==
    ASSUME PowersMultiply, BackoffMultiplier > 0
    PROVE  \A n \in Nat : BackoffMultiplier ^ n \in Nat
<1> DEFINE T == {n \in Nat : ~(BackoffMultiplier ^ n \in Nat)}
<1> SUFFICES ASSUME T # {} PROVE FALSE
  OBVIOUS
<1>1. PICK n \in T : \A k \in T : n <= k
  <2>1. T \subseteq Nat
    OBVIOUS
  <2> HIDE DEF T
  <2> QED  BY <2>1, Smallest
<1>2. n # 0
  BY <1>1 DEF PowersMultiply
<1>3. n - 1 \in Nat /\ n - 1 \notin T /\ (n - 1) + 1 = n
  BY <1>1, <1>2
<1>4. BackoffMultiplier ^ ((n - 1) + 1) = BackoffMultiplier ^ (n - 1) * BackoffMultiplier
  BY <1>3 DEF PowersMultiply
<1>5. BackoffMultiplier ^ (n - 1) \in Nat
  BY <1>3
<1> QED  BY <1>1, <1>3, <1>4, <1>5, ResilienceConfig

LEMMA BackoffCapped ==
    ASSUME PowersMultiply, BackoffMultiplier > 0
    PROVE  \A n \in Nat : ExponentialBackoff(n) = Capped(n)
<1> DEFINE T == {n \in Nat : ExponentialBackoff(n) # Capped(n)}
<1> SUFFICES ASSUME T # {} PROVE FALSE
  OBVIOUS
<1>1. PICK n \in T : \A k \in T : n <= k
  <2>1. T \subseteq Nat
    OBVIOUS
  <2> HIDE DEF T
  <2> QED  BY <2>1, Smallest
<1>2. n # 0
  <2>1. ExponentialBackoff(0) = Capped(0)
    BY BackoffStep, ResilienceConfig DEF ExponentialBackoff, Capped, PowersMultiply
  <2> QED  BY <1>1, <2>1
<1> DEFINE l == BackoffLoop[n - 1]
           p == BackoffBase * BackoffMultiplier ^ (n - 1)
           k == BackoffMultiplier
<1>3. n - 1 \in Nat /\ n - 1 \notin T /\ (n - 1) + 1 = n
  BY <1>1, <1>2
<1>4. /\ l \in Nat /\ k \in Nat /\ k >= 1 /\ Larger(k, 1) = k
      /\ BackoffLoop[n] = Smaller(l * k, BackoffMax)
  <2>1. k \in Nat /\ k >= 1 /\ Larger(k, 1) = k
    BY ResilienceConfig DEF Larger
  <2>2. BackoffLoop[n] = NextDelay(l)
    BY <1>3, BackoffStep
  <2> QED  BY <1>3, <2>1, <2>2, BackoffPositive DEF NextDelay
<1>5. p \in Nat /\ BackoffBase * BackoffMultiplier ^ n = p * k
  <2>1. BackoffMultiplier ^ (n - 1) \in Nat
    BY <1>3, PowerType
  <2>2. BackoffMultiplier ^ n = BackoffMultiplier ^ (n - 1) * k
    BY <1>3 DEF PowersMultiply
  <2> QED  BY <2>1, <2>2, ResilienceConfig
<1>6. Smaller(l, BackoffMax) = Smaller(p, BackoffMax)
  BY <1>3 DEF ExponentialBackoff, Capped
<1>7. l * k \in Nat /\ p * k \in Nat /\ l * k >= l /\ p * k >= p
  BY <1>4, <1>5, Product
<1>8. BackoffMax \in Nat
  BY ResilienceConfig
<1>9. ExponentialBackoff(n) = Smaller(Smaller(l * k, BackoffMax), BackoffMax)
      /\ Capped(n) = Smaller(p * k, BackoffMax)
  BY <1>4, <1>5 DEF ExponentialBackoff, Capped
<1> HIDE DEF l, p, k
<1>10. CASE l = p
  BY <1>1, <1>7, <1>8, <1>9, <1>10 DEF Smaller
<1>11. CASE l # p
  <2>1. l >= BackoffMax /\ p >= BackoffMax
    BY <1>4, <1>5, <1>6, <1>8, <1>11 DEF Smaller
  <2> QED  BY <1>1, <1>4, <1>5, <1>7, <1>8, <1>9, <2>1 DEF Smaller
<1> QED  BY <1>10, <1>11

(* Until the maximum is reached, every failure multiplies the delay: the    *)
(* loop computes the power it stands for (retry.rs 32-56).                  *)
THEOREM BackoffIsExponentialHolds ==
    ASSUME PowersMultiply, BackoffMultiplier > 0
    PROVE  Spec => []BackoffIsExponential
<1>1. ASSUME ClockInv PROVE BackoffIsExponential
  <2> SUFFICES ASSUME NEW j \in 0..JitterMax
               PROVE  Capped(b.consecutive_failures) + j \in RetryDelays(b)
    BY DEF BackoffIsExponential, Capped
  <2>1. b.consecutive_failures \in Nat
    BY <1>1 DEF ClockInv, ClockState
  <2>2. Capped(b.consecutive_failures) = ExponentialBackoff(b.consecutive_failures)
    BY <2>1, BackoffCapped
  <2> QED  BY <2>1, <2>2, RetryDelayExists DEF RetryDelays
<1> QED  BY <1>1, ClockInvariant, PTL
=============================================================================
