---------------------------- MODULE Worker_proofs ----------------------------
(***************************************************************************)
(* Theorems about Worker, for any number of workers, messages, events and   *)
(* customers and any bounds.                                                *)
(***************************************************************************)
EXTENDS Worker, TLAPS

-----------------------------------------------------------------------------
(* The operators of Resilience keep breaker states and delays well formed.  *)

LEMMA GateType ==
    ASSUME NEW b \in HeldBreaker
    PROVE  AfterGate(b, 0) \in HeldBreaker
  BY ResilienceConfig DEF HeldBreaker, BreakerMode, AfterGate

(* Opening a breaker, whatever the instant of its next probe.               *)
LEMMA OpenedType ==
    ASSUME NEW b \in HeldBreaker, NEW t \in Nat
    PROVE  [b EXCEPT !.mode = "Open", !.next_probe_at = t,
                     !.half_open_in_flight = FALSE] \in HeldBreaker
  BY DEF HeldBreaker, BreakerMode

LEMMA OutcomeType ==
    ASSUME NEW b \in HeldBreaker
    PROVE  OnSuccess(b) \in HeldBreaker /\ OnFailure(b, 0) \in HeldBreaker
<1>1. OnSuccess(b) \in HeldBreaker
  BY DEF HeldBreaker, BreakerMode, OnSuccess
<1>2. OnFailure(b, 0) \in HeldBreaker
  <2> DEFINE counted == [b EXCEPT !.consecutive_failures = @ + 1]
  <2>1. counted \in HeldBreaker
    BY DEF HeldBreaker
  <2>2. 0 + RecoveryTimeout \in Nat
    BY ResilienceConfig
  <2> HIDE DEF counted
  <2>3. [counted EXCEPT !.mode = "Open", !.next_probe_at = 0 + RecoveryTimeout,
                        !.half_open_in_flight = FALSE] \in HeldBreaker
    BY <2>1, <2>2, OpenedType
  <2> QED
    BY <2>1, <2>3 DEF OnFailure, counted
<1> QED  BY <1>1, <1>2

LEMMA VersionAndTickType ==
    ASSUME NEW b \in HeldBreaker
    PROVE  NextVersion(b) \in HeldBreaker /\ OneTickOn(b) \in HeldBreaker
  BY ResilienceConfig
  DEF HeldBreaker, BreakerMode, NextVersion, OneTickOn, Waiting

LEMMA ClosedType == ClosedBreakerState \in HeldBreaker
  BY DEF ClosedBreakerState, HeldBreaker, BreakerMode

LEMMA DelayType ==
    ASSUME NEW b \in HeldBreaker
    PROVE  RetryDelayFromBreaker(b, 0) \in Nat /\ RetryDelays(b) \subseteq Nat
  BY ResilienceConfig
  DEF HeldBreaker, RetryDelayFromBreaker, RetryDelays, Larger

LEMMA VisibilityType ==
    ASSUME NEW d \in Nat
    PROVE  HiddenFor(d) \in Nat
  BY ResilienceConfig
  DEF HiddenFor, ToSqsVisibilitySeconds, ComputeVisibilityTimeout, Smaller, Larger

LEMMA EventType ==
    ASSUME NEW e \in Event
    PROVE  /\ MarkDelivered(e) \in Event
           /\ MarkFailed(e) \in Event
           /\ MarkRetryScheduled(e) \in Event
           /\ \A f \in Event : Written(e, f) \in Event
           /\ CountedAttempts(e) \in Nat
           /\ [e EXCEPT !.attempt_count = CountedAttempts(e)] \in Event
<1>1. MarkDelivered(e) \in Event
  BY DEF Event, EventStatus, MarkDelivered
<1>2. MarkFailed(e) \in Event /\ MarkRetryScheduled(e) \in Event
  BY DEF Event, EventStatus, MarkFailed, MarkRetryScheduled
<1>3. ASSUME NEW f \in Event PROVE Written(e, f) \in Event
  <2>1. (e.delivered_at \/ f.delivered_at) \in BOOLEAN
    OBVIOUS
  <2> QED
    BY <2>1 DEF Event, Written
<1>4. CountedAttempts(e) \in Nat
  BY DEF Event, CountedAttempts
<1>5. [e EXCEPT !.attempt_count = CountedAttempts(e)] \in Event
  BY <1>4 DEF Event
<1> QED  BY <1>1, <1>2, <1>3, <1>4, <1>5

-----------------------------------------------------------------------------
(* Type correctness.  The item of the event a worker works on exists: it    *)
(* did when get_event read it, and items are never removed.                 *)

TypeInv ==
    /\ TypeOK
    /\ \A w \in Workers : pc[w] \in AtItem => events[Ev(w)] # NoItem

(* A version of an item a read may return is an item the table has.         *)
ReplicaBehind == \A e \in Events : replica[e] # NoItem => events[e] # NoItem

(* A failed call to DynamoDB leaves the message alone, an item that does    *)
(* not parse gets it deleted.                                               *)
LEMMA AbandonIsDone == ASSUME NEW w PROVE Abandon(w) <=> Done(w)
  BY DEF Abandon, ErrorHandled, PolicyForClass, ErrorClass, Retryable

LEMMA DecodeErrorDeletes ==
    ASSUME NEW w
    PROVE  ErrorHandled(w, "DecodeDynamo") <=>
             GoTo(w, "delete_message") /\ UNCHANGED <<job, local>>
  BY DEF ErrorHandled, PolicyForClass, ErrorClass, Retryable

LEMMA JobType ==
    ASSUME TypeOK, NEW w \in Workers, pc[w] # "idle"
    PROVE  job[w] \in Receipt /\ Ev(w) \in Events /\ Cu(w) \in Customers
  BY WorkerAssumption DEF TypeOK, Ev, Cu, Receipt

LEMMA DoneType ==
    ASSUME TypeOK, NEW w \in Workers, Done(w)
    PROVE  /\ pc' \in [Workers -> Steps]
           /\ job' \in [Workers -> Receipt \cup {NoItem}]
           /\ \A v \in Workers : pc'[v] # "idle" => job'[v] \in Receipt
           /\ event' \in [Workers -> Event]
           /\ breaker' \in [Workers -> HeldBreaker]
           /\ policy' \in [Workers -> Policies]
           /\ delay' \in [Workers -> Nat]
<1>1. NewEvent \in Event
  BY DEF NewEvent, Event, EventStatus
<1> QED
  BY <1>1, ClosedType DEF TypeOK, Done, GoTo, Steps, Policies

LEMMA DoneItem ==
    ASSUME TypeInv, NEW w \in Workers, Done(w), 
           \A e \in Events : events[e] # NoItem => events'[e] # NoItem
    PROVE  \A v \in Workers : pc'[v] \in AtItem => events'[Ev(v)'] # NoItem
<1> SUFFICES ASSUME NEW v \in Workers, pc'[v] \in AtItem
             PROVE  events'[Ev(v)'] # NoItem
  OBVIOUS
<1>1. v # w
  BY DEF Done, GoTo, TypeInv, TypeOK, AtItem
<1>2. pc[v] = pc'[v] /\ job'[v] = job[v]
  BY <1>1 DEF Done, GoTo, TypeInv, TypeOK
<1>3. Ev(v) \in Events /\ events[Ev(v)] # NoItem
  BY <1>2, JobType DEF TypeInv, AtItem
<1> QED
  BY <1>2, <1>3 DEF Ev

LEMMA BreakerWrittenType ==
    ASSUME TypeOK, NEW w \in Workers, BreakerWritten(w)
    PROVE  /\ \E step \in {"deliver", "update_event_status"} :
                pc' = [pc EXCEPT ![w] = step]
           /\ event' \in [Workers -> Event]
           /\ delay' \in [Workers -> Nat]
<1>1. event[w] \in Event /\ breaker[w] \in HeldBreaker
  BY DEF TypeOK
<1>2. \A d \in RetryDelays(breaker[w]) : d \in Nat
  BY <1>1, DelayType
<1>3. CASE GateWritten(w)
  BY <1>1, <1>3, EventType DEF GateWritten, GoTo, TypeOK
<1>4. CASE OutcomeWritten(w)
  <2>1. \E e \in Event : event' = [event EXCEPT ![w] = e]
    BY <1>1, <1>4, EventType DEF OutcomeWritten
  <2>2. delay' = delay \/ \E d \in Nat : delay' = [delay EXCEPT ![w] = d]
    BY <1>2, <1>4 DEF OutcomeWritten
  <2>3. event' \in [Workers -> Event]
    BY <2>1 DEF TypeOK
  <2>4. delay' \in [Workers -> Nat]
    BY <2>2 DEF TypeOK
  <2> QED
    BY <1>4, <2>3, <2>4 DEF OutcomeWritten, GoTo
<1> QED  BY <1>3, <1>4 DEF BreakerWritten

LEMMA InitType == Init => TypeInv
<1> SUFFICES ASSUME Init PROVE TypeInv
  OBVIOUS
<1>1. NewEvent \in Event
  BY DEF NewEvent, Event, EventStatus
<1>2. TypeOK
  BY <1>1, ClosedType, WorkerAssumption
  DEF Init, TypeOK, Config, QueueEntry, Steps, Policies
<1> QED
  BY <1>2 DEF Init, TypeInv, AtItem

LEMMA NextType == TypeInv /\ ReplicaBehind /\ [Next]_vars => TypeInv'
<1> SUFFICES ASSUME TypeInv, ReplicaBehind, [Next]_vars PROVE TypeInv'
  OBVIOUS
<1> USE DEF TypeInv
<1>1. ASSUME NEW w \in Workers, Receive(w) PROVE TypeInv'
  <2>1. PICK batch \in SUBSET {m \in Messages :
                               Visible(m) /\ queue[m].receives < MaxReceiveCount} :
          /\ queue' = [m \in Messages |->
               IF m \in batch
               THEN [queue[m] EXCEPT !.hidden = HiddenFor(0), !.receives = @ + 1]
               ELSE queue[m]]
          /\ \/ held' = [held EXCEPT ![w] =
                  {[message |-> m, receive |-> queue[m].receives + 1] : m \in batch}]
             \/ held' = held
    BY <1>1 DEF Receive
  <2>0. faults' \in Nat
    <3>1. faults' = faults \/ faults' = faults + 1
      BY <1>1, Zenon DEF Receive, Fault
    <3> QED  BY <3>1 DEF TypeOK
  <2>2. HiddenFor(0) \in Nat
    BY VisibilityType
  <2>3. ASSUME NEW m \in Messages
        PROVE  /\ [queue[m] EXCEPT !.hidden = HiddenFor(0), !.receives = @ + 1]
                    \in QueueEntry
               /\ [message |-> m, receive |-> queue[m].receives + 1] \in Receipt
    <3>1. queue[m] \in QueueEntry
      BY DEF TypeOK
    <3>2. queue[m].receives + 1 \in Nat
      BY <3>1 DEF QueueEntry
    <3>3. [queue[m] EXCEPT !.hidden = HiddenFor(0), !.receives = @ + 1] \in QueueEntry
      BY <2>2, <3>1, <3>2 DEF QueueEntry
    <3> QED
      BY <3>2, <3>3 DEF Receipt
  <2>4. queue' \in [Messages -> QueueEntry]
    BY <2>1, <2>3 DEF TypeOK
  <2>5. {[message |-> m, receive |-> queue[m].receives + 1] : m \in batch}
          \subseteq Receipt
    <3>1. batch \subseteq Messages
      OBVIOUS
    <3> QED  BY <2>3, <3>1
  <2>6. held' \in [Workers -> SUBSET Receipt]
    BY <2>1, <2>5 DEF TypeOK
  <2> QED
    BY <1>1, <2>0, <2>4, <2>6 DEF Receive, TypeOK, tables, local, history, Ev
<1>2. ASSUME NEW w \in Workers, Process(w) PROVE TypeInv'
  <2>1. PICK r \in held[w] :
          /\ held' = [held EXCEPT ![w] = @ \ {r}]
          /\ job' = [job EXCEPT ![w] = r]
          /\ GoTo(w, IF r.message \in Poison THEN "delete_message" ELSE "get_event")
    BY <1>2 DEF Process
  <2>2. TypeOK'
    BY <1>2, <2>1 DEF Process, GoTo, TypeOK, Steps, tables, local, history
  <2>3. \A v \in Workers : pc'[v] \in AtItem => events'[Ev(v)'] # NoItem
    BY <1>2, <2>1 DEF Process, GoTo, TypeOK, AtItem, tables, Ev
  <2> QED  BY <2>2, <2>3
<1>3. ASSUME NEW w \in Workers, GetEvent(w) PROVE TypeInv'
  <2>1. /\ Ev(w) \in Events
        /\ UNCHANGED <<tables, queue, breaker_states, held, crashes, posts, acked,
                       settled, streak>>
    BY <1>3, JobType DEF GetEvent
  <2>5. contended' \in [Events -> BOOLEAN]
    <3>1. ASSUME NEW item, contended' = [contended EXCEPT ![Ev(w)] = @ \/ Contends(w, item)]
          PROVE  contended' \in [Events -> BOOLEAN]
      <4>1. (contended[Ev(w)] \/ Contends(w, item)) \in BOOLEAN
        OBVIOUS
      <4> QED  BY <3>1, <4>1 DEF TypeOK
    <3> QED  BY <1>3, <3>1 DEF GetEvent, TypeOK
  <2>2. CASE UNCHANGED faults /\ GoTo(w, "delete_message") /\ UNCHANGED <<job, local>>
    BY <1>3, <2>1, <2>2, <2>5
    DEF GetEvent, GoTo, TypeOK, Steps, AtItem, tables, local, Ev
  <2>3. ASSUME NEW item \in Versions(Ev(w)), ~SkipEvent(item),
               UNCHANGED faults,
               event' = [event EXCEPT ![w] = item], GoTo(w, "get_config"),
               UNCHANGED <<job, breaker, policy, delay>>
        PROVE  TypeInv'
    <3>1. item \in Event /\ events[Ev(w)] # NoItem
      BY <2>1, <2>3 DEF Versions, SkipEvent, TypeOK, ReplicaBehind
    <3> QED
      BY <1>3, <2>1, <2>3, <2>5, <3>1
      DEF GetEvent, GoTo, TypeOK, Steps, AtItem, tables, Ev
  <2>4. CASE Fault /\ Abandon(w)
    BY <2>1, <2>4, <2>5, DoneType, DoneItem, AbandonIsDone
    DEF Fault, TypeOK, tables
  <2> QED  BY <1>3, <2>2, <2>3, <2>4, DecodeErrorDeletes DEF GetEvent
<1>4. ASSUME NEW w \in Workers, GetConfig(w) PROVE TypeInv'
  <2>1. MarkFailed(event[w]) \in Event
    BY EventType DEF TypeOK
  <2>2. CASE Fault /\ Abandon(w)
    BY <1>4, <2>2, DoneType, DoneItem, AbandonIsDone
    DEF GetConfig, Fault, TypeOK, tables, history
  <2>3. CASE GoTo(w, "get_breaker") /\ UNCHANGED <<event, job, breaker, policy, delay, faults>>
    BY <1>4, <2>3 DEF GetConfig, GoTo, TypeOK, Steps, AtItem, tables, history, Ev
  <2>4. CASE /\ event' = [event EXCEPT ![w] = MarkFailed(@)]
             /\ GoTo(w, "update_event_status")
             /\ UNCHANGED <<job, breaker, policy, delay, faults>>
    BY <1>4, <2>1, <2>4 DEF GetConfig, GoTo, TypeOK, Steps, AtItem, tables, history, Ev
  <2> QED  BY <1>4, <2>2, <2>3, <2>4 DEF GetConfig
<1>5. ASSUME NEW w \in Workers, GetBreaker(w) PROVE TypeInv'
  <2>1. Cu(w) \in Customers
    BY <1>5, JobType DEF GetBreaker
  <2>2. PICK b \in HeldBreaker :
          /\ breaker_states' = [breaker_states EXCEPT ![w][Cu(w)] = b]
          /\ breaker' = [breaker EXCEPT ![w] = AfterGate(b, 0)]
          /\ policy' = [policy EXCEPT ![w] =
               IF ShouldAllow(b, 0) THEN "Allowed" ELSE "Blocked"]
          /\ delay' = [delay EXCEPT ![w] =
               IF ShouldAllow(b, 0) THEN 0 ELSE RetryDelayFromBreaker(b, 0)]
          /\ faults' \in Nat
    <3>1. PICK read \in {breaker_states[w][Cu(w)], breakers[Cu(w)], NoItem} :
            LET b == IF read = NoItem THEN ClosedBreakerState ELSE read
            IN /\ IF breaker_states[w][Cu(w)] # NoItem
                  THEN read = breaker_states[w][Cu(w)] /\ UNCHANGED faults
                  ELSE BreakerRead(Cu(w), read)
               /\ breaker_states' = [breaker_states EXCEPT ![w][Cu(w)] = b]
               /\ breaker' = [breaker EXCEPT ![w] = AfterGate(b, 0)]
               /\ policy' = [policy EXCEPT ![w] =
                    IF ShouldAllow(b, 0) THEN "Allowed" ELSE "Blocked"]
               /\ delay' = [delay EXCEPT ![w] =
                    IF ShouldAllow(b, 0) THEN 0 ELSE RetryDelayFromBreaker(b, 0)]
      BY <1>5 DEF GetBreaker
    <3>2. read \in HeldBreaker \cup {NoItem}
      BY <2>1, <3>1 DEF TypeOK
    <3>3. faults' \in Nat
      BY <3>1 DEF BreakerRead, Fault, TypeOK
    <3> QED
      BY <3>1, <3>2, <3>3, ClosedType
  <2>3. AfterGate(b, 0) \in HeldBreaker /\ RetryDelayFromBreaker(b, 0) \in Nat
    BY GateType, DelayType
  <2> QED
    BY <1>5, <2>1, <2>2, <2>3
    DEF GetBreaker, GoTo, TypeOK, Steps, Policies, AtItem, tables, history, Ev
<1>6. ASSUME NEW w \in Workers, PutBreaker(w) PROVE TypeInv'
  <2> DEFINE next == NextVersion(breaker[w])
  <2>1. Cu(w) \in Customers /\ pc[w] \in AtItem
    BY <1>6, JobType DEF PutBreaker, AtItem, Steps
  <2>2. next \in HeldBreaker
    BY VersionAndTickType DEF TypeOK
  <2>3. /\ breakers' \in {breakers, [breakers EXCEPT ![Cu(w)] = next]}
        /\ breaker_states' \in {breaker_states,
                                [breaker_states EXCEPT ![w][Cu(w)] = next]}
        /\ faults' \in Nat
    BY <1>6 DEF PutBreaker, Fault, TypeOK
  <2> HIDE DEF next
  <2>4. /\ breakers' \in [Customers -> HeldBreaker \cup {NoItem}]
        /\ breaker_states' \in [Workers -> [Customers -> HeldBreaker \cup {NoItem}]]
    <3>1. breakers' = breakers \/ breakers' = [breakers EXCEPT ![Cu(w)] = next]
      BY <2>3
    <3>2. \/ breaker_states' = breaker_states
          \/ breaker_states' = [breaker_states EXCEPT ![w][Cu(w)] = next]
      BY <2>3
    <3>3. breakers' \in [Customers -> HeldBreaker \cup {NoItem}]
      BY <2>2, <3>1 DEF TypeOK
    <3>4. [breaker_states[w] EXCEPT ![Cu(w)] = next]
            \in [Customers -> HeldBreaker \cup {NoItem}]
      BY <2>2 DEF TypeOK
    <3>5. breaker_states' \in [Workers -> [Customers -> HeldBreaker \cup {NoItem}]]
      BY <3>2, <3>4 DEF TypeOK
    <3> QED  BY <3>3, <3>5
  <2>5. /\ \E step \in {"deliver", "update_event_status"} : pc' = [pc EXCEPT ![w] = step]
        /\ event' \in [Workers -> Event]
        /\ delay' \in [Workers -> Nat]
    BY <1>6, BreakerWrittenType DEF PutBreaker
  <2>6. PICK step \in AtItem : pc' = [pc EXCEPT ![w] = step]
    BY <2>5 DEF AtItem, Steps
  <2>7. UNCHANGED <<events, replica, attempts, configs, queue, held, job, breaker,
                    policy, crashes, history>>
    BY <1>6 DEF PutBreaker
  <2>8. TypeOK'
    <3>1. /\ pc' \in [Workers -> Steps]
          /\ \A v \in Workers : pc'[v] # "idle" => job'[v] \in Receipt
      BY <2>1, <2>6, <2>7 DEF TypeOK, Steps, AtItem
    <3> QED  BY <2>3, <2>4, <2>5, <2>7, <3>1 DEF TypeOK, history
  <2> QED
    BY <2>1, <2>6, <2>7, <2>8 DEF TypeOK, Ev
<1>8. ASSUME NEW w \in Workers, Deliver(w) PROVE TypeInv'
  <2>1. Cu(w) \in Customers /\ Ev(w) \in Events /\ pc[w] \in AtItem
    BY <1>8, JobType DEF Deliver, AtItem, Steps
  <2>2. PICK class \in HttpClass \cup TransportClass :
          /\ policy' = [policy EXCEPT ![w] = PolicyForClass(class)]
          /\ acked' = [acked EXCEPT ![Ev(w)] = @ \/ class = "None"]
          /\ streak' = [streak EXCEPT ![Cu(w)] =
                          IF class = "None" THEN 0 ELSE @ + 1]
    BY <1>8 DEF Deliver
  <2>3. PolicyForClass(class) \in Policies
    BY <2>2 DEF PolicyForClass, Policies
  <2>4. policy' \in [Workers -> Policies]
    BY <2>2, <2>3 DEF TypeOK
  <2>5. (acked[Ev(w)] \/ class = "None") \in BOOLEAN
    OBVIOUS
  <2>6. acked' \in [Events -> BOOLEAN]
    BY <2>1, <2>2, <2>5 DEF TypeOK
  <2>7. streak' \in [Customers -> Nat] /\ posts' \in [Events -> Nat]
    BY <1>8, <2>1, <2>2 DEF Deliver, TypeOK
  <2>8. /\ pc' = [pc EXCEPT ![w] = "record_attempt"]
        /\ UNCHANGED <<tables, queue, breaker_states, held, job, event, breaker,
                        delay, faults, crashes, settled, contended>>
    BY <1>8 DEF Deliver, GoTo
  <2>9. /\ pc' \in [Workers -> Steps]
        /\ \A v \in Workers : pc'[v] # "idle" => job'[v] \in Receipt
    BY <2>1, <2>8 DEF TypeOK, Steps, AtItem
  <2>10. TypeOK'
    BY <2>4, <2>6, <2>7, <2>8, <2>9 DEF TypeOK, tables
  <2> QED
    BY <2>1, <2>8, <2>10 DEF TypeOK, tables, Ev
<1>9. ASSUME NEW w \in Workers, RecordAttempt(w) PROVE TypeInv'
  <2>1. Ev(w) \in Events /\ pc[w] \in AtItem
    BY <1>9, JobType DEF RecordAttempt, AtItem, Steps
  <2>2. AttemptNumber(event[w]) \in Nat
    BY DEF AttemptNumber, TypeOK, Event
  <2>3. attempts' \in [Events -> SUBSET Nat]
    <3> DEFINE n == AttemptNumber(event[w])
    <3>1. \/ attempts' = [attempts EXCEPT ![Ev(w)] = @ \cup {n}]
          \/ attempts' = attempts
      BY <1>9 DEF RecordAttempt
    <3> HIDE DEF n
    <3>2. CASE attempts' = attempts
      BY <3>2 DEF TypeOK
    <3>3. CASE attempts' = [attempts EXCEPT ![Ev(w)] = @ \cup {n}]
      <4>1. attempts[Ev(w)] \cup {n} \in SUBSET Nat
        BY <2>1, <2>2 DEF TypeOK, n
      <4> QED  BY <3>3, <4>1 DEF TypeOK
    <3> QED  BY <3>1, <3>2, <3>3
  <2>4. CASE Fault /\ Abandon(w)
    BY <1>9, <2>3, <2>4, DoneType, DoneItem, AbandonIsDone
    DEF RecordAttempt, Fault, TypeOK, history
  <2>5. CASE GoTo(w, "increment_attempt_count") /\ UNCHANGED <<job, local, faults>>
    BY <1>9, <2>1, <2>3, <2>5
    DEF RecordAttempt, GoTo, TypeOK, Steps, AtItem, local, history, Ev
  <2> QED  BY <1>9, <2>4, <2>5 DEF RecordAttempt
<1>10. ASSUME NEW w \in Workers, IncrementAttemptCount(w) PROVE TypeInv'
  <2> DEFINE n == CountedAttempts(event[w])
  <2>1. Ev(w) \in Events /\ pc[w] \in AtItem
    BY <1>10, JobType DEF IncrementAttemptCount, AtItem, Steps
  <2>2. n \in Nat /\ [event[w] EXCEPT !.attempt_count = n] \in Event
    BY EventType DEF TypeOK
  <2>3. events[Ev(w)] # NoItem /\ events[Ev(w)] \in Event
    BY <2>1 DEF TypeOK
  <2>4. [events[Ev(w)] EXCEPT !.attempt_count = n] \in Event
    BY <2>2, <2>3 DEF Event
  <2> HIDE DEF n
  <2>5. /\ events' \in [Events -> Event \cup {NoItem}]
        /\ \A e \in Events : events[e] # NoItem => events'[e] # NoItem
    <3>1. \/ events' = events
          \/ events' = [events EXCEPT ![Ev(w)] = [@ EXCEPT !.attempt_count = n]]
      BY <1>10 DEF IncrementAttemptCount, n
    <3>2. events' \in [Events -> Event \cup {NoItem}]
      BY <2>1, <2>4, <3>1 DEF TypeOK
    <3>3. events[Ev(w)] # NoItem /\ [events[Ev(w)] EXCEPT !.attempt_count = n] # NoItem
      BY <2>3, <2>4, NoItemAssumption
    <3>4. ASSUME NEW e \in Events, events[e] # NoItem PROVE events'[e] # NoItem
      BY <3>1, <3>3, <3>4 DEF TypeOK
    <3> QED  BY <3>2, <3>4
  <2>6. CASE Fault /\ Abandon(w)
    BY <1>10, <2>5, <2>6, DoneType, DoneItem, AbandonIsDone
    DEF IncrementAttemptCount, Fault, TypeOK, history
  <2>7. CASE /\ event' = [event EXCEPT ![w].attempt_count = n]
             /\ breaker' = [breaker EXCEPT ![w] =
                  IF policy[w] = "Succeed" THEN OnSuccess(@) ELSE OnFailure(@, 0)]
             /\ GoTo(w, "put_outcome")
             /\ UNCHANGED <<job, policy, delay, faults>>
    <3>1. event' \in [Workers -> Event]
      BY <2>2, <2>7 DEF TypeOK
    <3>2. breaker' \in [Workers -> HeldBreaker]
      BY <2>7, OutcomeType DEF TypeOK
    <3>3. pc' = [pc EXCEPT ![w] = "put_outcome"] /\ UNCHANGED <<job, policy, delay, faults>>
      BY <2>7 DEF GoTo
    <3>4. UNCHANGED <<replica, attempts, configs, breakers, queue,
                      breaker_states, held, crashes, history>>
      BY <1>10 DEF IncrementAttemptCount
    <3>5. TypeOK'
      BY <2>1, <2>5, <3>1, <3>2, <3>3, <3>4 DEF TypeOK, Steps, AtItem, history
    <3>6. ASSUME NEW v \in Workers, pc'[v] \in AtItem PROVE events'[Ev(v)'] # NoItem
      <4>1. pc[v] \in AtItem /\ Ev(v)' = Ev(v)
        BY <2>1, <3>3, <3>6 DEF TypeOK, Ev
      <4>2. Ev(v) \in Events
        BY <4>1, JobType DEF AtItem
      <4> QED  BY <2>5, <4>1, <4>2
    <3> QED  BY <3>5, <3>6
  <2> QED  BY <1>10, <2>6, <2>7 DEF IncrementAttemptCount, n
<1>11. ASSUME NEW w \in Workers, UpdateEventStatus(w) PROVE TypeInv'
  <2>1. Ev(w) \in Events /\ pc[w] \in AtItem
    BY <1>11, JobType DEF UpdateEventStatus, AtItem, Steps
  <2>2. events[Ev(w)] # NoItem /\ events[Ev(w)] \in Event /\ event[w] \in Event
    BY <2>1 DEF TypeOK
  <2>3. Written(events[Ev(w)], event[w]) \in Event
    BY <2>2, EventType
  <2>4. (settled[Ev(w)] \/ event[w].status \in Terminal) \in BOOLEAN
    OBVIOUS
  <2>5. /\ events' \in [Events -> Event \cup {NoItem}]
        /\ \A e \in Events : events[e] # NoItem => events'[e] # NoItem
    <3> DEFINE item == Written(events[Ev(w)], event[w])
    <3>1. events' = events \/ events' = [events EXCEPT ![Ev(w)] = item]
      BY <1>11 DEF UpdateEventStatus
    <3> HIDE DEF item
    <3>2. item \in Event /\ item # NoItem
      BY <2>3, NoItemAssumption DEF item
    <3> QED  BY <2>1, <3>1, <3>2 DEF TypeOK
  <2>6. settled' \in [Events -> BOOLEAN]
    BY <1>11, <2>1, <2>4 DEF UpdateEventStatus, TypeOK
  <2>7. UNCHANGED <<replica, attempts, configs, breakers, queue,
                    breaker_states, held, crashes, posts, acked, contended,
                    streak>>
    BY <1>11 DEF UpdateEventStatus
  <2>8. CASE Abandon(w) /\ faults' \in Nat
    <3>1. TypeOK'
      BY <2>5, <2>6, <2>7, <2>8, DoneType, AbandonIsDone DEF TypeOK
    <3> QED
      BY <2>5, <2>8, <3>1, DoneItem, AbandonIsDone
  <2>9. CASE /\ GoTo(w, IF event[w].status \in Terminal
                        THEN "delete_message" ELSE "change_visibility")
             /\ UNCHANGED <<job, local, faults>>
    <3>1. PICK step \in {"delete_message", "change_visibility"} :
            pc' = [pc EXCEPT ![w] = step]
      BY <2>9 DEF GoTo
    <3>2. TypeOK'
      BY <2>1, <2>5, <2>6, <2>7, <2>9, <3>1 DEF TypeOK, Steps, AtItem, local
    <3>3. ASSUME NEW v \in Workers, pc'[v] \in AtItem PROVE events'[Ev(v)'] # NoItem
      <4>1. pc[v] \in AtItem /\ Ev(v)' = Ev(v)
        BY <2>1, <2>9, <3>1, <3>3 DEF TypeOK, Ev
      <4>2. Ev(v) \in Events
        BY <4>1, JobType DEF AtItem
      <4> QED  BY <2>5, <4>1, <4>2
    <3> QED  BY <3>2, <3>3
  <2> QED  BY <1>11, <2>8, <2>9 DEF UpdateEventStatus, Fault, TypeOK
<1>12. ASSUME NEW w \in Workers, DeleteMessage(w) PROVE TypeInv'
  <2>1. job[w] \in Receipt
    BY <1>12, JobType DEF DeleteMessage
  <2>2. queue' \in [Messages -> QueueEntry]
    <3> DEFINE m == job[w].message
               gone == [queue[m] EXCEPT !.place = "deleted", !.hidden = 0]
    <3>1. m \in Messages /\ queue[m] \in QueueEntry
      BY <2>1 DEF TypeOK, Receipt
    <3>2. gone \in QueueEntry
      BY <3>1 DEF QueueEntry
    <3>3. queue' = queue \/ queue' = [queue EXCEPT ![m] = gone]
      BY <1>12, <3>1 DEF DeleteMessage, TypeOK
    <3> QED  BY <3>2, <3>3 DEF TypeOK
  <2> QED
    BY <1>12, <2>2, DoneType, DoneItem
    DEF DeleteMessage, Fault, TypeOK, tables, history
<1>13. ASSUME NEW w \in Workers, ChangeVisibility(w) PROVE TypeInv'
  <2>1. job[w] \in Receipt
    BY <1>13, JobType DEF ChangeVisibility
  <2>2. HiddenFor(delay[w]) \in Nat
    BY VisibilityType DEF TypeOK
  <2>3. queue' \in [Messages -> QueueEntry]
    <3> DEFINE m == job[w].message
               later == [queue[m] EXCEPT !.hidden = HiddenFor(delay[w])]
    <3>1. m \in Messages /\ queue[m] \in QueueEntry
      BY <2>1 DEF TypeOK, Receipt
    <3>2. later \in QueueEntry
      BY <2>2, <3>1 DEF QueueEntry
    <3>3. queue' = queue \/ queue' = [queue EXCEPT ![m] = later]
      BY <1>13, <3>1 DEF ChangeVisibility, TypeOK
    <3> QED  BY <3>2, <3>3 DEF TypeOK
  <2>4. /\ Done(w)
        /\ faults' \in Nat
        /\ UNCHANGED <<tables, breaker_states, held, crashes, history>>
    BY <1>13 DEF ChangeVisibility, Fault, TypeOK
  <2>5. TypeOK'
    BY <2>3, <2>4, DoneType DEF TypeOK, tables, history
  <2> QED
    BY <2>4, <2>5, DoneItem DEF tables
<1>14. ASSUME NEW w \in Workers, Crash(w) PROVE TypeInv'
  <2>1. /\ held' \in [Workers -> SUBSET Receipt]
        /\ breaker_states' \in [Workers -> [Customers -> HeldBreaker \cup {NoItem}]]
    BY <1>14 DEF Crash, TypeOK
  <2>2. /\ Done(w)
        /\ crashes' \in Nat
        /\ UNCHANGED <<tables, queue, faults, history>>
    BY <1>14 DEF Crash, TypeOK
  <2>3. TypeOK'
    BY <2>1, <2>2, DoneType DEF TypeOK, tables, history
  <2> QED
    BY <2>2, <2>3, DoneItem DEF tables
<1>15. ASSUME NEW m \in Messages, Redrive(m) PROVE TypeInv'
  <2>1. queue' \in [Messages -> QueueEntry]
    BY <1>15 DEF Redrive, TypeOK, QueueEntry
  <2> QED
    BY <1>15, <2>1 DEF Redrive, TypeOK, tables, processes, local, history, Ev
<1>16. ASSUME NEW c \in Customers, PutConfig(c) PROVE TypeInv'
  BY <1>16 DEF PutConfig, TypeOK, Config, local, history, Ev
<1>17. CASE Tick
  <2>1. queue' \in [Messages -> QueueEntry]
    <3>1. ASSUME NEW m \in Messages, queue[m].hidden > 0
          PROVE  [queue[m] EXCEPT !.hidden = @ - 1] \in QueueEntry
      <4>1. queue[m] \in QueueEntry
        BY DEF TypeOK
      <4>2. queue[m].hidden - 1 \in Nat
        BY <3>1, <4>1 DEF QueueEntry
      <4> QED  BY <4>1, <4>2 DEF QueueEntry
    <3> QED
      BY <1>17, <3>1 DEF Tick, TypeOK
  <2>2. \A b \in HeldBreaker \cup {NoItem} : OneTickOn(b) \in HeldBreaker \cup {NoItem}
    BY VersionAndTickType DEF OneTickOn, Waiting
  <2>3. breakers' \in [Customers -> HeldBreaker \cup {NoItem}]
    BY <1>17, <2>2 DEF Tick, TypeOK
  <2>4. breaker_states' \in [Workers -> [Customers -> HeldBreaker \cup {NoItem}]]
    BY <1>17, <2>2 DEF Tick, TypeOK
  <2>5. breaker' \in [Workers -> HeldBreaker]
    BY <1>17, VersionAndTickType DEF Tick, TypeOK
  <2> QED
    BY <1>17, <2>1, <2>3, <2>4, <2>5 DEF Tick, TypeOK, history, Ev
<1>18. ASSUME NEW m \in Messages, Enqueue(m) \/ RemoveFromDlq(m) PROVE TypeInv'
  <2>1. PICK place \in {"queue", "removed"} :
          queue' = [queue EXCEPT ![m] = [@ EXCEPT !.place = place]]
    BY <1>18 DEF Enqueue, RemoveFromDlq
  <2>2. [queue[m] EXCEPT !.place = place] \in QueueEntry
    <3>1. queue[m] \in QueueEntry
      BY DEF TypeOK
    <3>2. place \in {"unsent", "queue", "deleted", "dlq", "removed"}
      OBVIOUS
    <3> QED  BY <3>1, <3>2 DEF QueueEntry
  <2>3. queue' \in [Messages -> QueueEntry]
    BY <2>1, <2>2 DEF TypeOK
  <2> QED
    BY <1>18, <2>3
    DEF Enqueue, RemoveFromDlq, TypeOK, tables, processes, local, history, Ev
<1>19. ASSUME NEW e \in Events, StoreEvent(e) PROVE TypeInv'
  <2>1. NewEvent \in Event /\ NewEvent # NoItem
    <3>1. NewEvent \in Event
      BY DEF NewEvent, Event, EventStatus
    <3> QED  BY <3>1, NoItemAssumption
  <2>2. /\ events' \in [Events -> Event \cup {NoItem}]
        /\ \A f \in Events : events[f] # NoItem => events'[f] # NoItem
    BY <1>19, <2>1 DEF StoreEvent, TypeOK
  <2>3. UNCHANGED <<replica, attempts, configs, breakers, queue, processes>>
    BY <1>19 DEF StoreEvent
  <2>4. TypeOK'
    BY <2>2, <2>3 DEF TypeOK, processes, local, history
  <2>5. ASSUME NEW v \in Workers, pc'[v] \in AtItem PROVE events'[Ev(v)'] # NoItem
    <3>1. pc[v] \in AtItem /\ Ev(v)' = Ev(v)
      BY <2>3, <2>5 DEF processes, Ev
    <3>2. Ev(v) \in Events
      BY <3>1, JobType DEF AtItem
    <3> QED  BY <2>2, <3>1, <3>2
  <2> QED  BY <2>4, <2>5
<1>20. ASSUME NEW e \in Events, Replicate(e) PROVE TypeInv'
  <2>1. replica' \in [Events -> Event \cup {NoItem}]
    BY <1>20 DEF Replicate, TypeOK
  <2> QED
    BY <1>20, <2>1 DEF Replicate, TypeOK, processes, local, history, Ev
<1>21. CASE UNCHANGED vars
  BY <1>21 DEF vars, processes, tables, local, history, TypeOK, Ev
<1> QED
  BY <1>1, <1>2, <1>3, <1>4, <1>5, <1>6, <1>8, <1>9, <1>10, <1>11,
     <1>12, <1>13, <1>14, <1>15, <1>16, <1>17, <1>18, <1>19, <1>20, <1>21
  DEF Next, Serve, Supply, Work

(* An item that was stored stays.                                           *)
LEMMA ItemsStay ==
    ASSUME TypeInv, [Next]_vars, NEW e \in Events, events[e] # NoItem
    PROVE  events'[e] # NoItem
<1>1. CASE events' = events
  BY <1>1
<1>2. ASSUME NEW w \in Workers, IncrementAttemptCount(w) PROVE events'[e] # NoItem
  <2>1. Ev(w) \in Events /\ events[Ev(w)] # NoItem
    BY <1>2, JobType DEF IncrementAttemptCount, TypeInv, AtItem, Steps
  <2>2. \/ events' = events
        \/ events' = [events EXCEPT ![Ev(w)] =
                         [@ EXCEPT !.attempt_count = CountedAttempts(event[w])]]
    BY <1>2 DEF IncrementAttemptCount
  <2>3. [events[Ev(w)] EXCEPT !.attempt_count = CountedAttempts(event[w])] \in Event
    <3>1. events[Ev(w)] \in Event /\ CountedAttempts(event[w]) \in Nat
      BY <2>1, EventType DEF TypeInv, TypeOK
    <3> QED  BY <3>1 DEF Event
  <2> QED
    BY <2>1, <2>2, <2>3, NoItemAssumption DEF TypeInv, TypeOK
<1>3. ASSUME NEW w \in Workers, UpdateEventStatus(w) PROVE events'[e] # NoItem
  <2>1. Ev(w) \in Events /\ events[Ev(w)] # NoItem
    BY <1>3, JobType DEF UpdateEventStatus, TypeInv, AtItem, Steps
  <2>2. Written(events[Ev(w)], event[w]) \in Event
    BY <2>1, EventType DEF TypeInv, TypeOK
  <2>3. \/ events' = events
        \/ events' = [events EXCEPT ![Ev(w)] = Written(@, event[w])]
    BY <1>3 DEF UpdateEventStatus
  <2> QED
    BY <2>1, <2>2, <2>3, NoItemAssumption DEF TypeInv, TypeOK
<1>4. ASSUME NEW f \in Events, StoreEvent(f) PROVE events'[e] # NoItem
  BY <1>4, NoItemAssumption DEF StoreEvent, NewEvent, Event, EventStatus, TypeInv, TypeOK
<1>5. ASSUME NEW w \in Workers,
             \/ Receive(w) \/ Crash(w) \/ Process(w) \/ GetEvent(w) \/ GetConfig(w)
             \/ GetBreaker(w) \/ PutBreaker(w) \/ Deliver(w)
             \/ RecordAttempt(w) \/ DeleteMessage(w) \/ ChangeVisibility(w)
      PROVE  events' = events
  BY <1>5 DEF Receive, Crash, Process, GetEvent, GetConfig, GetBreaker, PutBreaker,
              Deliver, RecordAttempt, DeleteMessage,
              ChangeVisibility, tables
<1>6. ASSUME \/ \E m \in Messages : Enqueue(m) \/ Redrive(m) \/ RemoveFromDlq(m)
             \/ \E f \in Events : Replicate(f)
             \/ \E c \in Customers : PutConfig(c)
             \/ Tick \/ UNCHANGED vars
      PROVE  events' = events
  BY <1>6 DEF Enqueue, Redrive, RemoveFromDlq, Replicate, PutConfig, Tick, vars, tables
<1> QED
  BY <1>1, <1>2, <1>3, <1>4, <1>5, <1>6 DEF Next, Serve, Supply, Work

(* Only Replicate moves the version a read may return.                      *)
LEMMA ReplicaMoves ==
    ASSUME TypeInv, [Next]_vars
    PROVE  \/ replica' = replica
           \/ \E e \in Events : ReadLag /\ replica' = [replica EXCEPT ![e] = events[e]]
  BY DEF Next, Serve, Supply, Work, Receive, Crash, Process, GetEvent, GetConfig, GetBreaker,
         PutBreaker, Deliver, RecordAttempt, IncrementAttemptCount,
         UpdateEventStatus, DeleteMessage, ChangeVisibility, Enqueue, Redrive,
         RemoveFromDlq, StoreEvent, Replicate, PutConfig, Tick, vars, tables

LEMMA ReplicaNext == TypeInv /\ ReplicaBehind /\ [Next]_vars => ReplicaBehind'
<1> SUFFICES ASSUME TypeInv, ReplicaBehind, [Next]_vars,
                    NEW e \in Events, replica'[e] # NoItem
             PROVE  events'[e] # NoItem
  BY DEF ReplicaBehind
<1>1. replica'[e] = replica[e] \/ replica'[e] = events[e]
  BY ReplicaMoves DEF TypeInv, TypeOK
<1> QED  BY <1>1, ItemsStay DEF ReplicaBehind

(* Every state the worker, the tables and the queue reach is one the types  *)
(* of the code (model.rs, resilience/mod.rs) allow.                         *)
THEOREM TypeCorrect == Spec => []TypeOK
<1>1. Init => TypeInv /\ ReplicaBehind
  BY InitType DEF Init, ReplicaBehind
<1>2. TypeInv /\ ReplicaBehind /\ [Next]_vars => (TypeInv /\ ReplicaBehind)'
  BY NextType, ReplicaNext
<1>3. TypeInv => TypeOK
  BY DEF TypeInv
<1> QED  BY <1>1, <1>2, <1>3, PTL DEF Spec
=============================================================================
