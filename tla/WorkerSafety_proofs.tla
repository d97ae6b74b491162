------------------------- MODULE WorkerSafety_proofs -------------------------
(***************************************************************************)
(* The safety invariants of Worker about events and messages, for any       *)
(* number of workers, messages and events, any batch size and receive       *)
(* count, and any number of crashes and failed calls; and that the workers  *)
(* implement EventLifecycle.                                                *)
(***************************************************************************)
EXTENDS Worker_proofs

LEMMA TypeInvariant == Spec => []TypeInv
<1>1. Init => TypeInv /\ ReplicaBehind
  BY InitType DEF Init, ReplicaBehind
<1>2. TypeInv /\ ReplicaBehind /\ [Next]_vars => (TypeInv /\ ReplicaBehind)'
  BY NextType, ReplicaNext
<1> QED  BY <1>1, <1>2, PTL DEF Spec

-----------------------------------------------------------------------------
(* The audit trail.  The rows behind a worker's copy of an event exist as   *)
(* long as it holds the copy; from the request until the count is written   *)
(* there is one request more than the copy's count, and from the row on     *)
(* there is its row.                                                        *)

Rows(e, n) == 1..n \subseteq attempts[e]

CopyBacked(w) ==
    /\ pc[w] \in AtItem => Rows(Ev(w), event[w].attempt_count)
    /\ pc[w] \in {"record_attempt", "increment_attempt_count"} =>
         AttemptNumber(event[w]) <= posts[Ev(w)]
    /\ pc[w] = "increment_attempt_count" =>
         AttemptNumber(event[w]) \in attempts[Ev(w)]

(* An older version of an item counts attempts that have their rows, too.   *)
ReplicaBacked ==
    \A e \in Events : replica[e] # NoItem => Rows(e, replica[e].attempt_count)

AuditInv == AuditTrail /\ \A w \in Workers : CopyBacked(w)

(* A worker keeps its copy of the event in a step, or gives it up.          *)
KeepsCopy(w) ==
    pc'[w] \in AtItem =>
        /\ pc[w] \in AtItem /\ job'[w] = job[w]
        /\ event'[w].attempt_count = event[w].attempt_count
        /\ pc'[w] \in {"record_attempt", "increment_attempt_count"} => pc'[w] = pc[w]

(* Rows and requests are only ever added.                                   *)
TrailGrows ==
    \A e \in Events : attempts[e] \subseteq attempts'[e] /\ posts[e] <= posts'[e]

LEMMA CopyKept ==
    ASSUME TypeInv, TypeInv', AuditInv, TrailGrows, NEW w \in Workers, KeepsCopy(w)
    PROVE  CopyBacked(w)'
<1>1. CASE pc'[w] \notin AtItem
  BY <1>1 DEF AtItem, Steps, CopyBacked
<1>2. CASE pc'[w] \in AtItem
  <2>1. /\ Ev(w)' = Ev(w) /\ pc[w] \in AtItem
        /\ event'[w].attempt_count = event[w].attempt_count
    BY <1>2 DEF KeepsCopy, Ev
  <2>2. Ev(w) \in Events
    BY <2>1, JobType DEF TypeInv, AtItem
  <2>3. CopyBacked(w)
    BY DEF AuditInv
  <2>4. /\ attempts[Ev(w)] \subseteq attempts'[Ev(w)]
        /\ posts[Ev(w)] <= posts'[Ev(w)]
        /\ posts[Ev(w)] \in Nat /\ posts'[Ev(w)] \in Nat
    BY <2>2 DEF TrailGrows, TypeInv, TypeOK
  <2>5. event[w].attempt_count \in Nat
    BY DEF TypeInv, TypeOK, Event
  <2>6. Rows(Ev(w), event[w].attempt_count)'
    BY <2>1, <2>3, <2>4 DEF CopyBacked, Rows
  <2>7. ASSUME pc'[w] \in {"record_attempt", "increment_attempt_count"}
        PROVE  /\ pc[w] = pc'[w]
               /\ AttemptNumber(event[w])' = AttemptNumber(event[w])
               /\ AttemptNumber(event[w]) <= posts'[Ev(w)]
    BY <1>2, <2>1, <2>3, <2>4, <2>5, <2>7 DEF KeepsCopy, CopyBacked, AttemptNumber
  <2>8. ASSUME pc'[w] = "increment_attempt_count"
        PROVE  AttemptNumber(event[w]) \in attempts'[Ev(w)]
    BY <2>3, <2>4, <2>7, <2>8 DEF CopyBacked
  <2> QED
    BY <2>1, <2>6, <2>7, <2>8 DEF CopyBacked
<1> QED  BY <1>1, <1>2

(* A step that neither sends a request nor writes a row nor a count.        *)
LEMMA AuditQuiet ==
    ASSUME TypeInv, TypeInv', AuditInv, UNCHANGED <<attempts, posts>>,
           \A w \in Workers : KeepsCopy(w),
           \A e \in Events : events'[e] # NoItem =>
               /\ events[e] # NoItem
               /\ events'[e].attempt_count = events[e].attempt_count
    PROVE  AuditInv'
<1>1. AuditTrail'
  BY DEF AuditInv, AuditTrail
<1>2. TrailGrows
  BY DEF TrailGrows, TypeInv, TypeOK
<1> QED  BY <1>1, <1>2, CopyKept DEF AuditInv

(* Giving the message up gives the copy up.                                 *)
LEMMA DoneCopies ==
    ASSUME TypeInv, NEW w \in Workers, Done(w)
    PROVE  \A v \in Workers : KeepsCopy(v)
  BY DEF KeepsCopy, Done, GoTo, TypeInv, TypeOK, AtItem

(* There never are more rows than requests, nor more counted attempts than  *)
(* rows.                                                                    *)
LEMMA CopyBound ==
    ASSUME TypeInv, AuditInv, NEW w \in Workers, pc[w] \in AtItem
    PROVE  event[w].attempt_count <= posts[Ev(w)]
<1>1. Ev(w) \in Events /\ event[w].attempt_count \in Nat
  BY JobType DEF TypeInv, TypeOK, AtItem, Event
<1>2. Rows(Ev(w), event[w].attempt_count) /\ posts[Ev(w)] \in Nat
  BY <1>1 DEF AuditInv, CopyBacked, TypeInv, TypeOK
<1>3. CASE event[w].attempt_count = 0
  BY <1>2, <1>3
<1>4. CASE event[w].attempt_count > 0
  <2>1. event[w].attempt_count \in attempts[Ev(w)]
    BY <1>1, <1>2, <1>4 DEF Rows
  <2> QED
    BY <1>1, <2>1 DEF AuditInv, AuditTrail
<1> QED  BY <1>1, <1>3, <1>4

(* What the outcome of a breaker put means for the copies: no count moves.  *)
LEMMA WrittenKeepsCount ==
    ASSUME TypeInv, NEW w \in Workers, BreakerWritten(w)
    PROVE  \A v \in Workers :
             /\ event'[v].attempt_count = event[v].attempt_count
             /\ pc'[v] = IF v = w THEN pc'[w] ELSE pc[v]
             /\ pc'[w] \in {"deliver", "update_event_status"}
<1>1. \A e \in Event : /\ MarkDelivered(e).attempt_count = e.attempt_count
                       /\ MarkFailed(e).attempt_count = e.attempt_count
                       /\ MarkRetryScheduled(e).attempt_count = e.attempt_count
  BY DEF MarkDelivered, MarkFailed, MarkRetryScheduled, Event
<1>2. PICK step \in {"deliver", "update_event_status"} :
        pc' = [pc EXCEPT ![w] = step]
  BY BreakerWrittenType DEF TypeInv
<1>3. \/ event' = event
      \/ event' = [event EXCEPT ![w] = MarkDelivered(@)]
      \/ event' = [event EXCEPT ![w] = MarkFailed(@)]
      \/ event' = [event EXCEPT ![w] = MarkRetryScheduled(@)]
  BY DEF BreakerWritten, GateWritten, OutcomeWritten
<1>4. \A v \in Workers : event[v] \in Event
  BY DEF TypeInv, TypeOK
<1>5. event \in [Workers -> Event] /\ pc \in [Workers -> Steps]
  BY DEF TypeInv, TypeOK
<1>6. ASSUME NEW v \in Workers
      PROVE  event'[v].attempt_count = event[v].attempt_count
  BY <1>1, <1>3, <1>4, <1>5
<1>7. ASSUME NEW v \in Workers
      PROVE  pc'[v] = IF v = w THEN step ELSE pc[v]
  BY <1>2, <1>5
<1> QED
  BY <1>6, <1>7

LEMMA AuditInit == Init => AuditInv /\ ReplicaBacked
  BY DEF Init, AuditInv, AuditTrail, CopyBacked, AtItem, NewEvent, ReplicaBacked

LEMMA RowsStay ==
    ASSUME TypeInv, [Next]_vars, NEW e \in Events
    PROVE  attempts[e] \subseteq attempts'[e]
<1>1. CASE attempts' = attempts
  BY <1>1
<1>2. ASSUME NEW w \in Workers, RecordAttempt(w)
      PROVE  attempts[e] \subseteq attempts'[e]
  BY <1>2 DEF RecordAttempt, TypeInv, TypeOK
<1>3. attempts' = attempts \/ \E w \in Workers : RecordAttempt(w)
  BY DEF Next, Serve, Supply, Work, Receive, Crash, Process, GetEvent, GetConfig, GetBreaker,
         PutBreaker, Deliver, IncrementAttemptCount,
         UpdateEventStatus, DeleteMessage, ChangeVisibility, Enqueue, Redrive,
         RemoveFromDlq, StoreEvent, Replicate, PutConfig, Tick, vars, tables
<1> QED  BY <1>1, <1>2, <1>3

LEMMA ReplicaBackedNext ==
    TypeInv /\ AuditInv /\ ReplicaBacked /\ [Next]_vars => ReplicaBacked'
<1> SUFFICES ASSUME TypeInv, AuditInv, ReplicaBacked, [Next]_vars,
                    NEW e \in Events, replica'[e] # NoItem
             PROVE  1..(replica'[e].attempt_count) \subseteq attempts'[e]
  BY DEF ReplicaBacked, Rows
<1>1. replica'[e] = replica[e] \/ replica'[e] = events[e]
  BY ReplicaMoves DEF TypeInv, TypeOK
<1>2. Rows(e, replica'[e].attempt_count)
  BY <1>1 DEF ReplicaBacked, AuditInv, AuditTrail, Rows
<1>3. attempts[e] \subseteq attempts'[e]
  BY RowsStay
<1> QED  BY <1>2, <1>3 DEF Rows

LEMMA AuditNext ==
    TypeInv /\ TypeInv' /\ AuditInv /\ ReplicaBacked /\ [Next]_vars => AuditInv'
<1> SUFFICES ASSUME TypeInv, TypeInv', AuditInv, ReplicaBacked, [Next]_vars
             PROVE  AuditInv'
  OBVIOUS
<1> DEFINE Quiet == /\ \A v \in Workers : KeepsCopy(v)
                    /\ UNCHANGED <<events, attempts, posts>>
<1>1. ASSUME Quiet PROVE AuditInv'
  BY <1>1, AuditQuiet
<1>2. ASSUME NEW w \in Workers, Receive(w) \/ Process(w) PROVE Quiet
  <2>1. CASE Receive(w)
    BY <2>1 DEF Receive, KeepsCopy, tables, local, history
  <2>2. CASE Process(w)
    BY <2>2 DEF Process, GoTo, KeepsCopy, TypeInv, TypeOK, AtItem,
                tables, local, history
  <2> QED  BY <1>2, <2>1, <2>2
<1>3. ASSUME NEW w \in Workers, GetEvent(w) PROVE AuditInv'
  <2>1. CASE \/ GoTo(w, "delete_message") /\ UNCHANGED <<job, local>>
             \/ Done(w)
    <3>1. \A v \in Workers : KeepsCopy(v)
      BY <2>1, DoneCopies DEF GoTo, KeepsCopy, TypeInv, TypeOK, AtItem, local
    <3> QED
      BY <1>1, <1>3, <3>1 DEF GetEvent, tables, history
  <2>2. ASSUME NEW item \in Versions(Ev(w)), ~SkipEvent(item),
               event' = [event EXCEPT ![w] = item],
               GoTo(w, "get_config"), UNCHANGED job
        PROVE  AuditInv'
    <3>1. UNCHANGED <<events, attempts, posts>>
      BY <1>3 DEF GetEvent, tables, history
    <3>2. AuditTrail' /\ TrailGrows
      BY <3>1 DEF AuditInv, AuditTrail, TrailGrows, TypeInv, TypeOK
    <3>3. ASSUME NEW v \in Workers, v # w PROVE CopyBacked(v)'
      BY <2>2, <3>2, <3>3, CopyKept DEF KeepsCopy, GoTo, TypeInv, TypeOK
    <3>4. CopyBacked(w)'
      <4>1. Ev(w) \in Events /\ Ev(w)' = Ev(w) /\ pc'[w] = "get_config"
        BY <1>3, <2>2, JobType DEF GetEvent, GoTo, TypeInv, TypeOK, Ev
      <4>2. item # NoItem /\ event'[w] = item
        BY <2>2 DEF SkipEvent, TypeInv, TypeOK
      <4>3. item = events[Ev(w)] \/ item = replica[Ev(w)]
        BY <2>2 DEF Versions
      <4>4. Rows(Ev(w), event'[w].attempt_count)
        BY <4>1, <4>2, <4>3 DEF AuditInv, AuditTrail, ReplicaBacked, Rows
      <4> QED
        BY <3>1, <4>1, <4>4 DEF CopyBacked, Rows
    <3> QED  BY <3>2, <3>3, <3>4 DEF AuditInv
  <2> QED  BY <1>3, <2>1, <2>2, AbandonIsDone, DecodeErrorDeletes DEF GetEvent
<1>4. ASSUME NEW w \in Workers, GetConfig(w) PROVE Quiet
  <2>1. MarkFailed(event[w]).attempt_count = event[w].attempt_count
    BY DEF MarkFailed, TypeInv, TypeOK, Event
  <2>2. CASE Abandon(w)
    BY <1>4, <2>2, DoneCopies, AbandonIsDone DEF GetConfig, tables, history
  <2>3. CASE /\ GoTo(w, "get_breaker") \/ GoTo(w, "update_event_status")
             /\ UNCHANGED job
             /\ event' = event \/ event' = [event EXCEPT ![w] = MarkFailed(@)]
    BY <1>4, <2>1, <2>3 DEF GetConfig, GoTo, KeepsCopy, TypeInv, TypeOK, AtItem,
                            Steps, tables, history
  <2> QED  BY <1>4, <2>2, <2>3 DEF GetConfig
<1>5. ASSUME NEW w \in Workers, GetBreaker(w) PROVE Quiet
  BY <1>5 DEF GetBreaker, GoTo, KeepsCopy, TypeInv, TypeOK, AtItem, Steps,
              tables, history
<1>6. ASSUME NEW w \in Workers, PutBreaker(w) PROVE Quiet
  <2>1. pc[w] \in AtItem /\ UNCHANGED <<events, attempts, posts, job>>
    BY <1>6 DEF PutBreaker, AtItem, Steps, tables, history
  <2>2. BreakerWritten(w)
    BY <1>6 DEF PutBreaker
  <2>3. KeepsCopy(w)
    BY <2>1, <2>2, WrittenKeepsCount DEF KeepsCopy
  <2>4. ASSUME NEW v \in Workers, v # w PROVE KeepsCopy(v)
    BY <2>1, <2>2, <2>4, WrittenKeepsCount DEF KeepsCopy
  <2> QED  BY <2>1, <2>3, <2>4
<1>7. ASSUME NEW w \in Workers, Deliver(w) PROVE AuditInv'
  <2>1. /\ Ev(w) \in Events /\ Ev(w)' = Ev(w) /\ pc[w] \in AtItem
        /\ pc' = [pc EXCEPT ![w] = "record_attempt"]
        /\ posts' = [posts EXCEPT ![Ev(w)] = @ + 1]
        /\ UNCHANGED <<events, attempts, job, event>>
    BY <1>7, JobType DEF Deliver, GoTo, TypeInv, AtItem, Steps, Ev, tables
  <2>2. TrailGrows
    BY <2>1 DEF TrailGrows, TypeInv, TypeOK
  <2>3. AuditTrail'
    <3>1. ASSUME NEW e \in Events, NEW n \in attempts[e] PROVE n \in 1..posts'[e]
      BY <2>1 DEF AuditInv, AuditTrail, TypeInv, TypeOK
    <3> QED
      BY <2>1, <3>1 DEF AuditInv, AuditTrail
  <2>4. ASSUME NEW v \in Workers, v # w PROVE CopyBacked(v)'
    BY <2>1, <2>2, <2>4, CopyKept DEF KeepsCopy, TypeInv, TypeOK
  <2>5. CopyBacked(w)'
    <3>1. event[w].attempt_count \in Nat /\ posts[Ev(w)] \in Nat
      BY <2>1 DEF TypeInv, TypeOK, Event
    <3>2. pc'[w] = "record_attempt" /\ posts'[Ev(w)] = posts[Ev(w)] + 1
      BY <2>1 DEF TypeInv, TypeOK
    <3>3. Rows(Ev(w), event[w].attempt_count)
      BY <2>1 DEF AuditInv, CopyBacked
    <3>4. AttemptNumber(event[w]) <= posts'[Ev(w)]
      BY <2>1, <3>1, <3>2, CopyBound DEF AttemptNumber
    <3> QED
      BY <2>1, <3>2, <3>3, <3>4 DEF CopyBacked, Rows, AttemptNumber
  <2> QED  BY <2>3, <2>4, <2>5 DEF AuditInv
<1>8. ASSUME NEW w \in Workers, RecordAttempt(w) PROVE AuditInv'
  <2> DEFINE n == AttemptNumber(event[w])
             Put == attempts' = [attempts EXCEPT ![Ev(w)] = @ \cup {n}]
  <2>1. /\ Ev(w) \in Events /\ pc[w] = "record_attempt" /\ pc[w] \in AtItem
        /\ UNCHANGED <<events, posts>>
        /\ Put \/ attempts' = attempts
    BY <1>8, JobType DEF RecordAttempt, TypeInv, AtItem, Steps, history
  <2>2. n \in 1..posts[Ev(w)]
    BY <2>1 DEF AuditInv, CopyBacked, AttemptNumber, TypeInv, TypeOK, Event
  <2>3. 1..n \subseteq attempts[Ev(w)] \cup {n}
    <3>1. event[w].attempt_count \in Nat /\ Rows(Ev(w), event[w].attempt_count)
      BY <2>1 DEF AuditInv, CopyBacked, TypeInv, TypeOK, Event
    <3> QED
      BY <3>1 DEF Rows, AttemptNumber
  <2> HIDE DEF n
  <2>4. TrailGrows
    <3>1. attempts \in [Events -> SUBSET Nat] /\ posts \in [Events -> Nat]
      BY DEF TypeInv, TypeOK
    <3>2. ASSUME NEW e \in Events PROVE attempts[e] \subseteq attempts'[e]
      BY <2>1, <3>1
    <3>3. ASSUME NEW e \in Events PROVE posts[e] <= posts'[e]
      BY <2>1, <3>1
    <3> QED  BY <3>2, <3>3 DEF TrailGrows
  <2>5. AuditTrail'
    <3>1. ASSUME NEW e \in Events, NEW k \in attempts'[e]
          PROVE  1..k \subseteq attempts'[e] /\ k \in 1..posts'[e]
      <4>1. CASE k \in attempts[e]
        BY <2>1, <2>4, <4>1 DEF AuditInv, AuditTrail, TrailGrows
      <4>2. CASE k \notin attempts[e]
        <5>1. e = Ev(w) /\ k = n /\ attempts'[e] = attempts[e] \cup {n}
          BY <2>1, <4>2 DEF TypeInv, TypeOK
        <5> QED  BY <2>1, <2>2, <2>3, <5>1
      <4> QED  BY <4>1, <4>2
    <3>2. ASSUME NEW e \in Events, events'[e] # NoItem
          PROVE  1..events'[e].attempt_count \subseteq attempts'[e]
      BY <2>1, <2>4, <3>2 DEF AuditInv, AuditTrail, TrailGrows
    <3> QED  BY <3>1, <3>2 DEF AuditTrail
  <2>6. CASE Abandon(w)
    BY <2>4, <2>5, <2>6, DoneCopies, CopyKept, AbandonIsDone DEF AuditInv
  <2>7. CASE Put /\ GoTo(w, "increment_attempt_count") /\ UNCHANGED <<job, local>>
    <3>1. ASSUME NEW v \in Workers, v # w PROVE CopyBacked(v)'
      BY <2>4, <2>7, <3>1, CopyKept DEF KeepsCopy, GoTo, TypeInv, TypeOK, local
    <3>2. CopyBacked(w)'
      <4>1. /\ pc'[w] = "increment_attempt_count" /\ Ev(w)' = Ev(w)
            /\ event' = event /\ attempts'[Ev(w)] = attempts[Ev(w)] \cup {n}
        BY <2>1, <2>7 DEF GoTo, TypeInv, TypeOK, local, Ev
      <4>2. Rows(Ev(w), event[w].attempt_count)
        BY <2>1 DEF AuditInv, CopyBacked
      <4>3. n <= posts[Ev(w)]
        BY <2>1 DEF AuditInv, CopyBacked, n
      <4> QED
        BY <2>1, <4>1, <4>2, <4>3 DEF CopyBacked, Rows, AttemptNumber, n
    <3> QED  BY <2>5, <3>1, <3>2 DEF AuditInv
  <2> QED
    BY <1>8, <2>6, <2>7 DEF RecordAttempt, n
<1>9. ASSUME NEW w \in Workers, IncrementAttemptCount(w) PROVE AuditInv'
  <2> DEFINE n == CountedAttempts(event[w])
             Put == events' = [events EXCEPT ![Ev(w)].attempt_count = n]
  <2>1. /\ Ev(w) \in Events /\ pc[w] = "increment_attempt_count" /\ pc[w] \in AtItem
        /\ UNCHANGED <<attempts, posts>>
        /\ Put \/ events' = events
    BY <1>9, JobType DEF IncrementAttemptCount, TypeInv, AtItem, Steps, history
  <2>2. 1..n \subseteq attempts[Ev(w)]
    <3>1. event[w].attempt_count \in Nat /\ Rows(Ev(w), event[w].attempt_count)
          /\ event[w].attempt_count + 1 \in attempts[Ev(w)]
      BY <2>1 DEF AuditInv, CopyBacked, AttemptNumber, TypeInv, TypeOK, Event
    <3> QED
      BY <3>1 DEF Rows, CountedAttempts
  <2> HIDE DEF n
  <2>3. TrailGrows
    BY <2>1 DEF TrailGrows, TypeInv, TypeOK
  <2>4. AuditTrail'
    <3>1. ASSUME NEW e \in Events, events'[e] # NoItem
          PROVE  1..events'[e].attempt_count \subseteq attempts[e]
      <4>1. CASE events'[e] = events[e]
        BY <3>1, <4>1 DEF AuditInv, AuditTrail
      <4>2. CASE events'[e] # events[e]
        <5>1. e = Ev(w) /\ events'[e] = [events[e] EXCEPT !.attempt_count = n]
          BY <2>1, <4>2 DEF TypeInv, TypeOK
        <5>2. events[e] \in Event
          BY <2>1, <5>1 DEF TypeInv, TypeOK
        <5>3. events'[e].attempt_count = n
          BY <5>1, <5>2 DEF Event
        <5> QED  BY <2>2, <5>1, <5>3
      <4> QED  BY <4>1, <4>2
    <3> QED
      BY <2>1, <3>1 DEF AuditInv, AuditTrail
  <2>5. CASE Abandon(w)
    BY <2>3, <2>4, <2>5, DoneCopies, CopyKept, AbandonIsDone DEF AuditInv
  <2>6. CASE /\ event' = [event EXCEPT ![w].attempt_count = n]
             /\ GoTo(w, "put_outcome") /\ UNCHANGED job
    <3>1. ASSUME NEW v \in Workers, v # w PROVE CopyBacked(v)'
      BY <2>3, <2>6, <3>1, CopyKept DEF KeepsCopy, GoTo, TypeInv, TypeOK
    <3>2. CopyBacked(w)'
      <4>1. pc'[w] = "put_outcome" /\ Ev(w)' = Ev(w)
        BY <2>6 DEF GoTo, TypeInv, TypeOK, Ev
      <4>2. event'[w].attempt_count = n
        BY <2>6 DEF TypeInv, TypeOK, Event
      <4> QED
        BY <2>1, <2>2, <4>1, <4>2 DEF CopyBacked, Rows
    <3> QED  BY <2>4, <3>1, <3>2 DEF AuditInv
  <2> QED
    BY <1>9, <2>5, <2>6 DEF IncrementAttemptCount, n
<1>10. ASSUME NEW w \in Workers, UpdateEventStatus(w) PROVE AuditInv'
  <2>1. /\ Ev(w) \in Events /\ pc[w] \in AtItem /\ pc \in [Workers -> Steps]
        /\ UNCHANGED <<attempts, posts>>
    BY <1>10, JobType DEF UpdateEventStatus, TypeInv, TypeOK, AtItem, Steps
  <2>2. ASSUME NEW e \in Events, events'[e] # NoItem
        PROVE  events[e] # NoItem /\ events'[e].attempt_count = events[e].attempt_count
    <3>1. events[Ev(w)] \in Event /\ events[Ev(w)] # NoItem
      BY <2>1 DEF TypeInv, TypeOK
    <3>2. Written(events[Ev(w)], event[w]).attempt_count = events[Ev(w)].attempt_count
      BY <3>1 DEF Written, Event
    <3>3. \/ events' = events
          \/ events' = [events EXCEPT ![Ev(w)] = Written(events[Ev(w)], event[w])]
      BY <1>10 DEF UpdateEventStatus
    <3> QED
      BY <2>1, <2>2, <3>1, <3>2, <3>3 DEF TypeInv, TypeOK
  <2>3. ASSUME NEW v \in Workers PROVE KeepsCopy(v)
    <3>1. CASE Abandon(w)
      BY <3>1, DoneCopies, AbandonIsDone
    <3>2. CASE /\ GoTo(w, "delete_message") \/ GoTo(w, "change_visibility")
               /\ UNCHANGED <<job, event>>
      BY <2>1, <3>2 DEF GoTo, KeepsCopy
    <3> QED
      BY <1>10, <3>1, <3>2 DEF UpdateEventStatus, local
  <2> QED  BY <2>1, <2>2, <2>3, AuditQuiet
<1>11. ASSUME NEW w \in Workers, DeleteMessage(w) \/ ChangeVisibility(w) \/ Crash(w)
       PROVE  Quiet
  BY <1>11, DoneCopies DEF DeleteMessage, ChangeVisibility, Crash, tables, history
<1>12. ASSUME \/ \E m \in Messages : Enqueue(m) \/ Redrive(m) \/ RemoveFromDlq(m)
              \/ \E e \in Events : Replicate(e)
              \/ \E c \in Customers : PutConfig(c)
              \/ Tick
              \/ UNCHANGED vars
       PROVE  Quiet
  <2>1. UNCHANGED <<events, attempts, posts, pc, job, event>>
    BY <1>12 DEF Enqueue, Redrive, RemoveFromDlq, Replicate, PutConfig, Tick, vars,
                 tables, processes, local, history
  <2> QED  BY <2>1 DEF KeepsCopy
<1>13. ASSUME NEW f \in Events, StoreEvent(f) PROVE AuditInv'
  <2>1. UNCHANGED <<attempts, posts, pc, job, event>>
    BY <1>13 DEF StoreEvent, processes, local, history
  <2>2. ASSUME NEW e \in Events, events'[e] # NoItem
        PROVE  1..events'[e].attempt_count \subseteq attempts[e]
    <3>1. events'[e] = events[e] \/ events'[e] = NewEvent
      BY <1>13 DEF StoreEvent, TypeInv, TypeOK
    <3>2. CASE events'[e] = NewEvent
      BY <3>2 DEF NewEvent
    <3> QED  BY <2>2, <3>1, <3>2 DEF AuditInv, AuditTrail
  <2>3. AuditTrail'
    BY <2>1, <2>2 DEF AuditInv, AuditTrail
  <2>4. TrailGrows /\ \A v \in Workers : KeepsCopy(v)
    BY <2>1 DEF TrailGrows, KeepsCopy, TypeInv, TypeOK
  <2> QED  BY <2>3, <2>4, CopyKept DEF AuditInv
<1> QED
  BY <1>1, <1>2, <1>3, <1>4, <1>5, <1>6, <1>7, <1>8, <1>9, <1>10, <1>11, <1>12,
     <1>13
  DEF Next, Serve, Supply, Work

(* Whatever the interleaving of the workers, the crashes and the failed     *)
(* calls, the audit trail of every event has no gap, no row without a       *)
(* request and no counted attempt without a row (main.rs 198-205).          *)
THEOREM AuditTrailHolds == Spec => []AuditTrail
<1>1. Init => AuditInv /\ ReplicaBacked
  BY AuditInit
<1>2. TypeInv /\ TypeInv' /\ AuditInv /\ ReplicaBacked /\ [Next]_vars
        => (AuditInv /\ ReplicaBacked)'
  BY AuditNext, ReplicaBackedNext
<1>3. AuditInv => AuditTrail
  BY DEF AuditInv
<1> QED  BY <1>1, <1>2, <1>3, TypeInvariant, PTL DEF Spec

-----------------------------------------------------------------------------
(* Deletion.  A message in a worker's hands was sent, so that its event, if *)
(* it did not exist, will never be stored.                                  *)

Sent(m) == queue[m].place # "unsent"

InHandSent ==
    \A w \in Workers :
        /\ pc[w] # "idle" => Sent(job[w].message)
        /\ \A r \in held[w] : Sent(r.message)

LEMMA SentStays ==
    ASSUME TypeInv, [Next]_vars, NEW m \in Messages, Sent(m)
    PROVE  Sent(m)'
<1> USE DEF Sent
<1>1. CASE queue' = queue
  BY <1>1
<1>2. ASSUME NEW w \in Workers, Receive(w) PROVE Sent(m)'
  <2>1. PICK batch \in SUBSET Messages :
          queue' = [k \in Messages |->
            IF k \in batch
            THEN [queue[k] EXCEPT !.hidden = HiddenFor(0), !.receives = @ + 1]
            ELSE queue[k]]
    BY <1>2 DEF Receive
  <2>2. queue[m] \in QueueEntry
    BY DEF TypeInv, TypeOK
  <2> QED  BY <2>1, <2>2 DEF QueueEntry
<1>3. ASSUME NEW w \in Workers, DeleteMessage(w) PROVE Sent(m)'
  <2> DEFINE k == job[w].message
             gone == [queue[k] EXCEPT !.place = "deleted", !.hidden = 0]
  <2>1. queue' = queue \/ queue' = [queue EXCEPT ![k] = gone]
    BY <1>3, Zenon DEF DeleteMessage
  <2>2. queue \in [Messages -> QueueEntry]
    BY DEF TypeInv, TypeOK
  <2>3. ASSUME k \in Messages PROVE gone.place = "deleted"
    BY <2>2, <2>3 DEF QueueEntry
  <2> HIDE DEF gone, k
  <2>4. CASE m = k
    BY <2>1, <2>2, <2>3, <2>4
  <2>5. CASE m # k
    BY <2>1, <2>2, <2>5
  <2> QED  BY <2>4, <2>5
<1>4. ASSUME NEW w \in Workers, ChangeVisibility(w) PROVE Sent(m)'
  <2> DEFINE d == HiddenFor(delay[w])
  <2>1. \/ queue' = queue
        \/ queue' = [queue EXCEPT ![job[w].message].hidden = d]
    BY <1>4 DEF ChangeVisibility
  <2> HIDE DEF d
  <2>2. queue[m] \in QueueEntry /\ queue \in [Messages -> QueueEntry]
    BY DEF TypeInv, TypeOK
  <2>3. [queue[m] EXCEPT !.hidden = d].place = queue[m].place
    BY <2>2 DEF QueueEntry
  <2> QED  BY <2>1, <2>2, <2>3
<1>5. ASSUME NEW k \in Messages, Enqueue(k) \/ Redrive(k) \/ RemoveFromDlq(k)
      PROVE  Sent(m)'
  <2>1. PICK place \in {"queue", "dlq", "removed"} :
          queue' = [queue EXCEPT ![k] = [@ EXCEPT !.place = place]]
    BY <1>5 DEF Enqueue, Redrive, RemoveFromDlq
  <2>2. queue \in [Messages -> QueueEntry] /\ queue[k] \in QueueEntry
    BY DEF TypeInv, TypeOK
  <2>3. [queue[k] EXCEPT !.place = place].place = place
    BY <2>2 DEF QueueEntry
  <2> QED  BY <2>1, <2>2, <2>3
<1>6. CASE Tick
  <2>1. queue[m] \in QueueEntry
    BY DEF TypeInv, TypeOK
  <2> QED  BY <1>6, <2>1 DEF Tick, QueueEntry
<1>7. \/ queue' = queue \/ Tick
      \/ \E w \in Workers : Receive(w) \/ DeleteMessage(w) \/ ChangeVisibility(w)
      \/ \E k \in Messages : Enqueue(k) \/ Redrive(k) \/ RemoveFromDlq(k)
  BY DEF Next, Serve, Supply, Work, Crash, Process, GetEvent, GetConfig, GetBreaker, PutBreaker,
         Deliver, RecordAttempt, IncrementAttemptCount,
         UpdateEventStatus, StoreEvent, Replicate, PutConfig, vars
<1> QED  BY <1>1, <1>2, <1>3, <1>4, <1>5, <1>6, <1>7

LEMMA InHandNext ==
    TypeInv /\ TypeInv' /\ InHandSent /\ [Next]_vars => InHandSent'
<1> SUFFICES ASSUME TypeInv, TypeInv', InHandSent, [Next]_vars, NEW v \in Workers
             PROVE  /\ pc'[v] # "idle" => Sent(job[v].message)'
                    /\ \A r \in held'[v] : Sent(r.message)'
  BY DEF InHandSent
<1>1. \A m \in Messages : Sent(m) => Sent(m)'
  BY SentStays
<1>2. ASSUME held'[v] \subseteq held[v],
             pc'[v] # "idle" => pc[v] # "idle" /\ job'[v] = job[v]
      PROVE  /\ pc'[v] # "idle" => Sent(job[v].message)'
             /\ \A r \in held'[v] : Sent(r.message)'
  <2>1. \A r \in Receipt : r.message \in Messages
    BY DEF Receipt
  <2>2. pc[v] # "idle" => job[v] \in Receipt
    BY DEF TypeInv, TypeOK
  <2>3. held[v] \subseteq Receipt
    BY DEF TypeInv, TypeOK
  <2>4. ASSUME pc'[v] # "idle" PROVE Sent(job[v].message)'
    <3>1. Sent(job[v].message) /\ job[v].message \in Messages /\ job'[v] = job[v]
      BY <1>2, <2>1, <2>2, <2>4 DEF InHandSent
    <3> QED  BY <1>1, <3>1 DEF Sent
  <2>5. ASSUME NEW r \in held'[v] PROVE Sent(r.message)'
    BY <1>1, <1>2, <2>1, <2>3 DEF InHandSent
  <2> QED  BY <2>4, <2>5
<1>3. ASSUME NEW w \in Workers, Receive(w)
      PROVE  /\ pc'[v] # "idle" => Sent(job[v].message)'
             /\ \A r \in held'[v] : Sent(r.message)'
  <2>1. UNCHANGED <<pc, job>>
    BY <1>3 DEF Receive
  <2>2. CASE v # w
    BY <1>2, <1>3, <2>1, <2>2 DEF Receive, TypeInv, TypeOK
  <2>3. CASE v = w
    <3>1. PICK batch \in SUBSET {m \in Messages :
                 Visible(m) /\ queue[m].receives < MaxReceiveCount} :
            \/ held' = [held EXCEPT ![w] =
                 {[message |-> m, receive |-> queue[m].receives + 1] : m \in batch}]
            \/ held' = held
      BY <1>3 DEF Receive
    <3>2. held[w] = {}
      BY <1>3 DEF Receive
    <3>3. ASSUME NEW r \in held'[v] PROVE r.message \in Messages /\ Sent(r.message)
      BY <2>3, <3>1, <3>2 DEF Visible, Sent, TypeInv, TypeOK
    <3>4. pc'[v] = "idle"
      BY <1>3, <2>1, <2>3 DEF Receive
    <3> QED  BY <1>1, <3>3, <3>4
  <2> QED  BY <2>2, <2>3
<1>4. ASSUME NEW w \in Workers, Process(w)
      PROVE  /\ pc'[v] # "idle" => Sent(job[v].message)'
             /\ \A r \in held'[v] : Sent(r.message)'
  <2>1. PICK r \in held[w] :
          /\ held' = [held EXCEPT ![w] = @ \ {r}]
          /\ job' = [job EXCEPT ![w] = r]
          /\ \E step \in Steps : pc' = [pc EXCEPT ![w] = step]
    BY <1>4 DEF Process, GoTo, Steps
  <2>2. CASE v # w
    BY <1>2, <2>1, <2>2 DEF TypeInv, TypeOK
  <2>3. CASE v = w
    <3>1. held[w] \subseteq Receipt /\ held'[v] = held[w] \ {r} /\ job'[v] = r
      BY <2>1, <2>3 DEF TypeInv, TypeOK
    <3>2. \A q \in held[w] : q.message \in Messages /\ Sent(q.message)
      BY <3>1 DEF InHandSent, Receipt
    <3>3. Sent(r.message)' /\ \A q \in held'[v] : Sent(q.message)'
      BY <1>1, <2>1, <3>1, <3>2
    <3> QED  BY <3>1, <3>3 DEF Sent
  <2> QED  BY <2>2, <2>3
<1>5. ASSUME NEW w \in Workers, Done(w), held' = held \/ held' = [held EXCEPT ![w] = {}]
      PROVE  /\ held'[v] \subseteq held[v]
             /\ pc'[v] # "idle" => pc[v] # "idle" /\ job'[v] = job[v]
  BY <1>5 DEF Done, GoTo, TypeInv, TypeOK
<1>6. ASSUME NEW w \in Workers, UNCHANGED <<held, job>>, pc[w] # "idle",
             \E step \in Steps : pc' = [pc EXCEPT ![w] = step]
      PROVE  /\ held'[v] \subseteq held[v]
             /\ pc'[v] # "idle" => pc[v] # "idle" /\ job'[v] = job[v]
  BY <1>6 DEF TypeInv, TypeOK
<1>7. ASSUME NEW w \in Workers,
             \/ GetEvent(w) \/ GetConfig(w) \/ GetBreaker(w) \/ PutBreaker(w)
             \/ Deliver(w) \/ RecordAttempt(w)
             \/ IncrementAttemptCount(w) \/ UpdateEventStatus(w)
      PROVE  /\ UNCHANGED held /\ pc[w] # "idle"
             /\ \/ Done(w)
                \/ UNCHANGED job /\ \E step \in Steps : pc' = [pc EXCEPT ![w] = step]
  <2>1. CASE GetEvent(w) \/ GetConfig(w) \/ RecordAttempt(w) \/ IncrementAttemptCount(w)
             \/ UpdateEventStatus(w)
    BY <2>1, AbandonIsDone, DecodeErrorDeletes
    DEF GetEvent, GetConfig, RecordAttempt, IncrementAttemptCount, UpdateEventStatus,
        GoTo, Steps, local
  <2>2. CASE GetBreaker(w) \/ Deliver(w)
    BY <2>2 DEF GetBreaker, Deliver, GoTo, Steps
  <2>3. CASE PutBreaker(w)
    BY <2>3, BreakerWrittenType DEF PutBreaker, TypeInv, Steps
  <2> QED  BY <1>7, <2>1, <2>2, <2>3
<1>8. ASSUME NEW w \in Workers, DeleteMessage(w) \/ ChangeVisibility(w) \/ Crash(w)
      PROVE  Done(w) /\ (held' = held \/ held' = [held EXCEPT ![w] = {}])
  BY <1>8 DEF DeleteMessage, ChangeVisibility, Crash
<1>9. ASSUME \/ \E m \in Messages : Enqueue(m) \/ Redrive(m) \/ RemoveFromDlq(m)
             \/ \E e \in Events : StoreEvent(e) \/ Replicate(e)
             \/ \E c \in Customers : PutConfig(c)
             \/ Tick \/ UNCHANGED vars
      PROVE  UNCHANGED <<held, pc, job>>
  BY <1>9 DEF Enqueue, Redrive, RemoveFromDlq, StoreEvent, Replicate, PutConfig, Tick,
              vars, processes
<1> QED
  BY <1>2, <1>3, <1>4, <1>5, <1>6, <1>7, <1>8, <1>9 DEF Next, Serve, Supply, Work

(* An event is resolved when there is nothing left to do for it.  Once a    *)
(* message for it was sent it stays resolved, and a worker that goes to     *)
(* delete a message knows it.                                               *)

Resolution(e) == events[e] = NoItem \/ e \in Unreadable \/ settled[e]

DeleteInv ==
    /\ DeletedOnlySettled
    /\ \A e \in Events : Settled(e) => settled[e]
    /\ \A w \in Workers :
         pc[w] = "delete_message" /\ job[w].message \notin Poison => Resolution(Ev(w))

(* Resolution lasts, and so does the record of what was settled.            *)
StaysResolved ==
    \A e \in Events :
        /\ Resolution(e) /\ SentFor(e) # {} => Resolution(e)'
        /\ Settled(e)' => settled'[e]

(* A worker arrives at the deletion in a step, only of a resolved event.    *)
RightToDelete(w) ==
    pc'[w] = "delete_message" /\ job'[w].message \notin Poison =>
        \/ pc[w] = "delete_message" /\ job'[w] = job[w]
        \/ Resolution(Ev(w))'

LEMMA DeleteQuiet ==
    ASSUME TypeInv, TypeInv', InHandSent, DeleteInv, StaysResolved,
           \A w \in Workers : RightToDelete(w),
           \A m \in Messages : queue'[m].place = "deleted" =>
               \/ queue[m].place = "deleted"
               \/ m \notin Poison => Resolution(EventOf[m])'
    PROVE  DeleteInv'
<1>1. DeletedOnlySettled'
  <2> SUFFICES ASSUME NEW m \in Messages \ Poison, queue'[m].place = "deleted"
               PROVE  Resolution(EventOf[m])'
    BY DEF DeletedOnlySettled, Resolution
  <2>1. EventOf[m] \in Events
    BY WorkerAssumption
  <2>2. queue[m].place = "deleted" => m \in SentFor(EventOf[m])
    BY DEF SentFor
  <2> QED
    BY <2>1, <2>2 DEF DeleteInv, DeletedOnlySettled, Resolution, StaysResolved
<1>2. ASSUME NEW w \in Workers, pc'[w] = "delete_message",
             job'[w].message \notin Poison
      PROVE  Resolution(Ev(w))'
  <2>1. CASE pc[w] = "delete_message" /\ job'[w] = job[w]
    <3>1. Ev(w) \in Events /\ Ev(w)' = Ev(w) /\ job[w] \in Receipt
      BY <2>1, JobType DEF TypeInv, Ev
    <3>2. job[w].message \in SentFor(Ev(w))
      BY <2>1, <3>1 DEF SentFor, InHandSent, Sent, Receipt, Ev
    <3> QED
      BY <1>2, <2>1, <3>1, <3>2 DEF DeleteInv, StaysResolved, Resolution
  <2> QED  BY <1>2, <2>1 DEF RightToDelete
<1> QED
  BY <1>1, <1>2 DEF DeleteInv, StaysResolved

LEMMA DoneRight ==
    ASSUME TypeInv, NEW w \in Workers, Done(w)
    PROVE  \A v \in Workers : RightToDelete(v)
  BY DEF RightToDelete, Done, GoTo, TypeInv, TypeOK

LEMMA DeleteNext ==
    ASSUME ~ReadLag
    PROVE  TypeInv /\ TypeInv' /\ InHandSent /\ DeleteInv /\ [Next]_vars => DeleteInv'
<1> SUFFICES ASSUME TypeInv, TypeInv', InHandSent, DeleteInv, [Next]_vars
             PROVE  DeleteInv'
  OBVIOUS
<1> DEFINE Kept == UNCHANGED <<events, settled>>
           Right == \A v \in Workers : RightToDelete(v)
           NoneDeleted == \A m \in Messages :
             queue'[m].place = "deleted" => queue[m].place = "deleted"
<1>1. ASSUME Kept PROVE StaysResolved
  BY <1>1 DEF StaysResolved, Resolution, Settled, DeleteInv
<1>2. ASSUME Kept, Right, NoneDeleted PROVE DeleteInv'
  BY <1>1, <1>2, DeleteQuiet
<1>3. ASSUME NEW w \in Workers, Receive(w) PROVE Kept /\ Right /\ NoneDeleted
  <2>1. Kept /\ Right
    BY <1>3 DEF Receive, RightToDelete, tables, history
  <2>2. NoneDeleted
    <3>1. PICK batch \in SUBSET Messages :
            queue' = [m \in Messages |->
              IF m \in batch
              THEN [queue[m] EXCEPT !.hidden = HiddenFor(0), !.receives = @ + 1]
              ELSE queue[m]]
      BY <1>3 DEF Receive
    <3>2. ASSUME NEW m \in Messages PROVE queue'[m].place = queue[m].place
      <4>1. queue[m] \in QueueEntry
        BY DEF TypeInv, TypeOK
      <4> QED  BY <3>1, <4>1 DEF QueueEntry
    <3> QED  BY <3>2
  <2> QED  BY <2>1, <2>2
<1>4. ASSUME NEW w \in Workers, Process(w) PROVE Kept /\ Right /\ NoneDeleted
  <2>1. Kept /\ NoneDeleted
    BY <1>4 DEF Process, tables, history
  <2>2. PICK r \in held[w] :
          /\ job' = [job EXCEPT ![w] = r]
          /\ pc' = [pc EXCEPT ![w] = IF r.message \in Poison
                                     THEN "delete_message" ELSE "get_event"]
    BY <1>4 DEF Process, GoTo
  <2>3. Right
    BY <2>2 DEF RightToDelete, TypeInv, TypeOK
  <2> QED  BY <2>1, <2>3
<1>5. ASSUME NEW w \in Workers, GetEvent(w) PROVE DeleteInv'
  <2>1. Kept /\ NoneDeleted /\ Ev(w) \in Events
    BY <1>5, JobType DEF GetEvent, TypeInv, tables, history
  <2>2. ASSUME SkipEvent(events[Ev(w)]) \/ Ev(w) \in Unreadable,
               GoTo(w, "delete_message"), UNCHANGED job
        PROVE  DeleteInv'
    <3>1. Resolution(Ev(w))'
      BY <2>1, <2>2 DEF SkipEvent, DeleteInv, Settled, Resolution, Ev
    <3> QED
      BY <1>2, <2>1, <2>2, <3>1 DEF RightToDelete, GoTo, TypeInv, TypeOK
  <2>3. CASE GoTo(w, "get_config") /\ UNCHANGED job
    BY <1>2, <2>1, <2>3 DEF RightToDelete, GoTo, TypeInv, TypeOK
  <2>4. CASE Abandon(w)
    BY <1>2, <2>1, <2>4, DoneRight, AbandonIsDone
  <2>5. Versions(Ev(w)) = {events[Ev(w)]}
    BY DEF Versions
  <2> QED
    BY <1>5, <2>2, <2>3, <2>4, <2>5, DecodeErrorDeletes DEF GetEvent
<1>6. ASSUME NEW w \in Workers,
             \/ GetConfig(w) \/ GetBreaker(w) \/ PutBreaker(w)
             \/ Deliver(w) \/ RecordAttempt(w)
      PROVE  Kept /\ Right /\ NoneDeleted
  <2>1. Kept /\ NoneDeleted
    BY <1>6 DEF GetConfig, GetBreaker, PutBreaker, Deliver,
                RecordAttempt, tables, history
  <2>2. CASE Abandon(w)
    BY <2>1, <2>2, DoneRight, AbandonIsDone
  <2>3. CASE UNCHANGED job /\ \E step \in Steps \ {"delete_message"} :
                                 pc' = [pc EXCEPT ![w] = step]
    BY <2>1, <2>3 DEF RightToDelete, TypeInv, TypeOK
  <2>4. Abandon(w) \/ (UNCHANGED job /\ \E step \in Steps \ {"delete_message"} :
                                           pc' = [pc EXCEPT ![w] = step])
    <3>1. CASE GetConfig(w)
      BY <3>1 DEF GetConfig, GoTo, Steps
    <3>2. CASE GetBreaker(w)
      BY <3>2 DEF GetBreaker, GoTo, Steps
    <3>4. CASE PutBreaker(w)
      BY <3>4, BreakerWrittenType DEF PutBreaker, TypeInv, Steps
    <3>5. CASE Deliver(w)
      BY <3>5 DEF Deliver, GoTo, Steps
    <3>6. CASE RecordAttempt(w)
      BY <3>6 DEF RecordAttempt, GoTo, Steps
    <3> QED  BY <1>6, <3>1, <3>2, <3>4, <3>5, <3>6
  <2> QED  BY <2>2, <2>3, <2>4
<1>7. ASSUME NEW w \in Workers, IncrementAttemptCount(w) PROVE DeleteInv'
  <2>1. /\ Ev(w) \in Events /\ pc[w] \in AtItem /\ NoneDeleted /\ UNCHANGED settled
        /\ \/ events' = events
           \/ events' = [events EXCEPT ![Ev(w)].attempt_count = CountedAttempts(event[w])]
    BY <1>7, JobType DEF IncrementAttemptCount, TypeInv, AtItem, Steps, history
  <2>2. events[Ev(w)] # NoItem /\ events[Ev(w)] \in Event
    BY <2>1 DEF TypeInv, TypeOK
  <2>3. ASSUME NEW e \in Events
        PROVE  /\ events[e] = NoItem => events'[e] = NoItem
               /\ Settled(e)' => Settled(e)
    <3>1. CASE e = Ev(w)
      <4>1. \/ events'[e] = events[e]
            \/ events'[e] = [events[e] EXCEPT !.attempt_count = CountedAttempts(event[w])]
        BY <2>1, <3>1 DEF TypeInv, TypeOK
      <4>2. events'[e].status = events[e].status
        BY <2>2, <3>1, <4>1 DEF Event
      <4> QED  BY <2>2, <3>1, <4>2 DEF Settled
    <3>2. CASE e # Ev(w)
      <4>1. events'[e] = events[e]
        BY <2>1, <3>2 DEF TypeInv, TypeOK
      <4> QED  BY <4>1 DEF Settled
    <3> QED  BY <3>1, <3>2
  <2>4. StaysResolved
    BY <2>1, <2>3 DEF StaysResolved, Resolution, DeleteInv
  <2>5. CASE Abandon(w)
    BY <2>1, <2>4, <2>5, DoneRight, DeleteQuiet, AbandonIsDone
  <2>6. CASE GoTo(w, "put_outcome") /\ UNCHANGED job
    <3>1. Right
      BY <2>6 DEF RightToDelete, GoTo, TypeInv, TypeOK
    <3> QED  BY <2>1, <2>4, <3>1, DeleteQuiet
  <2> QED  BY <1>7, <2>5, <2>6 DEF IncrementAttemptCount
<1>8. ASSUME NEW w \in Workers, UpdateEventStatus(w) PROVE DeleteInv'
  <2> DEFINE item == Written(events[Ev(w)], event[w])
             Put == /\ events' = [events EXCEPT ![Ev(w)] = item]
                    /\ settled' = [settled EXCEPT ![Ev(w)] =
                                     @ \/ event[w].status \in Terminal]
  <2>1. Ev(w) \in Events /\ pc[w] \in AtItem /\ NoneDeleted /\ (Put \/ Kept)
    BY <1>8, JobType DEF UpdateEventStatus, TypeInv, AtItem, Steps
  <2>2. events[Ev(w)] # NoItem /\ events[Ev(w)] \in Event
    BY <2>1 DEF TypeInv, TypeOK
  <2>3. item.status = event[w].status
    BY <2>2 DEF Written, Event
  <2>4. ASSUME Kept PROVE StaysResolved
    BY <1>1, <2>4
  <2>5. ASSUME Put PROVE StaysResolved
    <3>1. ASSUME NEW e \in Events, Resolution(e) PROVE Resolution(e)'
      <4>1. CASE e = Ev(w)
        BY <2>2, <2>5, <3>1, <4>1 DEF Resolution, TypeInv, TypeOK
      <4>2. CASE e # Ev(w)
        BY <2>5, <3>1, <4>2 DEF Resolution, TypeInv, TypeOK
      <4> QED  BY <4>1, <4>2
    <3>2. ASSUME NEW e \in Events, Settled(e)' PROVE settled'[e]
      <4>1. CASE e = Ev(w)
        BY <2>3, <2>5, <3>2, <4>1 DEF Settled, TypeInv, TypeOK
      <4>2. CASE e # Ev(w)
        BY <2>5, <3>2, <4>2 DEF Settled, DeleteInv, TypeInv, TypeOK
      <4> QED  BY <4>1, <4>2
    <3> QED  BY <3>1, <3>2 DEF StaysResolved
  <2> HIDE DEF item
  <2>6. StaysResolved
    BY <2>1, <2>4, <2>5
  <2>7. CASE Abandon(w)
    BY <2>1, <2>6, <2>7, DoneRight, DeleteQuiet, AbandonIsDone
  <2>8. CASE /\ Put /\ UNCHANGED job
             /\ GoTo(w, IF event[w].status \in Terminal
                        THEN "delete_message" ELSE "change_visibility")
    <3>1. event[w].status \in Terminal => Resolution(Ev(w))'
      BY <2>1, <2>8 DEF Resolution, TypeInv, TypeOK, Ev
    <3>2. Right
      BY <2>8, <3>1 DEF RightToDelete, GoTo, TypeInv, TypeOK
    <3> QED  BY <2>1, <2>6, <3>2, DeleteQuiet
  <2> QED
    BY <1>8, <2>7, <2>8 DEF UpdateEventStatus, local, item
<1>9. ASSUME NEW w \in Workers, DeleteMessage(w) PROVE DeleteInv'
  <2>1. Kept /\ Right /\ job[w] \in Receipt
    BY <1>9, DoneRight, JobType DEF DeleteMessage, TypeInv, tables, history
  <2>2. ASSUME NEW m \in Messages, queue'[m].place = "deleted"
        PROVE  queue[m].place = "deleted" \/ m = job[w].message
    BY <1>9, <2>2 DEF DeleteMessage, TypeInv, TypeOK
  <2>3. job[w].message \notin Poison => Resolution(Ev(w))
    BY <1>9 DEF DeleteMessage, DeleteInv
  <2>4. ASSUME NEW m \in Messages, m = job[w].message, m \notin Poison
        PROVE  Resolution(EventOf[m])'
    BY <2>1, <2>3, <2>4 DEF Resolution, Ev
  <2>5. StaysResolved
    BY <1>1, <2>1
  <2>6. ASSUME NEW m \in Messages, queue'[m].place = "deleted"
        PROVE  \/ queue[m].place = "deleted"
               \/ m \notin Poison => Resolution(EventOf[m])'
    BY <2>2, <2>4, <2>6
  <2> QED
    BY <2>1, <2>5, <2>6, DeleteQuiet
<1>10. ASSUME NEW w \in Workers, ChangeVisibility(w) \/ Crash(w)
       PROVE  Kept /\ Right /\ NoneDeleted
  <2>1. Kept /\ Right
    BY <1>10, DoneRight DEF ChangeVisibility, Crash, tables, history
  <2>2. CASE ChangeVisibility(w)
    <3> DEFINE d == HiddenFor(delay[w])
    <3>1. \/ queue' = queue
          \/ queue' = [queue EXCEPT ![job[w].message].hidden = d]
      BY <2>2 DEF ChangeVisibility
    <3> HIDE DEF d
    <3>2. ASSUME NEW m \in Messages PROVE queue'[m].place = queue[m].place
      <4>1. queue \in [Messages -> QueueEntry] /\ queue[m] \in QueueEntry
        BY DEF TypeInv, TypeOK
      <4>2. [queue[m] EXCEPT !.hidden = d].place = queue[m].place
        BY <4>1 DEF QueueEntry
      <4>3. CASE m = job[w].message
        BY <3>1, <4>1, <4>2, <4>3
      <4>4. CASE m # job[w].message
        BY <3>1, <4>1, <4>4
      <4> QED  BY <4>3, <4>4
    <3> QED  BY <2>1, <3>2
  <2> QED  BY <1>10, <2>1, <2>2 DEF Crash
<1>11. ASSUME NEW m \in Messages, Redrive(m) PROVE Kept /\ Right /\ NoneDeleted
  <2>1. NoneDeleted
    BY <1>11 DEF Redrive, TypeInv, TypeOK, QueueEntry
  <2> QED
    BY <1>11, <2>1 DEF Redrive, RightToDelete, processes, tables, history
<1>12. CASE Tick
  <2>1. ASSUME NEW m \in Messages PROVE queue'[m].place = queue[m].place
    <3>1. queue[m] \in QueueEntry
      BY DEF TypeInv, TypeOK
    <3> QED  BY <1>12, <3>1 DEF Tick, QueueEntry
  <2>2. Kept /\ Right
    BY <1>12 DEF Tick, RightToDelete, history
  <2> QED  BY <1>2, <2>1, <2>2
<1>13. ASSUME \/ \E c \in Customers : PutConfig(c)
              \/ \E e \in Events : Replicate(e)
              \/ UNCHANGED vars
       PROVE  Kept /\ Right /\ NoneDeleted
  BY <1>13
  DEF PutConfig, Replicate, vars, processes, tables, history, RightToDelete
<1>14. ASSUME NEW m \in Messages, Enqueue(m) \/ RemoveFromDlq(m)
       PROVE  Kept /\ Right /\ NoneDeleted
  <2>1. NoneDeleted
    BY <1>14 DEF Enqueue, RemoveFromDlq, TypeInv, TypeOK, QueueEntry
  <2> QED
    BY <1>14, <2>1
    DEF Enqueue, RemoveFromDlq, RightToDelete, processes, tables, history
<1>15. ASSUME NEW f \in Events, StoreEvent(f) PROVE DeleteInv'
  <2>1. /\ events[f] = NoItem /\ SentFor(f) = {}
        /\ events' = [events EXCEPT ![f] = NewEvent]
        /\ UNCHANGED <<queue, pc, job, settled>>
    BY <1>15 DEF StoreEvent, processes, history
  <2>2. NewEvent.status \notin Terminal
    BY DEF NewEvent, Terminal
  <2>3. StaysResolved
    <3>1. ASSUME NEW e \in Events, Resolution(e), SentFor(e) # {} PROVE Resolution(e)'
      BY <2>1, <3>1 DEF Resolution, TypeInv, TypeOK
    <3>2. ASSUME NEW e \in Events, Settled(e)' PROVE settled'[e]
      BY <2>1, <2>2, <3>2 DEF Settled, DeleteInv, TypeInv, TypeOK
    <3> QED  BY <3>1, <3>2 DEF StaysResolved
  <2>4. Right
    BY <2>1 DEF RightToDelete
  <2> QED  BY <2>1, <2>3, <2>4, DeleteQuiet
<1> QED
  BY <1>2, <1>3, <1>4, <1>5, <1>6, <1>7, <1>8, <1>9, <1>10, <1>11, <1>12, <1>13,
     <1>14, <1>15
  DEF Next, Serve, Supply, Work

LEMMA InHandInvariant == Spec => []InHandSent
<1>1. Init => InHandSent
  BY DEF Init, InHandSent
<1>2. TypeInv /\ TypeInv' /\ InHandSent /\ [Next]_vars => InHandSent'
  BY InHandNext
<1> QED  BY <1>1, <1>2, TypeInvariant, PTL DEF Spec

(* No interleaving, crash or failed call lets the worker delete the message *)
(* of an event that still needs work (main.rs 361-371), as long as a read   *)
(* of an event returns the item as it is.                                   *)
THEOREM DeletedOnlySettledHolds ==
    ASSUME ~ReadLag
    PROVE  Spec => []DeletedOnlySettled
<1>1. Init => DeleteInv
  BY DEF Init, DeleteInv, DeletedOnlySettled, Settled
<1>2. TypeInv /\ TypeInv' /\ InHandSent /\ DeleteInv /\ [Next]_vars => DeleteInv'
  BY DeleteNext
<1>3. DeleteInv => DeletedOnlySettled
  BY DEF DeleteInv
<1> QED  BY <1>1, <1>2, <1>3, TypeInvariant, InHandInvariant, PTL DEF Spec

-----------------------------------------------------------------------------
(* Delivery.  What a worker will write as delivered, it saw acknowledged.   *)

Claims(w) == policy[w] = "Succeed" \/ event[w].status = "delivered"

AckInv ==
    /\ DeliveredOnlyIfAcked
    /\ \A w \in Workers :
         /\ pc[w] \in {"idle", "get_event"} => policy[w] = "none"
         /\ pc[w] \in AtItem /\ Claims(w) => acked[Ev(w)]

(* A worker claims nothing new in a step.                                   *)
NoNewClaim(w) ==
    /\ pc'[w] \in {"idle", "get_event"} =>
         \/ policy'[w] = "none"
         \/ pc[w] \in {"idle", "get_event"} /\ policy'[w] = policy[w]
    /\ pc'[w] \in AtItem /\ Claims(w)' =>
         pc[w] \in AtItem /\ job'[w] = job[w] /\ Claims(w)

LEMMA AckQuiet ==
    ASSUME TypeInv, TypeInv', AckInv,
           \A w \in Workers : NoNewClaim(w),
           \A e \in Events : acked[e] => acked'[e],
           \A e \in Events : events'[e] # NoItem /\ events'[e].status = "delivered" =>
               \/ acked'[e]
               \/ events[e] # NoItem /\ events[e].status = "delivered"
    PROVE  AckInv'
<1>1. DeliveredOnlyIfAcked'
  BY DEF AckInv, DeliveredOnlyIfAcked
<1>2. ASSUME NEW w \in Workers
      PROVE  (/\ pc[w] \in {"idle", "get_event"} => policy[w] = "none"
              /\ pc[w] \in AtItem /\ Claims(w) => acked[Ev(w)])'
  <2>1. ASSUME pc'[w] \in {"idle", "get_event"} PROVE policy'[w] = "none"
    BY <2>1 DEF NoNewClaim, AckInv
  <2>2. ASSUME pc'[w] \in AtItem, Claims(w)' PROVE acked'[Ev(w)']
    <3>1. pc[w] \in AtItem /\ Claims(w) /\ Ev(w)' = Ev(w)
      BY <2>2 DEF NoNewClaim, Ev
    <3>2. Ev(w) \in Events /\ acked[Ev(w)]
      BY <3>1, JobType DEF AckInv, TypeInv, AtItem
    <3> QED  BY <3>1, <3>2
  <2> QED  BY <2>1, <2>2
<1> QED  BY <1>1, <1>2 DEF AckInv

LEMMA DoneClaims ==
    ASSUME TypeInv, NEW w \in Workers, Done(w)
    PROVE  \A v \in Workers : NoNewClaim(v)
<1> SUFFICES ASSUME NEW v \in Workers PROVE NoNewClaim(v)
  OBVIOUS
<1>1. CASE v = w
  BY <1>1 DEF NoNewClaim, Done, GoTo, TypeInv, TypeOK, AtItem
<1>2. CASE v # w
  BY <1>2 DEF NoNewClaim, Claims, Done, GoTo, TypeInv, TypeOK
<1> QED  BY <1>1, <1>2

(* A breaker put claims a delivery only where the answer was a success.     *)
LEMMA WrittenClaims ==
    ASSUME TypeInv, NEW w \in Workers, pc[w] \in AtItem, BreakerWritten(w),
           UNCHANGED <<job, policy>>
    PROVE  \A v \in Workers : NoNewClaim(v)
<1>1. PICK step \in {"deliver", "update_event_status"} :
        pc' = [pc EXCEPT ![w] = step]
  BY BreakerWrittenType DEF TypeInv
<1>2. \/ event' = event
      \/ policy[w] = "Succeed" /\ event' = [event EXCEPT ![w] = MarkDelivered(@)]
      \/ event' = [event EXCEPT ![w] = MarkFailed(@)]
      \/ event' = [event EXCEPT ![w] = MarkRetryScheduled(@)]
  BY DEF BreakerWritten, GateWritten, OutcomeWritten
<1>3. \A e \in Event : /\ MarkFailed(e).status = "failed"
                       /\ MarkRetryScheduled(e).status = e.status
  BY DEF MarkFailed, MarkRetryScheduled, Event
<1>4. event \in [Workers -> Event] /\ pc \in [Workers -> Steps] /\ event[w] \in Event
  BY DEF TypeInv, TypeOK
<1>5. ASSUME NEW v \in Workers, v # w PROVE NoNewClaim(v)
  BY <1>1, <1>2, <1>4, <1>5 DEF NoNewClaim, Claims
<1>6. NoNewClaim(w)
  BY <1>1, <1>2, <1>3, <1>4 DEF NoNewClaim, Claims
<1> QED  BY <1>5, <1>6

LEMMA AckNext == TypeInv /\ TypeInv' /\ AckInv /\ [Next]_vars => AckInv'
<1> SUFFICES ASSUME TypeInv, TypeInv', AckInv, [Next]_vars PROVE AckInv'
  OBVIOUS
<1> DEFINE Kept  == UNCHANGED <<events, acked>>
           Quiet == \A v \in Workers : NoNewClaim(v)
<1>1. ASSUME Kept, Quiet PROVE AckInv'
  BY <1>1, AckQuiet
<1>2. ASSUME NEW w \in Workers, Receive(w) \/ Process(w) PROVE Kept /\ Quiet
  <2>1. CASE Receive(w)
    BY <2>1 DEF Receive, NoNewClaim, Claims, Ev, tables, local, history
  <2>2. CASE Process(w)
    BY <2>2 DEF Process, GoTo, NoNewClaim, Claims, TypeInv, TypeOK, AtItem,
                tables, local, history
  <2> QED  BY <1>2, <2>1, <2>2
<1>3. ASSUME NEW w \in Workers, GetEvent(w) PROVE Kept /\ Quiet
  <2>1. Kept
    BY <1>3 DEF GetEvent, tables, history
  <2>2. CASE Abandon(w)
    BY <2>1, <2>2, DoneClaims, AbandonIsDone
  <2>3. CASE GoTo(w, "delete_message") /\ UNCHANGED <<job, local>>
    BY <2>1, <2>3 DEF GoTo, NoNewClaim, Claims, TypeInv, TypeOK, AtItem, local
  <2>4. ASSUME NEW item \in Versions(Ev(w)), ~SkipEvent(item),
               event' = [event EXCEPT ![w] = item],
               GoTo(w, "get_config"), UNCHANGED <<job, policy>>
        PROVE  Kept /\ Quiet
    <3>1. event'[w].status # "delivered" /\ policy'[w] = "none"
      BY <1>3, <2>4 DEF SkipEvent, Terminal, GetEvent, AckInv, TypeInv, TypeOK
    <3>2. NoNewClaim(w)
      BY <2>4, <3>1 DEF NoNewClaim, Claims, GoTo, TypeInv, TypeOK
    <3>3. ASSUME NEW v \in Workers, v # w PROVE NoNewClaim(v)
      BY <2>4, <3>3 DEF NoNewClaim, Claims, GoTo, TypeInv, TypeOK
    <3> QED  BY <2>1, <3>2, <3>3
  <2> QED  BY <1>3, <2>2, <2>3, <2>4, DecodeErrorDeletes DEF GetEvent
<1>4. ASSUME NEW w \in Workers, GetConfig(w) PROVE Kept /\ Quiet
  <2>1. Kept
    BY <1>4 DEF GetConfig, tables, history
  <2>2. CASE Abandon(w)
    BY <2>1, <2>2, DoneClaims, AbandonIsDone
  <2>3. CASE /\ GoTo(w, "get_breaker") \/ GoTo(w, "update_event_status")
             /\ UNCHANGED <<job, policy>>
             /\ event' = event \/ event' = [event EXCEPT ![w] = MarkFailed(@)]
    <3>1. MarkFailed(event[w]).status = "failed"
      BY DEF MarkFailed, TypeInv, TypeOK, Event
    <3>2. pc[w] \in AtItem
      BY <1>4 DEF GetConfig, AtItem, Steps
    <3>3. Claims(w)' => Claims(w)
      BY <2>3, <3>1 DEF Claims, TypeInv, TypeOK
    <3>4. ASSUME NEW v \in Workers, v # w
          PROVE  pc'[v] = pc[v] /\ event'[v] = event[v]
      BY <2>3, <3>4 DEF GoTo, TypeInv, TypeOK
    <3>5. NoNewClaim(w)
      BY <2>3, <3>2, <3>3 DEF NoNewClaim, GoTo, TypeInv, TypeOK
    <3>6. ASSUME NEW v \in Workers, v # w PROVE NoNewClaim(v)
      BY <2>3, <3>4, <3>6 DEF NoNewClaim, Claims
    <3> QED  BY <2>1, <3>5, <3>6
  <2> QED  BY <1>4, <2>2, <2>3 DEF GetConfig
<1>5. ASSUME NEW w \in Workers, GetBreaker(w) PROVE Kept /\ Quiet
  BY <1>5 DEF GetBreaker, GoTo, NoNewClaim, Claims, TypeInv, TypeOK, AtItem,
              Steps, tables, history
<1>6. ASSUME NEW w \in Workers, PutBreaker(w) PROVE Kept /\ Quiet
  <2>1. Kept /\ pc[w] \in AtItem /\ UNCHANGED <<job, policy>>
    BY <1>6 DEF PutBreaker, AtItem, Steps, tables, history
  <2>2. BreakerWritten(w)
    BY <1>6 DEF PutBreaker
  <2> QED  BY <2>1, <2>2, WrittenClaims
<1>7. ASSUME NEW w \in Workers, Deliver(w) PROVE AckInv'
  <2>1. PICK class \in HttpClass \cup TransportClass :
          /\ policy' = [policy EXCEPT ![w] = PolicyForClass(class)]
          /\ acked' = [acked EXCEPT ![Ev(w)] = @ \/ class = "None"]
    BY <1>7 DEF Deliver
  <2>2. /\ Ev(w) \in Events /\ pc[w] \in AtItem
        /\ pc' = [pc EXCEPT ![w] = "record_attempt"]
        /\ UNCHANGED <<events, job, event>>
    BY <1>7, JobType DEF Deliver, GoTo, TypeInv, AtItem, Steps, tables
  <2>3. PolicyForClass(class) = "Succeed" => class = "None"
    BY <2>1 DEF PolicyForClass
  <2>4. \A e \in Events : acked[e] => acked'[e]
    BY <2>1, <2>2 DEF TypeInv, TypeOK
  <2>5. DeliveredOnlyIfAcked'
    BY <2>2, <2>4 DEF AckInv, DeliveredOnlyIfAcked
  <2>6. ASSUME NEW v \in Workers, pc'[v] \in {"idle", "get_event"}
        PROVE  policy'[v] = "none"
    BY <2>1, <2>2, <2>6 DEF AckInv, TypeInv, TypeOK
  <2>7. ASSUME NEW v \in Workers, pc'[v] \in AtItem, Claims(v)'
        PROVE  acked'[Ev(v)']
    <3>1. CASE v = w
      <4>1. policy'[w] = PolicyForClass(class) /\ Ev(w)' = Ev(w)
        BY <2>1, <2>2 DEF TypeInv, TypeOK, Ev
      <4>2. CASE class = "None"
        <5>1. acked'[Ev(w)]
          BY <2>1, <2>2, <4>2 DEF TypeInv, TypeOK
        <5> QED  BY <3>1, <4>1, <5>1
      <4>3. CASE event[w].status = "delivered"
        BY <2>2, <2>4, <3>1, <4>1, <4>3 DEF AckInv, Claims
      <4> QED  BY <2>2, <2>3, <2>7, <3>1, <4>1, <4>2, <4>3 DEF Claims
    <3>2. CASE v # w
      <4>1. pc[v] \in AtItem /\ Claims(v) /\ Ev(v)' = Ev(v)
        BY <2>1, <2>2, <2>7, <3>2 DEF Claims, TypeInv, TypeOK, Ev
      <4>2. Ev(v) \in Events
        BY <4>1, JobType DEF TypeInv, AtItem
      <4> QED  BY <2>4, <4>1, <4>2 DEF AckInv
    <3> QED  BY <3>1, <3>2
  <2> QED  BY <2>5, <2>6, <2>7 DEF AckInv
<1>8. ASSUME NEW w \in Workers, RecordAttempt(w) PROVE Kept /\ Quiet
  <2>1. Kept /\ pc[w] \in AtItem
    BY <1>8 DEF RecordAttempt, AtItem, Steps, history
  <2>2. CASE Abandon(w)
    BY <2>1, <2>2, DoneClaims, AbandonIsDone
  <2>3. CASE GoTo(w, "increment_attempt_count") /\ UNCHANGED <<job, local>>
    BY <2>1, <2>3 DEF GoTo, NoNewClaim, Claims, TypeInv, TypeOK, local
  <2> QED  BY <1>8, <2>2, <2>3 DEF RecordAttempt
<1>9. ASSUME NEW w \in Workers, IncrementAttemptCount(w) PROVE AckInv'
  <2> DEFINE n == CountedAttempts(event[w])
  <2>1. /\ Ev(w) \in Events /\ pc[w] \in AtItem /\ UNCHANGED acked
        /\ \/ events' = events
           \/ events' = [events EXCEPT ![Ev(w)].attempt_count = n]
    BY <1>9, JobType DEF IncrementAttemptCount, TypeInv, AtItem, Steps, history
  <2> HIDE DEF n
  <2>2. ASSUME NEW e \in Events, events'[e] # NoItem, events'[e].status = "delivered"
        PROVE  events[e] # NoItem /\ events[e].status = "delivered"
    <3>1. events[Ev(w)] # NoItem /\ events[Ev(w)] \in Event
      BY <2>1 DEF TypeInv, TypeOK
    <3>2. CASE e = Ev(w)
      BY <2>1, <2>2, <3>1, <3>2 DEF Event, TypeInv, TypeOK
    <3>3. CASE e # Ev(w)
      BY <2>1, <2>2, <3>3 DEF TypeInv, TypeOK
    <3> QED  BY <3>2, <3>3
  <2>3. Quiet
    <3>1. CASE Abandon(w)
      BY <3>1, DoneClaims, AbandonIsDone
    <3>2. CASE /\ event' = [event EXCEPT ![w].attempt_count = n]
               /\ GoTo(w, "put_outcome") /\ UNCHANGED <<job, policy>>
      <4>1. event[w] \in Event
        BY DEF TypeInv, TypeOK
      <4>2. event'[w].status = event[w].status
        BY <3>2, <4>1 DEF Event, TypeInv, TypeOK
      <4>3. NoNewClaim(w)
        BY <2>1, <3>2, <4>2 DEF GoTo, NoNewClaim, Claims, TypeInv, TypeOK
      <4>4. ASSUME NEW v \in Workers, v # w PROVE NoNewClaim(v)
        BY <3>2, <4>4 DEF GoTo, NoNewClaim, Claims, TypeInv, TypeOK
      <4> QED  BY <4>3, <4>4
    <3> QED  BY <1>9, <3>1, <3>2 DEF IncrementAttemptCount, n
  <2> QED  BY <2>1, <2>2, <2>3, AckQuiet
<1>10. ASSUME NEW w \in Workers, UpdateEventStatus(w) PROVE AckInv'
  <2> DEFINE item == Written(events[Ev(w)], event[w])
  <2>1. /\ Ev(w) \in Events /\ pc[w] \in AtItem /\ UNCHANGED acked
        /\ events' = events \/ events' = [events EXCEPT ![Ev(w)] = item]
    BY <1>10, JobType DEF UpdateEventStatus, TypeInv, AtItem, Steps
  <2>2. item.status = "delivered" => acked[Ev(w)]
    <3>1. events[Ev(w)] \in Event
      BY <2>1 DEF TypeInv, TypeOK
    <3>2. item.status = event[w].status
      BY <3>1 DEF Written, Event
    <3> QED  BY <2>1, <3>2 DEF AckInv, Claims
  <2> HIDE DEF item
  <2>3. ASSUME NEW e \in Events, events'[e] # NoItem, events'[e].status = "delivered"
        PROVE  acked[e] \/ (events[e] # NoItem /\ events[e].status = "delivered")
    BY <2>1, <2>2, <2>3 DEF TypeInv, TypeOK
  <2>4. Quiet
    <3>1. CASE Abandon(w)
      BY <3>1, DoneClaims, AbandonIsDone
    <3>2. CASE /\ GoTo(w, "delete_message") \/ GoTo(w, "change_visibility")
               /\ UNCHANGED <<job, event, policy>>
      BY <2>1, <3>2 DEF GoTo, NoNewClaim, Claims, TypeInv, TypeOK
    <3> QED  BY <1>10, <3>1, <3>2 DEF UpdateEventStatus, local
  <2> QED  BY <2>1, <2>3, <2>4, AckQuiet
<1>11. ASSUME NEW w \in Workers, DeleteMessage(w) \/ ChangeVisibility(w) \/ Crash(w)
       PROVE  Kept /\ Quiet
  BY <1>11, DoneClaims DEF DeleteMessage, ChangeVisibility, Crash, tables, history
<1>12. ASSUME \/ \E m \in Messages : Enqueue(m) \/ Redrive(m) \/ RemoveFromDlq(m)
              \/ \E e \in Events : Replicate(e)
              \/ \E c \in Customers : PutConfig(c)
              \/ Tick
              \/ UNCHANGED vars
       PROVE  Kept /\ Quiet
  <2>1. UNCHANGED <<events, acked, pc, job, event, policy>>
    BY <1>12 DEF Enqueue, Redrive, RemoveFromDlq, Replicate, PutConfig, Tick, vars,
                 tables, processes, local, history
  <2> QED  BY <2>1 DEF NoNewClaim, Claims
<1>13. ASSUME NEW f \in Events, StoreEvent(f) PROVE AckInv'
  <2>1. /\ events' = [events EXCEPT ![f] = NewEvent]
        /\ UNCHANGED <<acked, pc, job, event, policy>>
    BY <1>13 DEF StoreEvent, processes, local, history
  <2>2. ASSUME NEW e \in Events, events'[e] # NoItem, events'[e].status = "delivered"
        PROVE  events[e] # NoItem /\ events[e].status = "delivered"
    BY <2>1, <2>2 DEF NewEvent, TypeInv, TypeOK
  <2>3. Quiet
    BY <2>1 DEF NoNewClaim, Claims
  <2> QED  BY <2>1, <2>2, <2>3, AckQuiet
<1> QED
  BY <1>1, <1>2, <1>3, <1>4, <1>5, <1>6, <1>7, <1>8, <1>9, <1>10, <1>11, <1>12,
     <1>13
  DEF Next, Serve, Supply, Work

(* However workers and their answers interleave, an event is marked         *)
(* delivered only after its endpoint answered with a 2xx status (delivery.rs *)
(* 87-96, main.rs 207-223).                                                 *)
THEOREM DeliveredOnlyIfAckedHolds == Spec => []DeliveredOnlyIfAcked
<1>1. Init => AckInv
  BY DEF Init, AckInv, DeliveredOnlyIfAcked, AtItem
<1>2. TypeInv /\ TypeInv' /\ AckInv /\ [Next]_vars => AckInv'
  BY AckNext
<1>3. AckInv => DeliveredOnlyIfAcked
  BY DEF AckInv
<1> QED  BY <1>1, <1>2, <1>3, TypeInvariant, PTL DEF Spec

-----------------------------------------------------------------------------
(* Lifecycle.  A worker that has not yet written its decision works on a    *)
(* pending copy.  Unless the event is contended, the item it works on is    *)
(* pending, too, and counts the same attempts.                              *)

Undecided == AtItem \ {"change_visibility"}
Deciding  == Undecided \ {"update_event_status"}

CopyPending == \A w \in Workers : pc[w] \in Deciding => event[w].status = "pending"

(* Nothing but get_event makes a copy, and only the breaker put and the     *)
(* missing configuration decide.                                            *)
LEMMA CopyPendingNext ==
    TypeInv /\ TypeInv' /\ CopyPending /\ [Next]_vars => CopyPending'
<1> SUFFICES ASSUME TypeInv, TypeInv', CopyPending, [Next]_vars,
                    NEW w \in Workers, pc'[w] \in Deciding
             PROVE  event'[w].status = "pending"
  BY DEF CopyPending
<1> USE DEF Deciding, Undecided, AtItem, Steps
<1> DEFINE Kept == pc[w] \in Deciding /\ event'[w].status = event[w].status
<1>1. ASSUME Kept PROVE event'[w].status = "pending"
  BY <1>1 DEF CopyPending
<1>2. /\ pc \in [Workers -> Steps] /\ event \in [Workers -> Event]
      /\ events \in [Events -> Event \cup {NoItem}]
      /\ replica \in [Events -> Event \cup {NoItem}]
  BY DEF TypeInv, TypeOK
<1>3. ASSUME NEW v \in Workers, Done(v) PROVE Kept
  <2>1. v # w
    BY <1>2, <1>3 DEF Done, GoTo
  <2> QED  BY <1>2, <1>3, <2>1 DEF Done, GoTo
<1>4. ASSUME NEW v \in Workers, Receive(v) \/ Process(v) PROVE Kept
  BY <1>2, <1>4 DEF Receive, Process, GoTo, local
<1>5. ASSUME NEW v \in Workers, GetEvent(v) PROVE event'[w].status = "pending"
  <2>1. CASE Done(v)
    BY <1>1, <1>3, <2>1
  <2>2. CASE GoTo(v, "delete_message") /\ UNCHANGED <<job, local>>
    BY <1>1, <1>2, <2>2 DEF GoTo, local
  <2>3. ASSUME NEW item \in Versions(Ev(v)), ~SkipEvent(item),
               event' = [event EXCEPT ![v] = item], GoTo(v, "get_config")
        PROVE  event'[w].status = "pending"
    <3>1. Ev(v) \in Events
      BY <1>5, JobType DEF GetEvent, TypeInv
    <3>2. item \in Event /\ item.status = "pending"
      BY <1>2, <2>3, <3>1 DEF Versions, SkipEvent, Terminal, Event, EventStatus
    <3>3. CASE v = w
      BY <1>2, <2>3, <3>2, <3>3
    <3>4. CASE v # w
      BY <1>1, <1>2, <2>3, <3>4 DEF GoTo
    <3> QED  BY <3>3, <3>4
  <2> QED
    BY <1>5, <2>1, <2>2, <2>3, AbandonIsDone, DecodeErrorDeletes DEF GetEvent
<1>6. ASSUME NEW v \in Workers, GetConfig(v) PROVE Kept
  <2>1. CASE Done(v)
    BY <1>3, <2>1
  <2>2. CASE ~Done(v)
    <3>1. pc[v] = "get_config"
      BY <1>6 DEF GetConfig
    <3>2. \/ GoTo(v, "get_breaker") /\ event' = event
          \/ GoTo(v, "update_event_status")
             /\ event' = [event EXCEPT ![v] = MarkFailed(@)]
      BY <1>6, <2>2, AbandonIsDone DEF GetConfig
    <3> QED  BY <1>2, <3>1, <3>2 DEF GoTo
  <2> QED  BY <2>1, <2>2
<1>7. ASSUME NEW v \in Workers, GetBreaker(v) PROVE Kept
  BY <1>2, <1>7 DEF GetBreaker, GoTo
<1>8. ASSUME NEW v \in Workers, PutBreaker(v) PROVE Kept
  <2>1. pc[v] \in {"put_gate", "put_outcome"} /\ BreakerWritten(v)
    BY <1>8 DEF PutBreaker
  <2> QED
    BY <1>2, <2>1 DEF BreakerWritten, GateWritten, OutcomeWritten, GoTo
<1>9. ASSUME NEW v \in Workers, Deliver(v) PROVE Kept
  BY <1>2, <1>9 DEF Deliver, GoTo
<1>10. ASSUME NEW v \in Workers, RecordAttempt(v) PROVE Kept
  <2>1. CASE Done(v)
    BY <1>3, <2>1
  <2>2. CASE ~Done(v)
    BY <1>2, <1>10, <2>2, AbandonIsDone DEF RecordAttempt, GoTo, local
  <2> QED  BY <2>1, <2>2
<1>11. ASSUME NEW v \in Workers, IncrementAttemptCount(v) PROVE Kept
  <2>1. CASE Done(v)
    BY <1>3, <2>1
  <2>2. CASE ~Done(v)
    <3> DEFINE n == CountedAttempts(event[v])
    <3>1. /\ pc[v] = "increment_attempt_count" /\ GoTo(v, "put_outcome")
          /\ event' = [event EXCEPT ![v].attempt_count = n]
      BY <1>11, <2>2, AbandonIsDone DEF IncrementAttemptCount
    <3> HIDE DEF n
    <3>2. [event[w] EXCEPT !.attempt_count = n].status = event[w].status
      BY <1>2 DEF Event
    <3> QED  BY <1>2, <3>1, <3>2 DEF GoTo
  <2> QED  BY <2>1, <2>2
<1>12. ASSUME NEW v \in Workers, UpdateEventStatus(v) PROVE Kept
  <2>1. CASE Done(v)
    BY <1>3, <2>1
  <2>2. CASE ~Done(v)
    BY <1>2, <1>12, <2>2, AbandonIsDone DEF UpdateEventStatus, GoTo, local
  <2> QED  BY <2>1, <2>2
<1>13. ASSUME NEW v \in Workers, DeleteMessage(v) \/ ChangeVisibility(v) \/ Crash(v)
       PROVE  Kept
  BY <1>3, <1>13 DEF DeleteMessage, ChangeVisibility, Crash
<1>14. ASSUME \/ \E m \in Messages : Enqueue(m) \/ Redrive(m) \/ RemoveFromDlq(m)
              \/ \E e \in Events : Replicate(e) \/ StoreEvent(e)
              \/ \E c \in Customers : PutConfig(c)
              \/ Tick \/ UNCHANGED vars
       PROVE  Kept
  BY <1>14 DEF Enqueue, Redrive, RemoveFromDlq, Replicate, StoreEvent, PutConfig, Tick,
               vars, processes, local
<1> QED
  BY <1>1, <1>4, <1>5, <1>6, <1>7, <1>8, <1>9, <1>10, <1>11, <1>12, <1>13, <1>14
  DEF Next, Serve, Supply, Work

LEMMA CopyPendingInvariant == Spec => []CopyPending
<1>1. Init => CopyPending
  BY DEF Init, CopyPending, Deciding, Undecided, AtItem
<1>2. TypeInv /\ TypeInv' /\ CopyPending /\ [Next]_vars => CopyPending'
  BY CopyPendingNext
<1> QED  BY <1>1, <1>2, TypeInvariant, PTL DEF Spec

Agrees(w) ==
    /\ events[Ev(w)].status = "pending"
    /\ events[Ev(w)].attempt_count = event[w].attempt_count

(* Two workers at one event are known to be.                                *)
ContentionSeen ==
    \A v, w \in Workers :
        v # w /\ pc[v] \in AtItem /\ pc[w] \in AtItem /\ Ev(v) = Ev(w) => contended[Ev(w)]

AloneAgrees ==
    \A w \in Workers : pc[w] \in Undecided /\ ~contended[Ev(w)] => Agrees(w)

(* From the count to the verdict, the attempt is counted in the copy and in *)
(* the item, whoever writes to it meanwhile.                                *)
CountedInv ==
    \A w \in Workers :
        \/ pc[w] = "put_outcome"
        \/ pc[w] = "update_event_status" /\ event[w].status = "delivered"
        => event[w].attempt_count > 0 /\ events[Ev(w)].attempt_count > 0

LifecycleInv == ContentionSeen /\ AloneAgrees /\ CountedInv

(* A step of another worker, or of no worker, leaves a worker where it is.  *)
LEMMA OthersStand ==
    ASSUME TypeInv, [Next]_vars, NEW w \in Workers, ~Receive(w), ~Work(w), ~Crash(w)
    PROVE  pc'[w] = pc[w] /\ job'[w] = job[w] /\ event'[w] = event[w]
<1> DEFINE Stands == pc'[w] = pc[w] /\ job'[w] = job[w] /\ event'[w] = event[w]
<1>1. /\ pc \in [Workers -> Steps] /\ event \in [Workers -> Event]
      /\ job \in [Workers -> Receipt \cup {NoItem}]
  BY DEF TypeInv, TypeOK
<1>2. ASSUME NEW v \in Workers, v # w, Done(v) PROVE Stands
  BY <1>1, <1>2 DEF Done, GoTo
<1>3. ASSUME NEW v \in Workers, v # w,
             \/ Receive(v) \/ Process(v) \/ GetBreaker(v) \/ Deliver(v)
      PROVE  Stands
  BY <1>1, <1>3 DEF Receive, Process, GetBreaker, Deliver, GoTo, local
<1>4. ASSUME NEW v \in Workers, v # w,
             \/ GetEvent(v) \/ GetConfig(v) \/ RecordAttempt(v) \/ UpdateEventStatus(v)
      PROVE  Stands
  <2>1. CASE ~Done(v)
    BY <1>1, <1>4, <2>1, AbandonIsDone, DecodeErrorDeletes
    DEF GetEvent, GetConfig, RecordAttempt, UpdateEventStatus, GoTo, local
  <2> QED  BY <1>2, <1>4, <2>1
<1>5. ASSUME NEW v \in Workers, v # w, PutBreaker(v) PROVE Stands
  BY <1>1, <1>5 DEF PutBreaker, BreakerWritten, GateWritten, OutcomeWritten, GoTo
<1>6. ASSUME NEW v \in Workers, v # w, IncrementAttemptCount(v) PROVE Stands
  <2>1. CASE ~Done(v)
    BY <1>1, <1>6, <2>1, AbandonIsDone DEF IncrementAttemptCount, GoTo
  <2> QED  BY <1>2, <1>6, <2>1
<1>7. ASSUME NEW v \in Workers, v # w,
             DeleteMessage(v) \/ ChangeVisibility(v) \/ Crash(v)
      PROVE  Stands
  BY <1>2, <1>7 DEF DeleteMessage, ChangeVisibility, Crash
<1>8. ASSUME \/ \E m \in Messages : Enqueue(m) \/ Redrive(m) \/ RemoveFromDlq(m)
             \/ \E e \in Events : Replicate(e) \/ StoreEvent(e)
             \/ \E c \in Customers : PutConfig(c)
             \/ Tick \/ UNCHANGED vars
      PROVE  Stands
  BY <1>8 DEF Enqueue, Redrive, RemoveFromDlq, Replicate, StoreEvent, PutConfig, Tick,
              vars, processes, local
<1> QED
  BY <1>3, <1>4, <1>5, <1>6, <1>7, <1>8 DEF Next, Serve, Supply, Work

(* A worker comes to an item only by reading it.                            *)
Reads(w, item) ==
    /\ pc[w] = "get_event" /\ item \in Versions(Ev(w)) /\ ~SkipEvent(item)
    /\ event' = [event EXCEPT ![w] = item]
    /\ contended' = [contended EXCEPT ![Ev(w)] = @ \/ Contends(w, item)]
    /\ GoTo(w, "get_config") /\ UNCHANGED <<events, job>>

LEMMA GetEventReads ==
    ASSUME TypeInv, NEW w \in Workers, GetEvent(w), pc'[w] \in AtItem
    PROVE  \E item : Reads(w, item)
<1>1. pc \in [Workers -> Steps]
  BY DEF TypeInv, TypeOK
<1>2. ~Done(w) /\ ~GoTo(w, "delete_message")
  BY <1>1 DEF Done, GoTo, AtItem
<1> QED
  BY <1>2, AbandonIsDone, DecodeErrorDeletes DEF GetEvent, Reads, tables

LEMMA StaysOrReads ==
    ASSUME TypeInv, [Next]_vars, NEW w \in Workers, pc'[w] \in AtItem
    PROVE  \/ pc[w] \in AtItem /\ job'[w] = job[w]
           \/ \E item : Reads(w, item)
<1>1. pc \in [Workers -> Steps]
  BY DEF TypeInv, TypeOK
<1>2. CASE ~Receive(w) /\ ~Work(w) /\ ~Crash(w)
  BY <1>2, OthersStand
<1>3. CASE GetEvent(w)
  BY <1>3, GetEventReads
<1>4. ~Done(w)
  BY <1>1 DEF Done, GoTo, AtItem
<1>5. CASE Receive(w) \/ Process(w)
  BY <1>1, <1>5 DEF Receive, Process, GoTo, AtItem
<1>6. CASE GetConfig(w) \/ RecordAttempt(w) \/ IncrementAttemptCount(w) \/ UpdateEventStatus(w)
  BY <1>4, <1>6, AbandonIsDone
  DEF GetConfig, RecordAttempt, IncrementAttemptCount, UpdateEventStatus, AtItem, Steps
<1>7. CASE GetBreaker(w) \/ PutBreaker(w) \/ Deliver(w)
  BY <1>7 DEF GetBreaker, PutBreaker, Deliver, AtItem, Steps
<1>8. ~DeleteMessage(w) /\ ~ChangeVisibility(w) /\ ~Crash(w)
  BY <1>4 DEF DeleteMessage, ChangeVisibility, Crash
<1> QED  BY <1>2, <1>3, <1>5, <1>6, <1>7, <1>8 DEF Work

(* Only reading an item changes what is contended, and nothing takes it     *)
(* back.                                                                    *)
LEMMA ContentionMoves ==
    ASSUME TypeInv, [Next]_vars
    PROVE  \/ contended' = contended
           \/ \E w \in Workers : GetEvent(w) /\ \E item : Reads(w, item)
<1>1. ASSUME NEW w \in Workers, GetEvent(w)
      PROVE  contended' = contended \/ \E item : Reads(w, item)
  BY <1>1 DEF GetEvent, Reads, tables
<1>2. contended' = contended \/ \E w \in Workers : GetEvent(w)
  BY DEF Next, Serve, Supply, Work, Receive, Crash, Process, GetConfig, GetBreaker,
         PutBreaker, Deliver, RecordAttempt, IncrementAttemptCount, UpdateEventStatus,
         DeleteMessage, ChangeVisibility, Enqueue, Redrive, RemoveFromDlq, StoreEvent,
         Replicate, PutConfig, Tick, vars, processes, history
<1> QED  BY <1>1, <1>2

LEMMA ContentionLasts ==
    ASSUME TypeInv, [Next]_vars, NEW e \in Events, contended[e]
    PROVE  contended'[e]
<1>1. contended \in [Events -> BOOLEAN]
  BY DEF TypeInv, TypeOK
<1>2. ASSUME NEW w \in Workers, NEW item, Reads(w, item) PROVE contended'[e]
  BY <1>1, <1>2 DEF Reads
<1> QED  BY <1>2, ContentionMoves

LEMMA ContentionSeenNext ==
    TypeInv /\ TypeInv' /\ ContentionSeen /\ [Next]_vars => ContentionSeen'
<1> SUFFICES ASSUME TypeInv, TypeInv', ContentionSeen, [Next]_vars,
                    NEW v \in Workers, NEW w \in Workers, v # w,
                    pc'[v] \in AtItem, pc'[w] \in AtItem, Ev(v)' = Ev(w)'
             PROVE  contended'[Ev(w)']
  BY DEF ContentionSeen
<1>1. /\ contended \in [Events -> BOOLEAN] /\ pc \in [Workers -> Steps]
      /\ Ev(v)' \in Events
  <2>1. pc'[v] # "idle" /\ TypeOK'
    BY DEF AtItem, TypeInv
  <2>2. Ev(v)' \in Events
    BY <2>1, WorkerAssumption DEF TypeOK, Ev, Receipt
  <2> QED  BY <2>2 DEF TypeInv, TypeOK
<1>2. ASSUME NEW x \in Workers, NEW y \in Workers, x # y, NEW item, Reads(x, item),
             pc'[y] \in AtItem, Ev(x)' = Ev(y)', Ev(x)' \in Events
      PROVE  contended'[Ev(x)']
  <2>1. job' = job /\ pc' = [pc EXCEPT ![x] = "get_config"]
    BY <1>2 DEF Reads, GoTo
  <2>2. pc[y] \in AtItem /\ Ev(y) = Ev(x) /\ Ev(x)' = Ev(x)
    BY <1>1, <1>2, <2>1 DEF Ev
  <2>3. Contends(x, item)
    BY <1>2, <2>2 DEF Contends
  <2> QED  BY <1>1, <1>2, <2>2, <2>3 DEF Reads
<1>3. CASE \E item : Reads(v, item)
  BY <1>1, <1>2, <1>3
<1>4. CASE \E item : Reads(w, item)
  BY <1>1, <1>2, <1>4
<1>5. CASE /\ pc[v] \in AtItem /\ job'[v] = job[v]
           /\ pc[w] \in AtItem /\ job'[w] = job[w]
  <2>1. Ev(v) = Ev(w) /\ Ev(w)' = Ev(w) /\ Ev(w) \in Events
    BY <1>1, <1>5 DEF Ev
  <2>2. contended[Ev(w)]
    BY <1>5, <2>1 DEF ContentionSeen
  <2> QED  BY <2>1, <2>2, ContentionLasts
<1> QED  BY <1>3, <1>4, <1>5, StaysOrReads

(* Who changes an item, and how.                                            *)
LEMMA WhoChangesItems ==
    ASSUME TypeInv, [Next]_vars
    PROVE  \/ UNCHANGED <<events, attempts, posts>>
           \/ \E e \in Events : StoreEvent(e)
           \/ \E w \in Workers :
                \/ Deliver(w) \/ RecordAttempt(w) \/ IncrementAttemptCount(w)
                \/ UpdateEventStatus(w)
  BY DEF Next, Serve, Supply, Work, Receive, Crash, Process, GetEvent, GetConfig, GetBreaker,
         PutBreaker, DeleteMessage, ChangeVisibility, Enqueue, Redrive,
         RemoveFromDlq, Replicate, PutConfig, Tick, vars, tables, processes, history

(* An item that is there is only written by a worker at it.                 *)
LEMMA OnlyFromAtItem ==
    ASSUME TypeInv, [Next]_vars, NEW e \in Events, events[e] # NoItem,
           \A v \in Workers : IncrementAttemptCount(v) \/ UpdateEventStatus(v) => Ev(v) # e
    PROVE  events'[e] = events[e]
<1>1. events \in [Events -> Event \cup {NoItem}]
  BY DEF TypeInv, TypeOK
<1>2. ASSUME NEW f \in Events, StoreEvent(f) PROVE events'[e] = events[e]
  BY <1>1, <1>2 DEF StoreEvent
<1>3. ASSUME NEW v \in Workers, Deliver(v) \/ RecordAttempt(v)
      PROVE  events'[e] = events[e]
  BY <1>3 DEF Deliver, RecordAttempt, tables
<1>4. ASSUME NEW v \in Workers, IncrementAttemptCount(v) PROVE events'[e] = events[e]
  BY <1>1, <1>4 DEF IncrementAttemptCount
<1>5. ASSUME NEW v \in Workers, UpdateEventStatus(v) PROVE events'[e] = events[e]
  BY <1>1, <1>5 DEF UpdateEventStatus
<1> QED  BY <1>2, <1>3, <1>4, <1>5, WhoChangesItems

(* Whoever writes to an item a worker is at, alone, is that worker.         *)
LEMMA OthersLeaveItem ==
    ASSUME TypeInv, LifecycleInv, [Next]_vars, NEW w \in Workers, pc[w] \in AtItem,
           ~contended[Ev(w)], ~IncrementAttemptCount(w), ~UpdateEventStatus(w)
    PROVE  events'[Ev(w)] = events[Ev(w)]
<1>1. Ev(w) \in Events /\ events[Ev(w)] # NoItem
  BY JobType DEF TypeInv, AtItem
<1>2. ASSUME NEW v \in Workers, IncrementAttemptCount(v) \/ UpdateEventStatus(v)
      PROVE  Ev(v) # Ev(w)
  <2>1. pc[v] \in AtItem /\ v # w
    BY <1>2 DEF IncrementAttemptCount, UpdateEventStatus, AtItem, Steps
  <2> QED  BY <2>1 DEF LifecycleInv, ContentionSeen
<1> QED  BY <1>1, <1>2, OnlyFromAtItem

(* A worker that keeps its copy keeps the agreement.                        *)
LEMMA AgreementKept ==
    ASSUME TypeInv, LifecycleInv, NEW w \in Workers, pc[w] \in Undecided,
           job'[w] = job[w], event'[w] = event[w],
           ~contended[Ev(w)], events'[Ev(w)] = events[Ev(w)]
    PROVE  Agrees(w)'
<1>1. Ev(w)' = Ev(w)
  BY DEF Ev
<1> QED  BY <1>1 DEF LifecycleInv, AloneAgrees, Agrees

LEMMA AloneAgreesNext ==
    TypeInv /\ TypeInv' /\ LifecycleInv /\ [Next]_vars => AloneAgrees'
<1> SUFFICES ASSUME TypeInv, TypeInv', LifecycleInv, [Next]_vars,
                    NEW w \in Workers, pc'[w] \in Undecided, ~contended'[Ev(w)']
             PROVE  Agrees(w)'
  BY DEF AloneAgrees
<1> USE DEF Undecided, AtItem, Steps
<1>1. /\ pc \in [Workers -> Steps] /\ event \in [Workers -> Event]
      /\ events \in [Events -> Event \cup {NoItem}]
      /\ contended \in [Events -> BOOLEAN]
  BY DEF TypeInv, TypeOK
<1>2. ~Done(w)
  BY <1>1 DEF Done, GoTo
<1>3. ASSUME NEW item, Reads(w, item) PROVE Agrees(w)'
  <2>1. Ev(w) \in Events /\ Ev(w)' = Ev(w)
    BY <1>3, JobType DEF Reads, TypeInv, Ev
  <2>2. item = events[Ev(w)]
    BY <1>1, <1>3, <2>1 DEF Reads, Contends
  <2>3. item.status = "pending" /\ event'[w] = item /\ events' = events
    BY <1>1, <1>3, <2>1, <2>2 DEF Reads, SkipEvent, Terminal, Event, EventStatus
  <2> QED  BY <2>1, <2>2, <2>3 DEF Agrees
<1>4. CASE pc[w] \in AtItem /\ job'[w] = job[w]
  <2>1. Ev(w)' = Ev(w) /\ Ev(w) \in Events /\ ~contended[Ev(w)]
    <3>1. Ev(w)' = Ev(w) /\ Ev(w) \in Events
      BY <1>4, JobType DEF TypeInv, Ev
    <3> QED  BY <3>1, ContentionLasts
  <2>2. CASE ~Receive(w) /\ ~Work(w) /\ ~Crash(w)
    <3>1. pc[w] \in Undecided /\ event'[w] = event[w]
      BY <2>2, OthersStand
    <3>2. ~IncrementAttemptCount(w) /\ ~UpdateEventStatus(w)
      BY <2>2 DEF Work
    <3>3. events'[Ev(w)] = events[Ev(w)]
      BY <1>4, <2>1, <3>2, OthersLeaveItem
    <3> QED  BY <1>4, <2>1, <3>1, <3>3, AgreementKept
  <2>3. CASE \/ GetBreaker(w) \/ Deliver(w) \/ RecordAttempt(w)
    <3>1. pc[w] \in Undecided /\ event' = event /\ events' = events
      BY <1>2, <2>3, AbandonIsDone DEF GetBreaker, Deliver, RecordAttempt, tables, local
    <3> QED  BY <1>4, <2>1, <3>1, AgreementKept
  <2>4. CASE GetConfig(w)
    <3>1. /\ UNCHANGED events
          /\ event' = event \/ event' = [event EXCEPT ![w] = MarkFailed(@)]
      BY <1>2, <2>4, AbandonIsDone DEF GetConfig, tables
    <3>2. MarkFailed(event[w]).attempt_count = event[w].attempt_count
      BY <1>1 DEF MarkFailed, Event
    <3>3. Agrees(w)
      BY <2>1, <2>4 DEF LifecycleInv, AloneAgrees, GetConfig
    <3> QED  BY <1>1, <2>1, <3>1, <3>2, <3>3 DEF Agrees
  <2>5. CASE PutBreaker(w)
    <3>1. UNCHANGED events /\ BreakerWritten(w) /\ pc[w] \in Undecided
      BY <2>5 DEF PutBreaker
    <3>2. event'[w].attempt_count = event[w].attempt_count
      BY <3>1, WrittenKeepsCount
    <3>3. Agrees(w)
      BY <2>1, <3>1 DEF LifecycleInv, AloneAgrees
    <3> QED  BY <2>1, <3>1, <3>2, <3>3 DEF Agrees
  <2>6. CASE IncrementAttemptCount(w)
    <3> DEFINE n == CountedAttempts(event[w])
    <3>1. /\ pc[w] = "increment_attempt_count"
          /\ event' = [event EXCEPT ![w].attempt_count = n]
          /\ events' = [events EXCEPT ![Ev(w)].attempt_count = n]
      BY <1>2, <2>6, AbandonIsDone DEF IncrementAttemptCount
    <3>2. events[Ev(w)] \in Event /\ Agrees(w)
      BY <1>1, <1>4, <2>1, <3>1 DEF TypeInv, LifecycleInv, AloneAgrees
    <3> HIDE DEF n
    <3>3. /\ events'[Ev(w)] = [events[Ev(w)] EXCEPT !.attempt_count = n]
          /\ event'[w] = [event[w] EXCEPT !.attempt_count = n]
      BY <1>1, <2>1, <3>1
    <3>4. /\ events'[Ev(w)].status = events[Ev(w)].status
          /\ events'[Ev(w)].attempt_count = n /\ event'[w].attempt_count = n
      BY <1>1, <3>2, <3>3 DEF Event
    <3> QED  BY <2>1, <3>2, <3>4 DEF Agrees
  <2>7. ~UpdateEventStatus(w)
    BY <1>1, <1>2, AbandonIsDone DEF UpdateEventStatus, GoTo, Terminal
  <2>8. ~DeleteMessage(w) /\ ~ChangeVisibility(w) /\ ~Crash(w)
    BY <1>2 DEF DeleteMessage, ChangeVisibility, Crash
  <2>9. ~Receive(w) /\ ~Process(w) /\ ~GetEvent(w)
    BY <1>4 DEF Receive, Process, GetEvent
  <2> QED
    BY <2>2, <2>3, <2>4, <2>5, <2>6, <2>7, <2>8, <2>9 DEF Work
<1> QED  BY <1>3, <1>4, StaysOrReads

(* A counted attempt of an item stays counted.                              *)
LEMMA CountsStay ==
    ASSUME TypeInv, [Next]_vars, NEW e \in Events, events[e] # NoItem,
           events[e].attempt_count > 0
    PROVE  events'[e].attempt_count > 0
<1>1. events \in [Events -> Event \cup {NoItem}] /\ events[e] \in Event
  BY DEF TypeInv, TypeOK
<1>2. ASSUME NEW w \in Workers, IncrementAttemptCount(w), Ev(w) = e
      PROVE  events'[e].attempt_count > 0
  <2> DEFINE n == CountedAttempts(event[w])
  <2>1. \/ events' = events
        \/ events' = [events EXCEPT ![e].attempt_count = n]
    BY <1>2 DEF IncrementAttemptCount
  <2>2. n \in Nat /\ n > 0
    BY DEF CountedAttempts, TypeInv, TypeOK, Event
  <2> HIDE DEF n
  <2>3. [events[e] EXCEPT !.attempt_count = n].attempt_count = n
    BY <1>1 DEF Event
  <2> QED  BY <1>1, <2>1, <2>2, <2>3
<1>3. ASSUME NEW w \in Workers, UpdateEventStatus(w), Ev(w) = e
      PROVE  events'[e].attempt_count > 0
  <2> DEFINE item == Written(events[e], event[w])
  <2>1. events' = events \/ events' = [events EXCEPT ![e] = item]
    BY <1>3 DEF UpdateEventStatus
  <2>2. item.attempt_count = events[e].attempt_count
    BY <1>1 DEF Written, Event
  <2> HIDE DEF item
  <2> QED  BY <1>1, <2>1, <2>2
<1>4. CASE \A v \in Workers : IncrementAttemptCount(v) \/ UpdateEventStatus(v) => Ev(v) # e
  BY <1>4, OnlyFromAtItem
<1> QED  BY <1>2, <1>3, <1>4

LEMMA CountedNext ==
    TypeInv /\ TypeInv' /\ CopyPending /\ LifecycleInv /\ [Next]_vars => CountedInv'
<1> SUFFICES ASSUME TypeInv, TypeInv', CopyPending, LifecycleInv, [Next]_vars,
                    NEW w \in Workers,
                    \/ pc'[w] = "put_outcome"
                    \/ pc'[w] = "update_event_status" /\ event'[w].status = "delivered"
             PROVE  event'[w].attempt_count > 0 /\ events'[Ev(w)'].attempt_count > 0
  BY DEF CountedInv
<1> USE DEF AtItem, Steps
<1>1. /\ pc \in [Workers -> Steps] /\ event \in [Workers -> Event]
      /\ events \in [Events -> Event \cup {NoItem}]
  BY DEF TypeInv, TypeOK
<1>2. ~Done(w)
  BY <1>1 DEF Done, GoTo
<1>3. pc[w] \in AtItem /\ job'[w] = job[w]
  <2>1. \A item : ~Reads(w, item)
    BY <1>1 DEF Reads, GoTo
  <2> QED  BY <2>1, StaysOrReads
<1>4. Ev(w)' = Ev(w) /\ Ev(w) \in Events /\ events[Ev(w)] # NoItem
  BY <1>3, JobType DEF TypeInv, Ev
<1>5. ASSUME event'[w].attempt_count = event[w].attempt_count,
             \/ pc[w] = "put_outcome"
             \/ pc[w] = "update_event_status" /\ event[w].status = "delivered"
      PROVE  event'[w].attempt_count > 0 /\ events'[Ev(w)'].attempt_count > 0
  <2>1. event[w].attempt_count > 0 /\ events[Ev(w)].attempt_count > 0
    BY <1>5 DEF LifecycleInv, CountedInv
  <2> QED  BY <1>4, <1>5, <2>1, CountsStay
<1>6. CASE ~Receive(w) /\ ~Work(w) /\ ~Crash(w)
  BY <1>5, <1>6, OthersStand
<1>7. CASE PutBreaker(w)
  <2>1. BreakerWritten(w) /\ pc[w] \in {"put_gate", "put_outcome"}
    BY <1>7 DEF PutBreaker
  <2>2. /\ event'[w].attempt_count = event[w].attempt_count
        /\ pc'[w] \in {"deliver", "update_event_status"}
    BY <2>1, WrittenKeepsCount
  <2>3. CASE pc[w] = "put_gate"
    <3>1. event[w].status = "pending"
      BY <2>3 DEF CopyPending, Deciding, Undecided
    <3>2. event'[w].status = "pending"
      BY <1>1, <2>1, <2>3, <3>1 DEF BreakerWritten, GateWritten, MarkRetryScheduled, Event
    <3> QED  BY <2>2, <3>2
  <2> QED  BY <1>5, <2>1, <2>2, <2>3
<1>8. CASE IncrementAttemptCount(w)
  <2> DEFINE n == CountedAttempts(event[w])
  <2>1. /\ event' = [event EXCEPT ![w].attempt_count = n]
        /\ events' = [events EXCEPT ![Ev(w)].attempt_count = n]
    BY <1>2, <1>8, AbandonIsDone DEF IncrementAttemptCount
  <2>2. n \in Nat /\ n > 0
    BY <1>1 DEF CountedAttempts, Event
  <2> HIDE DEF n
  <2>3. events[Ev(w)] \in Event
    BY <1>1, <1>4
  <2>4. /\ events'[Ev(w)] = [events[Ev(w)] EXCEPT !.attempt_count = n]
        /\ event'[w] = [event[w] EXCEPT !.attempt_count = n]
    BY <1>1, <1>4, <2>1
  <2>5. events'[Ev(w)].attempt_count = n /\ event'[w].attempt_count = n
    BY <1>1, <2>3, <2>4 DEF Event
  <2> QED  BY <1>4, <2>2, <2>5
<1>9. CASE GetConfig(w)
  <2>1. /\ pc[w] = "get_config"
        /\ \/ GoTo(w, "get_breaker")
           \/ event' = [event EXCEPT ![w] = MarkFailed(@)] /\ GoTo(w, "update_event_status")
    BY <1>2, <1>9, AbandonIsDone DEF GetConfig
  <2>2. MarkFailed(event[w]).status = "failed"
    BY <1>1 DEF MarkFailed, Event
  <2> QED  BY <1>1, <2>1, <2>2 DEF GoTo
<1>10. ~GetBreaker(w) /\ ~Deliver(w) /\ ~RecordAttempt(w) /\ ~UpdateEventStatus(w)
  BY <1>1, <1>2, AbandonIsDone
  DEF GetBreaker, Deliver, RecordAttempt, UpdateEventStatus, GoTo
<1>11. ~DeleteMessage(w) /\ ~ChangeVisibility(w) /\ ~Crash(w)
  BY <1>2 DEF DeleteMessage, ChangeVisibility, Crash
<1>12. ~Receive(w) /\ ~Process(w) /\ ~GetEvent(w)
  BY <1>3 DEF Receive, Process, GetEvent
<1> QED
  BY <1>6, <1>7, <1>8, <1>9, <1>10, <1>11, <1>12 DEF Work

LEMMA LifecycleInvariant == Spec => []LifecycleInv
<1>1. Init => LifecycleInv
  BY DEF Init, LifecycleInv, ContentionSeen, AloneAgrees, CountedInv, Undecided, AtItem
<1>2. TypeInv /\ TypeInv' /\ CopyPending /\ LifecycleInv /\ [Next]_vars => LifecycleInv'
  BY ContentionSeenNext, AloneAgreesNext, CountedNext DEF LifecycleInv
<1> QED  BY <1>1, <1>2, TypeInvariant, CopyPendingInvariant, PTL DEF Spec

(* However many workers there are, and however old the items they read: no  *)
(* request is sent, no attempt recorded and nothing changed once an event   *)
(* is settled, however often its message comes back, unless two of them     *)
(* were once at it together or one took up an older version (main.rs        *)
(* 136-149).                                                                *)
THEOREM SettledIsUntouchedHolds == Spec => SettledIsUntouched
<1> DEFINE Untouched ==
             \A e \in Events : Settled(e) /\ ~contended[e] =>
                 events'[e] = events[e] /\ attempts'[e] = attempts[e] /\ posts'[e] = posts[e]
<1>1. TypeInv /\ LifecycleInv /\ [Next]_vars => Untouched
  <2> SUFFICES ASSUME TypeInv, LifecycleInv, [Next]_vars, NEW e \in Events, Settled(e),
                      ~contended[e]
               PROVE  /\ events'[e] = events[e] /\ attempts'[e] = attempts[e]
                      /\ posts'[e] = posts[e]
    OBVIOUS
  <2>1. /\ events \in [Events -> Event \cup {NoItem}]
        /\ attempts \in [Events -> SUBSET Nat] /\ posts \in [Events -> Nat]
    BY DEF TypeInv, TypeOK
  <2>2. ASSUME NEW f \in Events, StoreEvent(f)
        PROVE  /\ events'[e] = events[e] /\ attempts'[e] = attempts[e]
               /\ posts'[e] = posts[e]
    BY <2>1, <2>2 DEF StoreEvent, Settled, processes, history
  <2>3. ASSUME NEW w \in Workers,
               \/ Deliver(w) \/ RecordAttempt(w) \/ IncrementAttemptCount(w)
               \/ UpdateEventStatus(w)
        PROVE  /\ events'[e] = events[e] /\ attempts'[e] = attempts[e]
               /\ posts'[e] = posts[e]
    <3>1. pc[w] \in {"deliver", "record_attempt", "increment_attempt_count",
                     "update_event_status"}
      BY <2>3 DEF Deliver, RecordAttempt, IncrementAttemptCount, UpdateEventStatus
    <3>2. Ev(w) = e => Agrees(w)
      BY <3>1 DEF LifecycleInv, AloneAgrees, Undecided, AtItem, Steps
    <3>3. e # Ev(w) /\ Ev(w) \in Events
      BY <3>1, <3>2, JobType DEF Agrees, Settled, Terminal, TypeInv
    <3>4. CASE Deliver(w)
      BY <2>1, <3>3, <3>4 DEF Deliver, tables
    <3>5. CASE RecordAttempt(w)
      BY <2>1, <3>3, <3>5 DEF RecordAttempt, history
    <3>6. CASE IncrementAttemptCount(w)
      BY <2>1, <3>3, <3>6 DEF IncrementAttemptCount, history
    <3>7. CASE UpdateEventStatus(w)
      BY <2>1, <3>3, <3>7 DEF UpdateEventStatus
    <3> QED  BY <2>3, <3>4, <3>5, <3>6, <3>7
  <2> QED  BY <2>2, <2>3, WhoChangesItems
<1>2. TypeInv /\ LifecycleInv /\ [Next]_vars => [Untouched]_vars
  BY <1>1
<1> QED
  BY <1>2, TypeInvariant, LifecycleInvariant, PTL DEF Spec, SettledIsUntouched

(* However many workers there are, and however old the items they read,     *)
(* they implement EventLifecycle: an event is settled once, its attempts    *)
(* are counted one by one and only before that, unless it is contended; and *)
(* in any case it is delivered only if an attempt was counted (main.rs      *)
(* 136-297).                                                                *)
THEOREM LifecycleImplemented == Spec => ImplementsLifecycle
<1> DEFINE Status == [e \in Events |-> IF events[e] = NoItem THEN "absent"
                                       ELSE events[e].status]
           Tries  == [e \in Events |-> IF events[e] = NoItem THEN 0
                                       ELSE events[e].attempt_count]
<1>1. Init => Lifecycle!Init
  BY DEF Init, Lifecycle!Init
<1>2. ASSUME TypeInv, TypeInv', LifecycleInv, [Next]_vars
      PROVE  [Lifecycle!Next]_(Lifecycle!vars)
  <2>1. /\ events \in [Events -> Event \cup {NoItem}]
        /\ contended \in [Events -> BOOLEAN]
    BY <1>2 DEF TypeInv, TypeOK
  <2>2. CASE UNCHANGED <<events, contended>>
    BY <2>2 DEF Lifecycle!vars
  <2>3. ASSUME NEW e \in Events, StoreEvent(e) PROVE Lifecycle!Create(e)
    <3>1. events[e] = NoItem /\ events' = [events EXCEPT ![e] = NewEvent]
          /\ contended' = contended
      BY <2>3 DEF StoreEvent, processes, history
    <3>2. NewEvent # NoItem /\ NewEvent.status = "pending" /\ NewEvent.attempt_count = 0
      <4>1. NewEvent \in Event
        BY DEF NewEvent, Event, EventStatus
      <4> QED  BY <4>1, NoItemAssumption DEF NewEvent
    <3>3. Status[e] = "absent" /\ Status' = [Status EXCEPT ![e] = "pending"]
      BY <2>1, <3>1, <3>2
    <3>4. Tries' = Tries
      BY <2>1, <3>1, <3>2
    <3> QED  BY <3>1, <3>3, <3>4 DEF Lifecycle!Create
  <2>4. ASSUME NEW w \in Workers, IncrementAttemptCount(w)
        PROVE  \/ UNCHANGED <<events, contended>>
               \/ \E e \in Events : Lifecycle!Attempt(e) \/ Lifecycle!Recount(e)
    <3> DEFINE n == CountedAttempts(event[w])
    <3>1. /\ pc[w] = "increment_attempt_count" /\ contended' = contended
          /\ events' = events \/ events' = [events EXCEPT ![Ev(w)].attempt_count = n]
      BY <2>4 DEF IncrementAttemptCount, history
    <3>2. /\ ~contended[Ev(w)] => Agrees(w)
          /\ Ev(w) \in Events /\ events[Ev(w)] # NoItem
      BY <1>2, <3>1, JobType DEF LifecycleInv, AloneAgrees, Undecided, AtItem, Steps, TypeInv
    <3>3. n = event[w].attempt_count + 1 /\ n \in Nat \ {0}
      BY <1>2 DEF CountedAttempts, TypeInv, TypeOK, Event
    <3> HIDE DEF n
    <3> SUFFICES ASSUME events' = [events EXCEPT ![Ev(w)].attempt_count = n]
                 PROVE  \E e \in Events : Lifecycle!Attempt(e) \/ Lifecycle!Recount(e)
      BY <3>1
    <3> DEFINE item == [events[Ev(w)] EXCEPT !.attempt_count = n]
    <3>4. events[Ev(w)] \in Event
      BY <2>1, <3>2
    <3>5. /\ item \in Event /\ item.status = events[Ev(w)].status
          /\ item.attempt_count = n
      BY <3>3, <3>4 DEF Event
    <3>6. item # NoItem
      BY <3>5, NoItemAssumption
    <3>7. events' = [events EXCEPT ![Ev(w)] = item]
      OBVIOUS
    <3> HIDE DEF item
    <3>8. Status' = Status
      BY <2>1, <3>2, <3>5, <3>6, <3>7
    <3>9. Tries' = [Tries EXCEPT ![Ev(w)] = n] /\ Tries'[Ev(w)] = n
      BY <2>1, <3>2, <3>5, <3>6, <3>7
    <3>10. Status[Ev(w)] # "absent"
      BY <3>2, <3>4 DEF Event, EventStatus
    <3>11. CASE ~contended[Ev(w)]
      <4>1. Status[Ev(w)] = "pending" /\ n = Tries[Ev(w)] + 1
        BY <3>2, <3>3, <3>11 DEF Agrees
      <4>2. Tries' = [Tries EXCEPT ![Ev(w)] = @ + 1]
        BY <3>2, <3>9, <4>1
      <4> QED  BY <3>1, <3>2, <3>8, <4>1, <4>2 DEF Lifecycle!Attempt
    <3>12. CASE contended[Ev(w)]
      <4>1. Tries' = [Tries EXCEPT ![Ev(w)] = Tries'[Ev(w)]]
        BY <3>9
      <4> QED
        BY <3>1, <3>2, <3>3, <3>8, <3>9, <3>10, <3>12, <4>1 DEF Lifecycle!Recount
    <3> QED  BY <3>11, <3>12
  <2>5. ASSUME NEW w \in Workers, UpdateEventStatus(w)
        PROVE  \/ UNCHANGED <<Status, Tries, contended>>
               \/ \E e \in Events : Lifecycle!Deliver(e) \/ Lifecycle!Fail(e)
                                      \/ Lifecycle!Overwrite(e)
    <3> DEFINE item == Written(events[Ev(w)], event[w])
    <3>1. /\ pc[w] = "update_event_status" /\ contended' = contended
          /\ events' = events \/ events' = [events EXCEPT ![Ev(w)] = item]
      BY <2>5 DEF UpdateEventStatus
    <3>2. /\ ~contended[Ev(w)] => Agrees(w)
          /\ Ev(w) \in Events /\ events[Ev(w)] # NoItem
          /\ event[w].status = "delivered" => events[Ev(w)].attempt_count > 0
      BY <1>2, <3>1, JobType
      DEF LifecycleInv, AloneAgrees, CountedInv, Undecided, AtItem, Steps, TypeInv
    <3>3. events[Ev(w)] \in Event /\ event[w] \in Event
      BY <1>2, <2>1, <3>2 DEF TypeInv, TypeOK
    <3>4. /\ item \in Event /\ item.status = event[w].status
          /\ item.attempt_count = events[Ev(w)].attempt_count
      <4>1. item \in Event
        BY <3>3, EventType
      <4> QED  BY <3>3, <4>1 DEF Written, Event
    <3>5. item # NoItem
      BY <3>4, NoItemAssumption
    <3> HIDE DEF item
    <3> SUFFICES ASSUME events' = [events EXCEPT ![Ev(w)] = item]
                 PROVE  \/ UNCHANGED <<Status, Tries, contended>>
                        \/ \E e \in Events : Lifecycle!Deliver(e) \/ Lifecycle!Fail(e)
                                               \/ Lifecycle!Overwrite(e)
      BY <3>1
    <3>6. Tries' = Tries
      BY <2>1, <3>2, <3>4, <3>5
    <3>7. Status' = [Status EXCEPT ![Ev(w)] = event[w].status]
      BY <2>1, <3>2, <3>4, <3>5
    <3>8. /\ Status[Ev(w)] # "absent"
          /\ event[w].status = "delivered" => Tries[Ev(w)] > 0
      BY <3>2, <3>3 DEF Event, EventStatus
    <3>9. event[w].status \in {"pending", "delivered", "failed"}
      BY <3>3 DEF Event, EventStatus
    <3>10. CASE contended[Ev(w)]
      BY <3>1, <3>2, <3>6, <3>7, <3>8, <3>9, <3>10 DEF Lifecycle!Overwrite
    <3>11. CASE ~contended[Ev(w)]
      <4>1. Status[Ev(w)] = "pending"
        BY <3>2, <3>11 DEF Agrees
      <4>2. CASE event[w].status = "pending"
        BY <3>1, <3>6, <3>7, <4>1, <4>2
      <4>3. CASE event[w].status = "delivered"
        BY <3>1, <3>2, <3>6, <3>7, <3>8, <4>1, <4>3 DEF Lifecycle!Deliver
      <4>4. CASE event[w].status = "failed"
        BY <3>1, <3>2, <3>6, <3>7, <4>1, <4>4 DEF Lifecycle!Fail
      <4> QED  BY <3>9, <4>2, <4>3, <4>4
    <3> QED  BY <3>10, <3>11
  <2>6. ASSUME NEW w \in Workers, Deliver(w) \/ RecordAttempt(w)
        PROVE  UNCHANGED <<events, contended>>
    BY <2>6 DEF Deliver, RecordAttempt, tables, history
  <2>7. ASSUME NEW e \in Events, StoreEvent(e)
        PROVE  [Lifecycle!Next]_(Lifecycle!vars)
    BY <2>3, <2>7 DEF Lifecycle!Next
  <2>8. ASSUME NEW w \in Workers, IncrementAttemptCount(w)
        PROVE  [Lifecycle!Next]_(Lifecycle!vars)
    BY <2>2, <2>4, <2>8 DEF Lifecycle!Next
  <2>9. ASSUME NEW w \in Workers, UpdateEventStatus(w)
        PROVE  [Lifecycle!Next]_(Lifecycle!vars)
    BY <2>5, <2>9 DEF Lifecycle!Next, Lifecycle!vars
  <2>10. ASSUME NEW w \in Workers, NEW item, Reads(w, item)
         PROVE  [Lifecycle!Next]_(Lifecycle!vars)
    <3>1. /\ Ev(w) \in Events /\ events' = events
          /\ contended' = [contended EXCEPT ![Ev(w)] = @ \/ Contends(w, item)]
      BY <1>2, <2>10, JobType DEF Reads, TypeInv
    <3>2. CASE contended' = contended
      BY <2>2, <3>1, <3>2
    <3>3. CASE contended' # contended
      <4>1. contended' = [contended EXCEPT ![Ev(w)] = TRUE]
        BY <2>1, <3>1, <3>3
      <4>2. events[Ev(w)] # NoItem
        <5>1. pc'[w] = "get_config" /\ Ev(w)' = Ev(w)
          BY <1>2, <2>10 DEF Reads, GoTo, TypeInv, TypeOK, Ev
        <5> QED  BY <1>2, <3>1, <5>1 DEF TypeInv, AtItem, Steps
      <4>3. Status[Ev(w)] # "absent"
        BY <2>1, <3>1, <4>2 DEF Event, EventStatus
      <4>4. Status' = Status /\ Tries' = Tries
        BY <3>1
      <4>5. Lifecycle!Contend(Ev(w))
        BY <4>1, <4>3, <4>4 DEF Lifecycle!Contend
      <4> QED  BY <3>1, <4>5 DEF Lifecycle!Next
    <3> QED  BY <3>2, <3>3
  <2>11. CASE contended' # contended
    BY <1>2, <2>10, <2>11, ContentionMoves
  <2> QED
    BY <1>2, <2>2, <2>6, <2>7, <2>8, <2>9, <2>11, WhoChangesItems
<1> QED
  BY <1>1, <1>2, TypeInvariant, LifecycleInvariant, PTL
  DEF Spec, ImplementsLifecycle, Lifecycle!Spec
=============================================================================
