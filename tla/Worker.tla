------------------------------- MODULE Worker -------------------------------
(***************************************************************************)
(* The delivery worker (worker/src): any number of worker processes poll    *)
(* one SQS queue and, for each message, run deliver_event against the       *)
(* DynamoDB tables and the customer's endpoint.                             *)
(*                                                                         *)
(* An action is the work between two awaits: one call to DynamoDB, SQS or   *)
(* the endpoint together with the computation up to the next call.  pc[w]   *)
(* names the call that worker w makes next.  Between any two actions other  *)
(* workers run, time passes, and the process may crash; a call may return   *)
(* an error, with or without having taken effect.                           *)
(*                                                                         *)
(* Time is relative: an instant is stored as the number of ticks until it,  *)
(* 0 when it has come, so "now" is always 0 (Tick).                         *)
(***************************************************************************)
EXTENDS Resilience, FiniteSets

CONSTANTS
    Workers, Events, Customers, Messages,
    Poison,             \* messages whose body is not a QueueMessage
    EventOf,            \* the event_id in a message's body
    CustomerOf,         \* the customer_id of an event
    Unreadable,         \* events whose item does not parse
    InitialConfigs,     \* what the config table may say at the start
    BatchSize,          \* max_number_of_messages of a receive (10)
    MaxReceiveCount,    \* of the queue's redrive policy (4)
    ReadLag,            \* whether a read of an event may return an older
                        \* version (get_item asks for no consistent read)
    MaxFaults,          \* bound: calls that return an error
    MaxCrashes,         \* bound: crashes of worker processes
    NoItem              \* what reading an absent key returns

ASSUME WorkerAssumption ==
    /\ Poison \subseteq Messages
    /\ EventOf \in [Messages -> Events]
    /\ CustomerOf \in [Events -> Customers]
    /\ Unreadable \subseteq Events
    /\ InitialConfigs \subseteq {"active", "inactive", "missing"}
    /\ BatchSize \in Nat \ {0}
    /\ MaxReceiveCount \in Nat \ {0}
    /\ ReadLag \in BOOLEAN
    /\ MaxFaults \in Nat
    /\ MaxCrashes \in Nat

VARIABLES
    (* DynamoDB *)
    events,         \* webhook_events, sk=v0
    replica,        \* the older version of an item a read may return
    attempts,       \* webhook_events, sk=ATTEMPT#n: the n of each event
    configs,        \* webhook_configs
    breakers,       \* the breaker table
    (* SQS *)
    queue,
    (* each worker process *)
    breaker_states, \* its cache of breaker states
    held,           \* receipts received and not yet processed
    pc, job,        \* the call it makes next, for which receipt
    event,          \* its copy of the event
    breaker,        \* its copy of the breaker state
    policy,         \* what was decided for this message so far
    delay,          \* retry_delay_secs
    (* bounds *)
    faults, crashes,
    (* history, read by properties only *)
    posts,          \* HTTP requests sent for each event
    acked,          \* events whose endpoint answered 2xx to a worker
    settled,        \* events whose status was ever written as terminal
    contended,      \* events a worker took up while another was at them, or
                    \* from an older version
    streak          \* failed answers of each customer's endpoint in a row

tables  == <<events, replica, attempts, configs, breakers>>
local   == <<event, breaker, policy, delay>>
history == <<posts, acked, settled, contended, streak>>
processes == <<breaker_states, held, pc, job, local, faults, crashes, history>>
vars    == <<tables, queue, processes>>

-----------------------------------------------------------------------------
(* Data *)

EventStatus == {"pending", "delivered", "failed"}
Terminal    == {"delivered", "failed"}

(* next_retry_at and delivered_at are Options; only whether they are set    *)
(* matters to the code.                                                     *)
Event ==
    [status : EventStatus, attempt_count : Nat,
     next_retry_at : BOOLEAN, delivered_at : BOOLEAN]

NewEvent ==
    [status |-> "pending", attempt_count |-> 0,
     next_retry_at |-> FALSE, delivered_at |-> FALSE]

(* The slips below are wrong variants of definitions of this module.  No    *)
(* definition uses them; put in the place of the right one, each breaks the *)
(* property that is there to catch it.                                      *)
MarkFailedAsExhausted(e) == [e EXCEPT !.status = "exhausted", !.next_retry_at = FALSE]
AttemptNumberNotAdvanced(e) == e.attempt_count
CountedAttemptsNotAdvanced(e) == e.attempt_count
SkipDeliveredOnly(item) == item # NoItem => item.status = "delivered"
ConditionOnNewVersion(c, b) == breakers[c] # NoItem => breakers[c].version = b.version + 1
ConditionAtLeast(c, b) == breakers[c] # NoItem => breakers[c].version >= b.version
RetryableWithoutDatabase ==
    {"HttpRateLimited", "HttpServerError", "HttpOther",
     "NetworkTimeout", "NetworkConnect", "NetworkRequest", "SqsError"}
PolicyRedirectsSucceed(class) ==
    CASE class \in {"None", "HttpOther"} -> "Succeed"
      [] class \in {"HttpClientError", "TransportOther"} -> "FailTerminal"
      [] OTHER -> "Retry"

-----------------------------------------------------------------------------
MarkDelivered(e) == [e EXCEPT !.status = "delivered", !.delivered_at = TRUE,
                              !.next_retry_at = FALSE]
MarkFailed(e)    == [e EXCEPT !.status = "failed", !.next_retry_at = FALSE]
MarkRetryScheduled(e) == [e EXCEPT !.next_retry_at = TRUE]

Config == {"active", "inactive", "missing"}

(* SQS hands out a new receipt with every receive of a message.             *)
Receipt == [message : Messages, receive : Nat]

QueueEntry ==
    [place : {"unsent", "queue", "deleted", "dlq", "removed"},
     hidden : Nat, receives : Nat]

(* A breaker state, cached or as the item put_breaker_state writes, without *)
(* the fields that no decision reads; next_probe_at counts the ticks until  *)
(* then.                                                                    *)
HeldBreaker ==
    [mode                 : BreakerMode,
     consecutive_failures : Nat,
     next_probe_at        : Nat \cup {None},
     half_open_in_flight  : BOOLEAN,
     version              : Nat]

(* An absent item is no item.                                               *)
ASSUME NoItemAssumption == NoItem \notin Event \cup HeldBreaker \cup Receipt

Visible(m)  == queue[m].place = "queue" /\ queue[m].hidden = 0
Latest(r)   == queue[r.message].receives = r.receive

Steps == {"idle", "get_event", "get_config", "get_breaker",
          "put_gate", "deliver", "record_attempt", "increment_attempt_count",
          "put_outcome", "update_event_status", "delete_message",
          "change_visibility"}

(* The calls made with a copy of the event in hand.                         *)
AtItem == Steps \ {"idle", "get_event", "delete_message"}

Policies == {"none", "Blocked", "Allowed", "Succeed", "Retry", "FailTerminal",
             "DropInvalid"}

Ev(w) == EventOf[job[w].message]
Cu(w) == CustomerOf[Ev(w)]

-----------------------------------------------------------------------------
Init ==
    /\ events = [e \in Events |-> NoItem]
    /\ replica = [e \in Events |-> NoItem]
    /\ attempts = [e \in Events |-> {}]
    /\ configs \in [Customers -> InitialConfigs]
    /\ breakers = [c \in Customers |-> NoItem]
    /\ queue = [m \in Messages |-> [place |-> "unsent", hidden |-> 0,
                                    receives |-> 0]]
    /\ breaker_states = [w \in Workers |-> [c \in Customers |-> NoItem]]
    /\ held = [w \in Workers |-> {}]
    /\ pc = [w \in Workers |-> "idle"]
    /\ job = [w \in Workers |-> NoItem]
    /\ event = [w \in Workers |-> NewEvent]
    /\ breaker = [w \in Workers |-> ClosedBreakerState]
    /\ policy = [w \in Workers |-> "none"]
    /\ delay = [w \in Workers |-> 0]
    /\ faults = 0 /\ crashes = 0
    /\ posts = [e \in Events |-> 0]
    /\ acked = [e \in Events |-> FALSE]
    /\ settled = [e \in Events |-> FALSE]
    /\ contended = [e \in Events |-> FALSE]
    /\ streak = [c \in Customers |-> 0]

-----------------------------------------------------------------------------
(* Moving on *)

GoTo(w, step) == pc' = [pc EXCEPT ![w] = step]

(* A call of this step returns an error.                                    *)
Fault == faults < MaxFaults /\ faults' = faults + 1

(* process_message is over; what it did with the message, or failed to do,  *)
(* is in the queue.                                                         *)
Done(w) ==
    /\ GoTo(w, "idle")
    /\ job' = [job EXCEPT ![w] = NoItem]
    /\ event' = [event EXCEPT ![w] = NewEvent]
    /\ breaker' = [breaker EXCEPT ![w] = ClosedBreakerState]
    /\ policy' = [policy EXCEPT ![w] = "none"]
    /\ delay' = [delay EXCEPT ![w] = 0]

(* DeliveryErrorClass::result and policy_for_class, for an answer of the    *)
(* endpoint and for an error alike.                                         *)
Retryable ==
    {"HttpRateLimited", "HttpServerError", "HttpOther",
     "NetworkTimeout", "NetworkConnect", "NetworkRequest",
     "DynamoDbError", "SqsError"}

PolicyForClass(class) ==
    CASE class = "None" -> "Succeed"
      [] class \in {"InvalidQueueMessage", "SerializationError"} -> "DropInvalid"
      [] class \in Retryable -> "Retry"
      [] OTHER -> "FailTerminal"

(* classify_worker_error. *)
ErrorClass ==
    [EventNotFound  |-> "EventMissing",
     ConfigNotFound |-> "ConfigMissing",
     InactiveConfig |-> "ConfigInactive",
     InvalidMessage |-> "InvalidQueueMessage",
     Serialization  |-> "SerializationError",
     DecodeDynamo   |-> "SerializationError",
     DynamoDb       |-> "DynamoDbError",
     Sqs            |-> "SqsError",
     Delivery       |-> "InternalError",
     ItemNotFound   |-> "InternalError"]

(* deliver_event returned Err.  With a retryable class the message stays in *)
(* the queue until its visibility timeout runs out, with any other it is    *)
(* deleted.                                                                 *)
ErrorHandled(w, err) ==
    IF PolicyForClass(ErrorClass[err]) = "Retry"
    THEN Done(w)
    ELSE GoTo(w, "delete_message") /\ UNCHANGED <<job, local>>

(* A call to DynamoDB failed in deliver_event.                              *)
Abandon(w) == ErrorHandled(w, "DynamoDb")

-----------------------------------------------------------------------------
(* poll_and_process *)

(* The visibility timeout the worker asks SQS for.                          *)
HiddenFor(d) == ToSqsVisibilitySeconds(ComputeVisibilityTimeout(d))

(* receive_messages hides the messages it returns as for no retry delay.    *)
(* An answer may be lost on its way, with the batch hidden already; a call  *)
(* that fails before that changes nothing.                                  *)
Receive(w) ==
    /\ pc[w] = "idle" /\ held[w] = {}
    /\ \E batch \in SUBSET {m \in Messages :
                               Visible(m) /\ queue[m].receives < MaxReceiveCount} :
         /\ Cardinality(batch) \in 1..BatchSize
         /\ queue' = [m \in Messages |->
              IF m \in batch
              THEN [queue[m] EXCEPT
                      !.hidden = HiddenFor(0), !.receives = @ + 1]
              ELSE queue[m]]
         /\ \/ /\ held' = [held EXCEPT ![w] =
                   {[message |-> m, receive |-> queue[m].receives + 1] : m \in batch}]
               /\ UNCHANGED faults
            \/ Fault /\ UNCHANGED held
    /\ UNCHANGED <<tables, breaker_states, pc, job, local, crashes, history>>

(* The next message of the batch, in whatever order SQS returned it.  A     *)
(* body that does not parse is deleted unread.                              *)
Process(w) ==
    /\ pc[w] = "idle"
    /\ \E r \in held[w] :
         /\ held' = [held EXCEPT ![w] = @ \ {r}]
         /\ job' = [job EXCEPT ![w] = r]
         /\ GoTo(w, IF r.message \in Poison THEN "delete_message" ELSE "get_event")
    /\ UNCHANGED <<tables, queue, breaker_states, local, faults, crashes, history>>

-----------------------------------------------------------------------------
(* deliver_event, up to the gate *)

(* Nothing left to do for this event_id. *)
SkipEvent(item) == item # NoItem => item.status \in Terminal

(* What get_event may read. *)
Versions(e) == {events[e]} \cup (IF ReadLag THEN {replica[e]} ELSE {})

(* A worker that takes up this item is not the only one at the event, or    *)
(* starts from an older version of it.                                      *)
Contends(w, item) ==
    \/ item # events[Ev(w)]
    \/ \E v \in Workers \ {w} : pc[v] \in AtItem /\ Ev(v) = Ev(w)

GetEvent(w) ==
    /\ pc[w] = "get_event"
    /\ \/ \E item \in Versions(Ev(w)) :
            /\ UNCHANGED faults
            /\ \/ /\ SkipEvent(item)
                  /\ GoTo(w, "delete_message") /\ UNCHANGED <<job, local, contended>>
               \/ /\ ~SkipEvent(item) /\ Ev(w) \in Unreadable
                  /\ ErrorHandled(w, "DecodeDynamo") /\ UNCHANGED contended
               \/ /\ ~SkipEvent(item) /\ Ev(w) \notin Unreadable
                  /\ event' = [event EXCEPT ![w] = item]
                  /\ contended' = [contended EXCEPT ![Ev(w)] = @ \/ Contends(w, item)]
                  /\ GoTo(w, "get_config")
                  /\ UNCHANGED <<job, breaker, policy, delay>>
       \/ Fault /\ Abandon(w) /\ UNCHANGED contended
    /\ UNCHANGED <<tables, queue, breaker_states, held, crashes, posts, acked,
                   settled, streak>>

GetConfig(w) ==
    /\ pc[w] = "get_config"
    /\ \/ /\ configs[Cu(w)] = "active"
          /\ GoTo(w, "get_breaker")
          /\ UNCHANGED <<event, job, breaker, policy, delay, faults>>
       \/ /\ configs[Cu(w)] # "active"
          /\ event' = [event EXCEPT ![w] = MarkFailed(@)]
          /\ GoTo(w, "update_event_status")
          /\ UNCHANGED <<job, breaker, policy, delay, faults>>
       \/ Fault /\ Abandon(w)
    /\ UNCHANGED <<tables, queue, breaker_states, held, crashes, history>>

(* The table's breaker state, or none: absent, or the read failed.          *)
BreakerRead(c, b) ==
    \/ b = breakers[c] /\ UNCHANGED faults
    \/ b = NoItem /\ Fault

(* get_breaker_state prefers the cache over the table and fills it;         *)
(* should_allow_request then decides on the copy.                           *)
GetBreaker(w) ==
    /\ pc[w] = "get_breaker"
    /\ \E read \in {breaker_states[w][Cu(w)], breakers[Cu(w)], NoItem} :
         LET b == IF read = NoItem THEN ClosedBreakerState ELSE read
         IN /\ IF breaker_states[w][Cu(w)] # NoItem
               THEN read = breaker_states[w][Cu(w)] /\ UNCHANGED faults
               ELSE BreakerRead(Cu(w), read)
            /\ breaker_states' = [breaker_states EXCEPT ![w][Cu(w)] = b]
            /\ breaker' = [breaker EXCEPT ![w] = AfterGate(b, 0)]
            /\ policy' = [policy EXCEPT ![w] =
                 IF ShouldAllow(b, 0) THEN "Allowed" ELSE "Blocked"]
            /\ delay' = [delay EXCEPT ![w] =
                 IF ShouldAllow(b, 0) THEN 0 ELSE RetryDelayFromBreaker(b, 0)]
    /\ GoTo(w, "put_gate")
    /\ UNCHANGED <<tables, queue, held, job, event, crashes, history>>

-----------------------------------------------------------------------------
(* set_breaker_state: a conditional put of the copy, one version up.  The   *)
(* caller's copy keeps its old version.                                     *)

NextVersion(b) == [b EXCEPT !.version = @ + 1]

ConditionHolds(c, b) ==
    breakers[c] # NoItem => breakers[c].version = b.version

(* What deliver_event does when the gate's set_breaker_state returns.       *)
GateWritten(w) ==
    IF policy[w] = "Blocked"
    THEN /\ event' = [event EXCEPT ![w] = MarkRetryScheduled(@)]
         /\ GoTo(w, "update_event_status")
         /\ UNCHANGED delay
    ELSE GoTo(w, "deliver") /\ UNCHANGED <<event, delay>>

(* What it does when the outcome's set_breaker_state returns.               *)
OutcomeWritten(w) ==
    /\ GoTo(w, "update_event_status")
    /\ \/ /\ policy[w] = "Succeed"
          /\ event' = [event EXCEPT ![w] = MarkDelivered(@)]
          /\ UNCHANGED delay
       \/ /\ policy[w] = "Retry" /\ ShouldRetry(breaker[w])
          /\ event' = [event EXCEPT ![w] = MarkRetryScheduled(@)]
          /\ \E d \in RetryDelays(breaker[w]) : delay' = [delay EXCEPT ![w] = d]
       \/ /\ \/ policy[w] = "Retry" /\ ~ShouldRetry(breaker[w])
             \/ policy[w] = "FailTerminal"
          /\ event' = [event EXCEPT ![w] = MarkFailed(@)]
          /\ UNCHANGED delay

BreakerWritten(w) ==
    IF pc[w] = "put_gate" THEN GateWritten(w) ELSE OutcomeWritten(w)

(* A put that is refused for its version is kept in the cache like one that *)
(* failed: is_breaker_version_conflict looks for the exception's name in    *)
(* the text of the SDK's error, which is "service error" for every answer   *)
(* of DynamoDB.  The cache is never refreshed.                              *)
PutBreaker(w) ==
    LET next == NextVersion(breaker[w])
        Store == ConditionHolds(Cu(w), breaker[w])
                 /\ breakers' = [breakers EXCEPT ![Cu(w)] = next]
    IN /\ pc[w] \in {"put_gate", "put_outcome"}
       /\ breaker_states' = [breaker_states EXCEPT ![w][Cu(w)] = next]
       /\ BreakerWritten(w)
       /\ \/ Store /\ UNCHANGED faults
          \/ ~ConditionHolds(Cu(w), breaker[w]) /\ UNCHANGED <<breakers, faults>>
          \/ Fault /\ (Store \/ UNCHANGED breakers)
       /\ UNCHANGED <<events, replica, attempts, configs, queue, held, job,
                      breaker, policy, crashes, history>>

-----------------------------------------------------------------------------
(* deliver_event, from the request on *)

(* classify_http_status and classify_reqwest_error: what deliver makes of   *)
(* the endpoint's answer, or of the lack of one.                            *)
HttpClass == {"None", "HttpRateLimited", "HttpServerError", "HttpClientError",
              "HttpOther"}
TransportClass == {"NetworkTimeout", "NetworkConnect", "NetworkRequest",
                   "TransportOther"}

(* The endpoint gets the request and may answer anything.                   *)
Deliver(w) ==
    /\ pc[w] = "deliver"
    /\ \E class \in HttpClass \cup TransportClass :
         /\ policy' = [policy EXCEPT ![w] = PolicyForClass(class)]
         /\ acked' = [acked EXCEPT ![Ev(w)] = @ \/ class = "None"]
         /\ streak' = [streak EXCEPT ![Cu(w)] =
                         IF class = "None" THEN 0 ELSE @ + 1]
    /\ posts' = [posts EXCEPT ![Ev(w)] = @ + 1]
    /\ GoTo(w, "record_attempt")
    /\ UNCHANGED <<tables, queue, breaker_states, held, job, event, breaker,
                   delay, faults, crashes, settled, contended>>

(* Puts ATTEMPT#n whether or not it exists, n counted from the copy.        *)
AttemptNumber(e) == e.attempt_count + 1

RecordAttempt(w) ==
    LET Put == attempts' = [attempts EXCEPT ![Ev(w)] =
                              @ \cup {AttemptNumber(event[w])}]
    IN /\ pc[w] = "record_attempt"
       /\ \/ /\ Put /\ GoTo(w, "increment_attempt_count")
             /\ UNCHANGED <<job, local, faults>>
          \/ Fault /\ Abandon(w) /\ (Put \/ UNCHANGED attempts)
       /\ UNCHANGED <<events, replica, configs, breakers, queue,
                      breaker_states, held, crashes, history>>

(* Sets attempt_count to the copy's count plus one, then accounts for the   *)
(* outcome in the copy of the breaker state.                                *)
CountedAttempts(e) == e.attempt_count + 1

IncrementAttemptCount(w) ==
    LET n == CountedAttempts(event[w])
        Put == events' = [events EXCEPT ![Ev(w)].attempt_count = n]
    IN /\ pc[w] = "increment_attempt_count"
       /\ \/ /\ Put
             /\ event' = [event EXCEPT ![w].attempt_count = n]
             /\ breaker' = [breaker EXCEPT ![w] =
                  IF policy[w] = "Succeed" THEN OnSuccess(@) ELSE OnFailure(@, 0)]
             /\ GoTo(w, "put_outcome")
             /\ UNCHANGED <<job, policy, delay, faults>>
          \/ Fault /\ Abandon(w) /\ (Put \/ UNCHANGED events)
       /\ UNCHANGED <<replica, attempts, configs, breakers, queue,
                      breaker_states, held, crashes, history>>

(* update_event_status writes whatever the copy says over the item.  With   *)
(* both timestamps set, its final expression mentions only one of the two   *)
(* values it binds, which DynamoDB refuses.                                 *)
Written(item, e) ==
    [item EXCEPT !.status = e.status,
                 !.next_retry_at = e.next_retry_at,
                 !.delivered_at = @ \/ e.delivered_at]

UpdateAccepted(e) == ~(e.next_retry_at /\ e.delivered_at)

UpdateEventStatus(w) ==
    LET Put == /\ UpdateAccepted(event[w])
               /\ events' = [events EXCEPT ![Ev(w)] = Written(@, event[w])]
               /\ settled' = [settled EXCEPT ![Ev(w)] =
                                @ \/ event[w].status \in Terminal]
    IN /\ pc[w] = "update_event_status"
       /\ \/ /\ Put
             /\ GoTo(w, IF event[w].status \in Terminal
                        THEN "delete_message" ELSE "change_visibility")
             /\ UNCHANGED <<job, local, faults>>
          \/ /\ ~UpdateAccepted(event[w]) /\ Abandon(w)
             /\ UNCHANGED <<events, settled, faults>>
          \/ Fault /\ Abandon(w) /\ (Put \/ UNCHANGED <<events, settled>>)
       /\ UNCHANGED <<replica, attempts, configs, breakers, queue,
                      breaker_states, held, crashes, posts, acked, contended,
                      streak>>

-----------------------------------------------------------------------------
(* The queue, at the end of process_message.  A receipt that is not the     *)
(* message's latest may or may not still work.                              *)

DeleteMessage(w) ==
    LET m == job[w].message
    IN /\ pc[w] = "delete_message"
       /\ Done(w)
       /\ \/ /\ queue' = IF queue[m].place = "queue"
                         THEN [queue EXCEPT ![m].place = "deleted",
                                            ![m].hidden = 0]
                         ELSE queue
             /\ UNCHANGED faults
          \/ ~Latest(job[w]) /\ UNCHANGED <<queue, faults>>
          \/ Fault /\ UNCHANGED queue
       /\ UNCHANGED <<tables, breaker_states, held, crashes, history>>

ChangeVisibility(w) ==
    LET m == job[w].message
    IN /\ pc[w] = "change_visibility"
       /\ Done(w)
       /\ \/ /\ queue' = IF queue[m].place = "queue" /\ queue[m].hidden > 0
                         THEN [queue EXCEPT ![m].hidden = HiddenFor(delay[w])]
                         ELSE queue
             /\ UNCHANGED faults
          \/ ~Latest(job[w]) /\ UNCHANGED <<queue, faults>>
          \/ Fault /\ UNCHANGED queue
       /\ UNCHANGED <<tables, breaker_states, held, crashes, history>>

-----------------------------------------------------------------------------
(* The environment *)

SentFor(e) == {m \in Messages : EventOf[m] = e /\ queue[m].place # "unsent"}

(* The ingestion API stores an event before it enqueues a message for it.   *)
StoreEvent(e) ==
    /\ events[e] = NoItem /\ SentFor(e) = {}
    /\ events' = [events EXCEPT ![e] = NewEvent]
    /\ UNCHANGED <<replica, attempts, configs, breakers, queue, processes>>

(* A message is sent, by the ingestion API, the reconciler or a replay, or  *)
(* by something else: its event need not exist.                             *)
Enqueue(m) ==
    /\ queue[m].place = "unsent"
    /\ queue' = [queue EXCEPT ![m].place = "queue"]
    /\ UNCHANGED <<tables, processes>>

(* Reads of an event may return this version from now on.                   *)
Replicate(e) ==
    /\ ReadLag /\ replica[e] # events[e]
    /\ replica' = [replica EXCEPT ![e] = events[e]]
    /\ UNCHANGED <<events, attempts, configs, breakers, queue, processes>>

(* The redrive policy: a message received MaxReceiveCount times is moved to *)
(* the dead-letter queue instead of being received again.                   *)
Redrive(m) ==
    /\ Visible(m) /\ queue[m].receives = MaxReceiveCount
    /\ queue' = [queue EXCEPT ![m].place = "dlq"]
    /\ UNCHANGED <<tables, processes>>

(* Whoever replays the dead-letter queue deletes a message from it.         *)
RemoveFromDlq(m) ==
    /\ queue[m].place = "dlq"
    /\ queue' = [queue EXCEPT ![m].place = "removed"]
    /\ UNCHANGED <<tables, processes>>

(* create_config always writes an active config.                            *)
PutConfig(c) ==
    /\ configs[c] # "active"
    /\ configs' = [configs EXCEPT ![c] = "active"]
    /\ UNCHANGED <<events, replica, attempts, breakers, queue, breaker_states,
                   held, pc, job, local, faults, crashes, history>>

(* A process dies and another takes its place.                              *)
Crash(w) ==
    /\ crashes < MaxCrashes /\ crashes' = crashes + 1
    /\ Done(w)
    /\ held' = [held EXCEPT ![w] = {}]
    /\ breaker_states' = [breaker_states EXCEPT ![w] = [c \in Customers |-> NoItem]]
    /\ UNCHANGED <<tables, queue, faults, history>>

Waiting(b)   == b # NoItem /\ b.next_probe_at # None /\ b.next_probe_at > 0
OneTickOn(b) == IF Waiting(b) THEN [b EXCEPT !.next_probe_at = @ - 1] ELSE b

Tick ==
    /\ \/ \E m \in Messages : queue[m].place = "queue" /\ queue[m].hidden > 0
       \/ \E c \in Customers : Waiting(breakers[c])
       \/ \E w \in Workers : Waiting(breaker[w])
       \/ \E w \in Workers, c \in Customers : Waiting(breaker_states[w][c])
    /\ queue' = [m \in Messages |->
         IF queue[m].hidden > 0 THEN [queue[m] EXCEPT !.hidden = @ - 1] ELSE queue[m]]
    /\ breakers' = [c \in Customers |-> OneTickOn(breakers[c])]
    /\ breaker' = [w \in Workers |-> OneTickOn(breaker[w])]
    /\ breaker_states' = [w \in Workers |-> [c \in Customers |->
                              OneTickOn(breaker_states[w][c])]]
    /\ UNCHANGED <<events, replica, attempts, configs, held, pc, job, event,
                   policy, delay, faults, crashes, history>>

-----------------------------------------------------------------------------
(* One step of process_message. *)
Work(w) ==
    \/ Process(w) \/ GetEvent(w) \/ GetConfig(w) \/ GetBreaker(w)
    \/ PutBreaker(w) \/ Deliver(w) \/ RecordAttempt(w) \/ IncrementAttemptCount(w)
    \/ UpdateEventStatus(w) \/ DeleteMessage(w) \/ ChangeVisibility(w)

(* What the workers, SQS and DynamoDB do, and what those do who send and    *)
(* replay messages.                                                         *)
Serve ==
    \/ \E w \in Workers : Receive(w) \/ Work(w) \/ Crash(w)
    \/ \E m \in Messages : Redrive(m)
    \/ \E e \in Events : Replicate(e)
    \/ \E c \in Customers : PutConfig(c)
    \/ Tick

Supply ==
    \/ \E e \in Events : StoreEvent(e)
    \/ \E m \in Messages : Enqueue(m) \/ RemoveFromDlq(m)

Next == Serve \/ Supply

Spec == Init /\ [][Next]_vars

(* run() polls for ever and processes what it received, SQS moves messages  *)
(* past their receive count when they come up again, and time passes.       *)
(* Nothing is assumed of crashes, errors or the configs.                    *)
Fairness ==
    /\ \A w \in Workers : WF_vars(Receive(w)) /\ WF_vars(Work(w))
    /\ \A m \in Messages : WF_vars(Redrive(m))
    /\ WF_vars(Tick)

FairSpec == Spec /\ Fairness

-----------------------------------------------------------------------------
(* Properties *)

(* Every variable holds what the code's types allow.                        *)
TypeOK ==
    /\ events \in [Events -> Event \cup {NoItem}]
    /\ replica \in [Events -> Event \cup {NoItem}]
    /\ attempts \in [Events -> SUBSET Nat]
    /\ configs \in [Customers -> Config]
    /\ breakers \in [Customers -> HeldBreaker \cup {NoItem}]
    /\ queue \in [Messages -> QueueEntry]
    /\ breaker_states \in [Workers -> [Customers -> HeldBreaker \cup {NoItem}]]
    /\ held \in [Workers -> SUBSET Receipt]
    /\ pc \in [Workers -> Steps]
    /\ job \in [Workers -> Receipt \cup {NoItem}]
    /\ \A w \in Workers : pc[w] # "idle" => job[w] \in Receipt
    /\ event \in [Workers -> Event]
    /\ breaker \in [Workers -> HeldBreaker]
    /\ policy \in [Workers -> Policies]
    /\ delay \in [Workers -> Nat]
    /\ faults \in Nat /\ crashes \in Nat
    /\ posts \in [Events -> Nat]
    /\ acked \in [Events -> BOOLEAN]
    /\ settled \in [Events -> BOOLEAN]
    /\ contended \in [Events -> BOOLEAN]
    /\ streak \in [Customers -> Nat]

Settled(e) == events[e] # NoItem /\ events[e].status \in Terminal

(* The audit trail of an event is never ahead of the facts and has no gap:  *)
(* attempt rows are numbered 1, 2, ... without a hole, there are at most as *)
(* many as requests were sent, and attempt_count never claims a row that is *)
(* not there -- however workers interleave on the event, crash, or fail     *)
(* between the request, the row and the count.                              *)
AuditTrail ==
    \A e \in Events :
        /\ \A n \in attempts[e] : 1..n \subseteq attempts[e] /\ n \in 1..posts[e]
        /\ events[e] # NoItem => 1..events[e].attempt_count \subseteq attempts[e]

(* A message is only deleted when there is nothing left to do for its       *)
(* event: the event does not exist or cannot be read, or was marked         *)
(* delivered or failed first.  An error or a crash before that leaves the   *)
(* message in the queue.                                                    *)
DeletedOnlySettled ==
    \A m \in Messages \ Poison :
        queue[m].place = "deleted" =>
            \/ events[EventOf[m]] = NoItem \/ EventOf[m] \in Unreadable
            \/ settled[EventOf[m]]

(* An event is only ever marked delivered after its endpoint answered 2xx.  *)
DeliveredOnlyIfAcked ==
    \A e \in Events :
        events[e] # NoItem /\ events[e].status = "delivered" => acked[e]

(* A settled event is left alone: whatever messages arrive for it, at       *)
(* whichever worker, no request is sent, no attempt recorded, nothing in    *)
(* its item changed, unless two workers were once at it together or one     *)
(* started from an older version of it (main.rs 136-149).                   *)
SettledIsUntouched ==
    [][\A e \in Events : Settled(e) /\ ~contended[e] =>
          events'[e] = events[e] /\ attempts'[e] = attempts[e] /\ posts'[e] = posts[e]
      ]_vars

(* As long as no call has failed, no worker's cached breaker state carries  *)
(* a version the table has not reached: if it did, every later put of that  *)
(* worker would be refused.                                                 *)
CacheNeverAhead ==
    \A c \in Customers, w \in Workers :
        faults = 0 /\ breaker_states[w][c] # NoItem /\ breaker_states[w][c].version > 0
        => breakers[c] # NoItem /\ breaker_states[w][c].version <= breakers[c].version

(* What the breaker's decisions read, but for the instant of the next probe. *)
Gist(b) == [b EXCEPT !.next_probe_at = None]

(* As long as no call has failed, what a restarted worker would load is at  *)
(* most one outcome old: between two messages the table holds what the last *)
(* gate wrote, and a worker's cache that or what the answer made of it --   *)
(* however many restarts there were.                                        *)
TableOneOutcomeBehind ==
    \A w \in Workers, c \in Customers :
        LET cached == breaker_states[w][c]
            stored == breakers[c]
        IN faults = 0 /\ pc[w] = "idle" /\ cached # NoItem =>
             /\ stored # NoItem
             /\ Gist(cached) \in {Gist(stored), Gist(OnSuccess(stored)),
                                  Gist(OnFailure(stored, 0))}

(* The breaker state is persisted: between two messages the table holds     *)
(* what the worker knows of the endpoint.                                   *)
BreakerPersisted ==
    \A w \in Workers, c \in Customers :
        pc[w] = "idle" /\ breaker_states[w][c] # NoItem =>
            breakers[c] = breaker_states[w][c]

(* Between two messages a worker's breaker state agrees with what the       *)
(* endpoint did: it counts the failures in a row, and it is closed exactly  *)
(* while there are fewer of them than the threshold.                        *)
BreakerTracksEndpoint ==
    \A w \in Workers, c \in Customers :
        LET b == breaker_states[w][c]
        IN pc[w] = "idle" /\ b # NoItem =>
             /\ b.consecutive_failures = streak[c]
             /\ b.mode = "Closed" <=> streak[c] < FailureThreshold

(* Between two messages a worker holds no probe: a half-open breaker was    *)
(* closed or opened again by the outcome of the request it let through.     *)
NoProbeLeftBehind ==
    \A w \in Workers, c \in Customers :
        pc[w] = "idle" /\ breaker_states[w][c] # NoItem
        => ~breaker_states[w][c].half_open_in_flight

(* An event is given up after a retryable answer only when the customer's   *)
(* endpoint failed that often in a row, whichever of its events the         *)
(* failures were answers to (retry.rs 58-91).                               *)
GivesUpOnlyAfterFailures ==
    [][\A w \in Workers :
         /\ pc[w] = "put_outcome"
         /\ pc'[w] = "update_event_status"
         /\ policy[w] = "Retry" /\ event'[w].status = "failed"
         => streak[Cu(w)] >= Smaller(RetryAttempts, FailureThreshold)]_vars

(* Delivered and failed are final: no later write changes the status of an  *)
(* event that was settled.                                                  *)
TerminalIsFinal ==
    [][\A e \in Events : Settled(e) => events'[e].status = events[e].status]_vars

(* What EventLifecycle sees of the events table.                            *)
Lifecycle == INSTANCE EventLifecycle WITH
    status <- [e \in Events |-> IF events[e] = NoItem THEN "absent"
                                ELSE events[e].status],
    tries  <- [e \in Events |-> IF events[e] = NoItem THEN 0
                                ELSE events[e].attempt_count]

(* The workers implement EventLifecycle: an event only one of them is at,   *)
(* from its current version, is settled once, and its attempts are counted  *)
(* one by one and only before that; no event disappears, and none is        *)
(* delivered without an attempt (main.rs 136-297).                          *)
ImplementsLifecycle == Lifecycle!Spec

(* There is nothing left to do for a message.                               *)
Resolved(m) ==
    \/ queue[m].place \in {"dlq", "removed"}
    \/ /\ queue[m].place = "deleted"
       /\ \/ m \in Poison \/ EventOf[m] \in Unreadable
          \/ events[EventOf[m]] = NoItem \/ Settled(EventOf[m])

(* Every message sent is dealt with: it ends in the dead-letter queue, or is *)
(* deleted with its event settled, whatever call fails and whenever the     *)
(* process dies (main.rs 299-372, and the redrive policy).                  *)
EveryMessageResolved ==
    \A m \in Messages : <>[](queue[m].place = "unsent" \/ Resolved(m))
=============================================================================
