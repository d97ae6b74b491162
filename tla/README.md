# HooRay-Relay in TLA+

Models, model-checking runs and machine-checked proofs for HooRay-Relay, a
webhook relay: an HTTP function takes events in, stores them in DynamoDB and
puts a message on an SQS queue; worker processes take messages off the queue and
post the events to the customers' endpoints, with retries, a circuit breaker
per customer and an audit trail.

Contents: [the system](#the-system) · [the modules](#the-modules) ·
[what is abstracted](#what-is-abstracted) · [the runs](#the-runs) ·
[disagreements](#where-code-and-documentation-disagree) ·
[bounds](#bounds) · [fairness](#fairness) · [the proofs](#the-proofs) ·
[not modelled](#not-modelled) · [the plan](#the-plan)

## The system

| component | source | state | operations | talks to |
|---|---|---|---|---|
| Webhook ingestion | `ingestion/src/handlers/webhook.rs`, `services/{idempotency,events,queue}.rs` | none of its own | `receive_webhook`: validate, `check_and_record`, `create_event`, `enqueue_event`, `mark_event_orphaned` | idempotency and events tables, queue |
| Orphan reconciliation | `services/reconcile.rs`, `bin/reconcile_orphaned.rs` | the page it is working through | query, `enqueue_event`, `clear_orphaned_marker` | secondary index, events table, queue |
| Configuration API | `handlers/config.rs`, `services/configs.rs` | none of its own | `create_config` (read, then put), `get_config` | configs table |
| Delivery worker | `worker/src/main.rs`, `services/*` | the batch it received, a cache of breaker states | `poll_and_process`, `process_message`, `deliver_event`, `get_/set_breaker_state` | queue, all its tables, endpoints |
| Breaker and retry schedule | `worker/src/resilience/*` | none (edits the worker's copy) | `should_allow_request`, `on_success`, `on_failure`, `calculate_retry_decision`, `compute_visibility_timeout` | called by the worker |
| Tables | `template.yaml`, `worker/src/services/dynamodb.rs` | idempotency records, event items and attempt rows, configs, breaker states | puts (two of them conditional), updates, reads | |
| Queue, dead-letter queue | `template.yaml`, `worker/src/services/sqs.rs` | messages with visibility timeout and receive count | send, receive, delete, change visibility, redrive | |
| Dead-letter operations | `scripts/dlq_ops.sh` | the messages it received and those selected | inspect; replay: copy to the main queue, then perhaps delete | both queues |

What makes it correct, and what makes that hard:

* **Ingestion** promises one event per idempotency key and, once it answered
  202, a message. It writes three stores one after the other without a
  transaction; a call may fail after it took effect, a client repeats its
  request, requests with the same key run at the same time, and the function
  may be killed anywhere.
* **The reconciler** promises to enqueue what ingestion failed to. It may die in
  its loop, overlap with another run, and it decides from an index that lags
  behind the table.
* **The worker** promises that an event is delivered or failed, once, with a
  true audit trail, and that no message is lost before that. A message may come
  twice, at the same time to two workers (the visibility timeout of a batch runs
  out while it is worked on), after a crash, after an error at any call; every
  step of it works on a copy of the event read earlier.
* **The breaker** promises to stop requests to an endpoint that fails and to
  probe it later. Its state is shared by workers through a table with versions,
  with a cache in between.
* **The configuration API** promises that a post replaces the configuration and
  that `created_at` stays. It reads and then puts, on eventually consistent
  reads, without a condition.
* **The operator** may replay a message more than once, and the script may stop
  between copy and deletion; nothing may be lost by it.
* **All of them together** promise that an accepted event is settled or ends in
  the dead-letter queue. Each part decides from its own view of the event.

`PROJECT.json` lists the hazards one by one, at the line where each bites, with
the properties that cover it.

## The modules

| module | models | checked by | proved in |
|---|---|---|---|
| `Resilience` | `resilience/breaker.rs`, `resilience/retry.rs` as operators | with `Worker`, `BreakerClock` | |
| `BreakerClock` | one endpoint's breaker and delays on a clock of seconds | `BreakerClock.cfg` | `BreakerClock_proofs` |
| `EventLifecycle` | what anyone reading `webhook_events` may see of an event, with and without contention: the abstract specification | as a property of `Worker` | `WorkerSafety_proofs`, `Relay_proofs` |
| `Worker` | worker processes, queue, tables | `MCWorker` with six configurations | `Worker_proofs`, `WorkerSafety_proofs`, `WorkerBreaker_proofs` |
| `Ingestion` | handlers, reconcilers, tables, index | two configurations | `Ingestion_proofs`, `IngestionSafety_proofs` |
| `ConfigStore` | `create_config` and `get_config` on one customer's item | `configs.cfg` | `ConfigStore_proofs` |
| `Relay` | the composition: API, reconcilers, workers, dead-letter replay | `MCRelay` with two configurations | `Relay_proofs` |

`Worker` extends `Resilience` and instantiates `EventLifecycle` with a
refinement mapping (`Lifecycle`). `Relay` extends `Worker` and instantiates
`Ingestion` on its tables and queue. `MCWorker` and `MCRelay` only give values to
constants.

### Worker

An action is one call to DynamoDB, SQS or the endpoint, with the computation up
to the next call, for that is where another worker, a crash or the clock can come
in between: `pc[w]` names the next call of worker `w`.

| code | model |
|---|---|
| `receive_messages` | `Receive`: a batch is hidden, every message gets a new receipt; the answer may be lost with the batch hidden |
| loop of `poll_and_process`, start of `process_message` | `Process`: the next of the batch; an unreadable body goes straight to `delete_message` |
| `get_event`, the terminal check, an item that does not parse | `GetEvent` (`Versions`: what an eventually consistent read may return) |
| `get_config`, missing or inactive | `GetConfig` |
| `get_breaker_state` (cache, table, default) and `should_allow_request` | `GetBreaker` |
| `set_breaker_state` at the gate and after the outcome | `PutBreaker`, then `GateWritten` or `OutcomeWritten` |
| `deliver`, classification, policy | `Deliver` |
| `record_attempt` | `RecordAttempt` |
| `increment_attempt_count`, then `on_success`/`on_failure` | `IncrementAttemptCount` |
| `update_event_status` (also from `schedule_retry`) | `UpdateEventStatus` |
| `delete_message`, `change_visibility_for_retry` | `DeleteMessage`, `ChangeVisibility` |
| an error of `deliver_event`: `classify_worker_error`, `policy_for_class` | `ErrorHandled` |
| a process dies and is replaced | `Crash` |
| replication, redrive policy, `create_config`, time | `Replicate`, `Redrive`, `PutConfig`, `Tick` |
| who stores events, sends messages and deletes dead letters | `StoreEvent`, `Enqueue`, `RemoveFromDlq` (`Supply`) |

State: `events`, `attempts`, `configs`, `breakers` are the tables; `queue` the
two queues; `breaker_states`, `held`, `job`, `event`, `breaker`, `policy` and
`delay` what a process keeps in memory. `posts`, `acked`, `settled`, `contended`
and `streak` are history that only properties read. `contended` marks the events a
worker took up while another one was at work on them, or from a version that was
not the current one: what the properties promise of a settled event, they promise
of those nobody contended for.

An error is `Fault`: any call may return one, with or without having taken
effect. What becomes of the message depends on the class of the error
(`ErrorClass`, `PolicyForClass`): `dynamodb_error` is retryable, so the worker
abandons the message, which comes up again (`Abandon`); an item that does not
parse (`Unreadable`) is not, so its message is deleted. An error of `set_breaker_state`
is not passed on: the state stays in the cache.

`get_event` does not ask for a consistent read. `replica` is an older version of
each item, which catches up with the table at any time (`Replicate`); with
`ReadLag` a read may return either. Without it reads are current. `Next` is
`Serve`, what the workers and the services do, or `Supply`, what those do who
send and replay: `Relay` puts the API and the operators in the place of `Supply`.

`set_breaker_state` has a branch for a refused conditional put that re-reads the
table (`main.rs:422-435`). It is not in the model, because it is never taken:
`put_breaker_state` formats the SDK's error with `{e}` (`dynamodb.rs:449`), and an
`SdkError` prints as "service error" whatever DynamoDB answered (`Cargo.lock` pins
aws-smithy-runtime-api 1.11.5), so that `is_breaker_version_conflict`
(`main.rs:512-520`) finds none of the names it looks for. A refused put ends like
one that failed: the worker's own state stays in its cache, one version up.

### BreakerClock

The same operators with the values of `ResilienceConfig::default`, one endpoint
and seconds instead of ticks. `Gate` is a message that comes up and is let through
(`Pass`) or refused (`Refuse`); `Answer` is the request's outcome reaching the
breaker, `Lost` one that does not, because `record_attempt` or
`increment_attempt_count` returned an error first (`main.rs:198-205`);
`TimePasses` moves the clock. `back_at` and `probed` are history: when a message
the open breaker refused comes up again, and whether a probe was let through since.

### Ingestion

The same style: `pc[r]` is the next call of the run of `receive_webhook` for
request `r`; `rpc[p]` and `todo[p]` those of reconciler `p`. Requests are
numbered in the order they arrive, and the number stands for the event id and
`created_at` of the request too. `index` is what `gsi1-retry-index` shows of each
event; `Propagate` lets it catch up, at any later time. `Touch` is all the
reconciler can see of the worker: an attempt counted or a status written, after
a message was sent. A failed query of the reconciler changes nothing and is a
stuttering step. `window` and `period` are history: in which life of the
idempotency record a request was checked.

### ConfigStore

Posts of one customer's configuration: `Start`, `FetchConfig`, `PutConfig` are the
arrival and the two calls of `create_config`; `GetConfig` is a get. `versions`
holds every item there has been, and a read may return any of them. An item is
the post that brought it (for url and secret) and its `created_at`. `before`,
`confirmed` and `misread` are history: which posts were over when this one came
in, when a post was answered with 201, and whether a read failed to see an item
that was there - by an error or because it was stale.

### Relay

Every step is one of the API, of a worker or of an operator. A step of the API
is a step of `Ingestion` (through `I`) joined with what it does to the tables and
the queue: `StoreStep`, `EnqueueStep` and `RequeueStep` conjoin `StoreEvent` or
`Enqueue` of `Worker` with `CreateEvent`, `EnqueueEvent` or `Requeue`. `Items` is
how `Ingestion` sees an item (absent, untouched, touched by the worker), `Queued`
how it sees the queue. A step of the workers is `Serve`; that the API sees it as
`Touch` or not at all is proved, not assumed. The messages of event `e` are
`<<e, 1>>`, `<<e, 2>>`, ... in the order they are sent.

`dlq_ops.sh` with `MODE=replay` is `Select` (receive and filter by id), `CopyBack`
and `DeleteOriginal` per message, and `EndReplay` at its end, at the first
failing call (`set -e`) or when it is interrupted. Runs may overlap.

## What is abstracted

* Payloads, signatures, URLs, identifiers as text: model values or numbers.
  Validation is one choice, made when the request comes in.
* HTTP answers: the nine classes `deliver` produces, chosen freely.
* In an event item, `next_retry_at` and `delivered_at` are only present or not.
* In a breaker state, the fields that are stored and never read by a decision
  (`consecutive_successes`, `opened_at`, `last_failure_at`, `last_success_at`).
* Time in `Worker` is relative: an instant is kept as the number of ticks until
  it comes. `created_at` and TTLs are orders and events (`Age`, `Expire`).
* Eventually consistent reads are modelled for events (`ReadLag`), the index, the
  idempotency record and the configurations in `ConfigStore`. The worker's reads
  of a breaker state and of a configuration are modelled as current.
* In `ConfigStore`, `active` and `max_retries` are left out: the code writes the
  same values in every item. `updated_at` too, which no code reads.
* A message replayed from the dead-letter queue is a new message with the same
  body; the old one stays until it is deleted. The visibility timeout of the
  dead-letter queue is left out, so that overlapping runs may see the same
  message.
* Operators called a wrong variant or slip (`SkipDeliveredOnly`,
  `KeyAlwaysFree`, ...) belong to no behaviour: each is what a definition could
  have been by mistake, and shows that the property beside it would notice.

## The runs

Passing runs (`tlc -config X.cfg M`, each within two or three minutes):

| run | instance | properties | shows |
|---|---|---|---|
| `pair` | 2 workers, 1 event, 2 receives, stale reads, 1 error, 1 crash | `TypeOK`, `AuditTrail`, `DeliveredOnlyIfAcked`, `CacheNeverAhead`, `SettledIsUntouched`, `ImplementsLifecycle` | overlapping deliveries of one message, with everything that may go wrong once: the audit trail stays true, a settled event is final unless it was contended for, and the workers implement `EventLifecycle` |
| `solo` | 1 worker, 2 messages of one event, 1 error, 1 crash, fair | `DeletedOnlySettled`, `TableOneOutcomeBehind`, `EveryMessageResolved` | no message is dropped or circulates for ever; through crashes the breaker table stays at most one outcome behind the worker |
| `breaker_solo` | 1 worker, 3 events (one unreadable) and a poison message, 4 receives each, no errors | `BreakerTracksEndpoint`, `NoProbeLeftBehind`, `GivesUpOnlyAfterFailures` | the breaker's count and mode are what the endpoint's answers make them, and so is the end of an event |
| `breaker_clock` | the default configuration, 260 s in steps of 13, 7 failures, lost outcomes | `HoldsOff`, `NotBeforeNextRetry`, `RefusedAgainOnlyAfterProbe`, `BackoffIsExponential` | breaker, backoff, jitter and visibility timeouts fit together |
| `ingest` | 2 requests, 2 keys, 2 reconcilers, page of 2, 2 errors, 1 crash, 1 expiry, fair | `TypeOK`, `OneEventPerKey`, `QueuedHasEvent`, `AcceptedIsQueued`, `MarkerClearedAfterSend`, `EveryOrphanRequeued` | what a client and the worker may rely on, and that failing and overlapping reconcilers lose no event |
| `configs` | 3 posts, 3 instants, 2 errors, gets at any time | `TypeOK`, `CreatedAtKept`, `RotationTakesEffect` | racing and failing posts neither move `created_at` past the first confirmation nor undo a rotation |
| `relay` | 1 request, 1 worker, 1 reconciler, 1 operator, 2 messages of 2 receives, 1 error and 1 crash of the API, 1 error of the worker, threshold 1, fair | `RemovedWasReplayed`, `AcceptedNotLost`, `EveryEventDealtWith` | from the request to the replay, refusals by the breaker included: an accepted event is not lost, by no replay either, and is settled or dead-lettered in the end |

`pair` has everything that disturbs an event, `solo` what is promised of messages:
with stale reads neither `DeletedOnlySettled` nor `AcceptedNotLost` hold (see
`find_lost`). `SettledIsUntouched` exempts contended events, of which
`find_terminal` shows what may become. `BreakerTracksEndpoint` and
`NoProbeLeftBehind` need that no call fails (see `find_probe`). `CacheNeverAhead` and
`TableOneOutcomeBehind` speak of the time until a call fails: after a failed put the
code keeps a version the table has not reached, and its later puts are refused
until the process ends. `TableOneOutcomeBehind` says what is left of the promise
`find_persisted` shows broken. `RefusedAgainOnlyAfterProbe` cannot say that a
message is never refused twice: another message's probe may fail in between and open
the breaker again; it says that nothing else costs a second receive.
`CreatedAtKept` speaks of histories without a misread, and `EveryOrphanRequeued` is
checked with a page that has room (below). Deadlock checking is off for the worker,
the relay, the configuration API and the clock, which stop when all is done or the
last instant is reached, and on for `Ingestion`, whose reconciler always runs.

## Where code and documentation disagree

Each of these runs has one property, which says what the documentation says, and
a short counterexample.

| run | property | what happens |
|---|---|---|
| `find_terminal` | `TerminalIsFinal` | of two workers on one event, the slower overwrites `delivered` with its own verdict |
| `find_persisted` | `BreakerPersisted` | the outcome's put carries the version from before the gate's put and is refused: what the worker learned from the answer never reaches the table before the next gate |
| `find_probe` | `NoProbeLeftBehind` | an error between the probe and its outcome leaves the breaker half-open, refusing everything |
| `find_duplicate` | `RetryOf500IsSafe` | the retry of a 500 is a duplicate of an event that was not stored |
| `find_lost` | `AcceptedNotLost` | the worker does not find an event that is not replicated yet and deletes its only message |

`PROJECT.json` quotes the line each contradicts. For `find_terminal` two workers
at work on one message need no error: a batch of ten is hidden for 30 s from its
receive (`min_visibility`), and one request may take 30 s. For `find_lost` neither:
the worker only has to be faster than the replication of one item.

Other differences met while modelling, not run as properties of their own:

* `services/reconcile.rs:30` skips events the worker has touched and leaves their
  marker; a full page of them hides every event behind it from all later runs
  (`RECONCILE_LIMIT` is 25), although `reconcile.rs:12` says it re-enqueues orphaned
  events older than `min_age_secs`. The run `ingest` has room for every marked event.
* `services/events.rs:142` queries markers only. A handler killed between
  `create_event` and `enqueue_event`, or whose `mark_event_orphaned` fails, leaves an
  event nobody looks for; `handlers/webhook.rs:215` speaks of a job that scans for
  persisted-but-not-enqueued events.
* `main.rs:426` logs "breaker version conflict; refreshing cached breaker state from
  DynamoDB", and `docs/ENGINEER_2_TIMELINE.md:297` has the state refreshed "during
  processing": no conflict is ever recognised (see [Worker](#worker)), and a cached
  state is not read again before the process ends. A worker whose puts were refused
  goes on counting its version up and, once it meets the table's, writes over what
  another worker stored.
* `docs/customer-guide.md:163` promises exactly-once delivery. A crash or an error
  after the 2xx and before the status is written repeats the request (`AuditTrail`
  allows for it). What holds is `OneDeliveredPerKey`: one event per key.
* `docs/customer-guide.md:107` says new deliveries use the new secret at once; the
  worker reads the configuration eventually consistently. For the same reason an
  event accepted right after a customer's first post can be failed for good for a
  missing configuration.
* `docs/api-spec.yaml:192` calls `created_at` the time the configuration was first
  created. A read that fails, or is stale, sets it to now (`handlers/config.rs:78`);
  posts that race may both see none. `CreatedAtKept` says what is left of it.
  `updated_at` may go back when posts race.
* A post answered with 500 may have stored its item, with a generated secret its
  caller was never told. `docs/api-spec.yaml:377` says the secret cannot be retrieved
  again; `get_config` returns it.
* `docs/CONTRACT_CONFIRMATION_LIST.md:27` ends retries at `attempt_count >=
  max_retries` of the event. The code ends them by the endpoint's
  `consecutive_failures` and never reads `max_retries` (`GivesUpOnlyAfterFailures`;
  `docs/retry-behavior.md:47` knows of it).
* `docs/runbook.md:114` retries failed events by replaying the dead-letter queue. The
  message of a failed event is deleted, so that there is none to replay; and a
  replayed message of a settled event is skipped.
* `scripts/dlq_ops.sh:306` marks a replay as an SQS message attribute, `main.rs:329`
  looks for it in the body: replays are never counted.

## Bounds

`MaxReceiveCount`, `BatchSize`, `RetryAttempts`, `FailureThreshold` and the delays
are parameters of the code, given small values that keep their order: the
threshold and the retries are 2 (5 and 5 in the code), backoff 1 then 2 ticks,
recovery 2, visibility 1 to 3. `MaxFaults` and `MaxCrashes` bound errors and
crashes: every place where one can happen is covered, and every pair of places in
`ingest` and `configs`; `MaxRequests` and `MaxExpiries` bound the ingestion runs.
Two requests are enough for every way a key can be contended (a retry, a
concurrent request, one after the expiry). What makes an event's story
interesting - a second delivery overlapping the first, a retry, a refusal by the
breaker, a probe, the last receive - fits into two or three receives. Three posts
are what a rotation needs: one before, one that rotates, one that races with
either. In `relay` two messages per event (`MaxSends`) are a first one and one more,
by the reconciler or by a replay; the operator may stop after each call. Its
worker may fail once but does not crash, since `pair` and `solo` do that, and its
threshold and retries are 1, so that one failure and one error are enough for the
breaker to refuse a message; `AcceptedNotLost` is proved for all of it. The clock
of `breaker_clock` runs through four recovery timeouts and its seven failures reach
the longest backoff and two failed probes; its steps of 13 s divide neither the
recovery timeout nor the visibility timeouts, so that messages come up just before
and just after the instants that matter (the theorems are for any step). The theorems below have no bounds at all: `MaxFaults`,
`MaxCrashes`, the sets and the numbers are arbitrary there.

## Fairness

`Worker`: `WF` of `Receive` and of `Work` per worker (`run` loops for ever and a
batch is processed to its end), of `Redrive` (SQS does it when the message comes
up again) and of `Tick`. Nothing of `Crash`, `PutConfig` or errors.
`Ingestion`: `WF` of each call of a request that was received (a killed one is
done), of `Propagate` (the index catches up eventually), of `Age` (time) and of
each reconciler: `ingestion/README.md` section 14 calls it a scheduled job
entrypoint, and without running it again and again nothing is promised.
`Relay`: the same conditions on the steps of the composition; nothing is assumed
of operators, who may never replay, nor of clients. `ConfigStore` has no liveness.

## The proofs

All theorems are of the form `Spec => []P` or `Spec => [][A]_vars` and hold for
all values of the constants that satisfy the named assumptions (`WorkerAssumption`,
`NoItemAssumption`, `ResilienceConfig`, `IngestionAssumption`, `ConfigAssumption`,
`RelayAssumption`): any number of workers, events, customers, messages, requests,
keys, reconcilers, posts, operators, errors and crashes. Where a theorem needs more,
its statement says so; [hypotheses](#hypotheses) below says why.

| theorem | property | argument |
|---|---|---|
| `Worker_proofs!TypeCorrect` | `TypeOK` | inductive as it stands; lemmas give the types of what `Resilience` returns |
| `WorkerSafety_proofs!AuditTrailHolds` | `AuditTrail` | `AuditInv` adds that a worker's copy never counts more attempts than there are rows (its count was read from the item or follows its own row), and that a worker about to write a row has sent a request more than its copy counts; what a stale read returns is covered too |
| `WorkerSafety_proofs!DeletedOnlySettledHolds` | `DeletedOnlySettled` | `DeleteInv` adds what a worker knows when it is about to delete: the event was absent, unreadable or settled, and an event that was absent when its message was read never appears (`InHandSent`); assumes `~ReadLag` |
| `WorkerSafety_proofs!DeliveredOnlyIfAckedHolds` | `DeliveredOnlyIfAcked` | `AckInv` carries the 2xx from the answer, through the policy and the copy, to the item |
| `WorkerSafety_proofs!SettledIsUntouchedHolds` | `SettledIsUntouched` | `LifecycleInv`: two workers at one event, or one with an older version of it, are seen as contention (`ContentionSeen`); of an event nobody contended for, the item is pending while a worker's outcome is not yet written, and counts the attempts the worker's copy says (`AloneAgrees`) |
| `WorkerSafety_proofs!LifecycleImplemented` | `ImplementsLifecycle` | from the same invariant, action by action: only storing, counting and the final update change an item; alone they map to `Create`, `Attempt`, `Deliver` and `Fail` of `EventLifecycle`, contended to `Recount` and `Overwrite`, taking an event up to `Contend`, all else to a stutter; `CountedInv` gives that a copy about to be written as delivered belongs to an item with an attempt |
| `WorkerBreaker_proofs!CacheNeverAheadHolds` | `CacheNeverAhead` | `VersionsBehind` (part of `CacheInv`): neither a cache nor the copy in hand carries a version above the table's, until a call fails |
| `WorkerBreaker_proofs!TableOneOutcomeBehindHolds` | `TableOneOutcomeBehind` | `TableInv` follows the copy of the breaker state: after the gate's put the cache is what the table holds (`CopyBehind`), the outcome changes it once and its put is refused, and the next gate is accepted again (`CacheBehind`); one worker, any number of crashes, until a call fails |
| `WorkerBreaker_proofs!BreakerTracksEndpointHolds` | `BreakerTracksEndpoint` | `BreakerInv` follows the copy through the gate, the answer and the outcome: before the gate it `Tracks` the endpoint's failures, between gate and outcome it is what the gate `Passed`, afterwards it tracks them again; the cache tracks them whenever no request of that customer is under way; one worker, until a call fails or the process dies |
| `WorkerBreaker_proofs!NoProbeLeftBehindHolds` | `NoProbeLeftBehind` | from `BreakerInv`, under the same hypotheses |
| `WorkerBreaker_proofs!GivesUpOnlyAfterFailuresHolds` | `GivesUpOnlyAfterFailures` | from `BreakerInv`: the count the decision reads is the endpoint's; the same hypotheses, with no errors and crashes at all |
| `BreakerClock_proofs!HoldsOffHolds` | `HoldsOff` | `ClockInv`: an open breaker has no request out and a probe due one recovery timeout after it opened; a half-open one let its probe through no earlier, whether or not its outcome will ever be reported |
| `BreakerClock_proofs!NotBeforeNextRetryHolds` | `NotBeforeNextRetry` | every delay the worker chooses is at most `BackoffMax + JitterMax` or `RecoveryTimeout`, and a visibility timeout is shorter than its delay only when it is cut off; assumes `DelaysFit` |
| `BreakerClock_proofs!RefusedAgainOnlyAfterProbeHolds` | `RefusedAgainOnlyAfterProbe` | `RefusalInv`: while no probe was let through since the refusal, the breaker is still open and its probe is due by the time the message comes up; assumes `DelaysFit` |
| `BreakerClock_proofs!BackoffNeverShrinks` | | the delay never shrinks with the failures and stays in `1..BackoffMax`, for every base, multiplier and maximum |
| `BreakerClock_proofs!BackoffIsExponentialHolds` | `BackoffIsExponential` | the capped loop equals the capped power (`BackoffCapped`): once both are over the maximum, multiplying by at least 1 keeps them there; assumes `PowersMultiply` |
| `Ingestion_proofs!TypeCorrect` | `TypeOK` | split into tables, handlers, reconcilers |
| `IngestionSafety_proofs!QueuedHasEventHolds` | `QueuedHasEvent` | `QueuedInv`: everything that leads to an enqueue - handlers past `create_event`, markers, index entries, pages - names stored events |
| `IngestionSafety_proofs!MarkerClearedAfterSendHolds` | `MarkerClearedAfterSend` | `MarkerInv`: a reconciler about to clear has sent |
| `IngestionSafety_proofs!OneEventPerKeyHolds` | `OneEventPerKey` | `WinnerInv`: a request that won its key in the current TTL period has its record in the table, and two winners of a key have different periods |
| `IngestionSafety_proofs!AcceptedIsQueuedHolds` | `AcceptedIsQueued` | inductive with `TypeOK` |
| `ConfigStore_proofs!ConfigTypeInvariant` | `TypeOK` | inductive as it stands |
| `ConfigStore_proofs!CreatedAtIsKept` | `CreatedAtKept` | `CreatedAtInv`: nothing stored lies in the future, an item never disappears, and without a misread a post about to put carries a `created_at` no later than any confirmation |
| `ConfigStore_proofs!RotationHolds` | `RotationTakesEffect` | `RotationInv`: a post that was over before another came in puts nothing any more |
| `Relay_proofs!RelayRunsWorker` | `RelaySpec => Spec` | each step of the API or of an operator is one of `StoreEvent`, `Enqueue`, `RemoveFromDlq` or leaves the worker's variables alone |
| `Relay_proofs!RelayImplementsIngestion` | `RelaySpec => I!Spec` | a worker's step is `Touch` or a stutter, which needs that it only works on an event a message was sent for (`InHandSent`, `RelayInv`) |
| `Relay_proofs!RemovedWasReplayedHolds` | `RemovedWasReplayed` | `RelayInv`: what a run of the script is about to delete was copied to a later message, which was sent |
| `Relay_proofs!AcceptedNotLostHolds` | `AcceptedNotLost` | the last message sent for an event is never removed by an operator, for removing follows a later copy (`RelayInv`); so it is alive or was deleted by a worker, and then `DeletedOnlySettledHolds`, `AcceptedIsQueuedHolds` and `QueuedHasEventHolds` - inherited through the two refinements - say that the event is settled; assumes `~ReadLag` |
| `Relay_proofs!RelayAuditHolds`, `!RelayImplementsLifecycle` | `AuditTrail` and `DeliveredOnlyIfAcked`, `ImplementsLifecycle` | inherited from the worker through `RelayRunsWorker`, for any number of workers and with stale reads |
| `Relay_proofs!OneDeliveredPerKeyHolds` | `OneDeliveredPerKey` | `OneEventPerKey` of `Ingestion`, and a request is only posted for a stored event (`PostedExists`) |

`RelayInv` is the heart of the composition: a message is unsent exactly when its
number is larger than the number of messages sent for its event, the messages in
an operator's hands were sent, and a copied message is not the last of its event.

`OneDeliveredPerKey` is stated as a theorem only: it needs two requests with one
key carried through to the worker, which makes a large instance of `Relay`; both
halves it follows from are model-checked or proved on their own.

### Hypotheses

* `~ReadLag` (current reads of events), in `DeletedOnlySettledHolds` and
  `AcceptedNotLostHolds`: `find_lost` shows a message deleted because its event was
  not visible yet.
* `OneWorker` (`\A v, w \in Workers : v = w`), in the theorems about the breaker
  except `CacheNeverAheadHolds`: two workers race for the put, and what one learned
  from its request the other does not see. Everything about events and messages is
  proved for any number of workers.
* "Until a call fails or the process dies" (`faults = 0`, `crashes = 0`) is in the
  formula, not among the hypotheses: the theorems speak of every behaviour up to
  there. `find_probe` shows what an error does afterwards.
* `MaxFaults = 0` and `MaxCrashes = 0` in `GivesUpOnlyAfterFailuresHolds`: as an action
  property it has no room for a condition on the history.
* `FailureThreshold > 0`: with 0 the first success would leave a breaker closed that
  counts as many failures as the threshold. The default is 5.
* `DelaysFit`: no delay is cut off by `max_visibility` or by the 43200 s of SQS. The
  default configuration satisfies it.
* `PowersMultiply` is not about the program: `k ^ 0 = 1` and `k ^ (n + 1) = k ^ n * k`,
  which the provers do not know of `^`. The multiplier is positive, for the loop
  takes 0 for 1 (`max(1)`).

### Induction

The induction over the passes of `exponential_backoff_secs` is done with sets: the
numbers for which a statement fails would have a smallest member (`Smallest`, from
`WFMin` and `NatLessThanWellFounded`), which `0` cannot be and whose predecessor
would fail, too. In the same way `BackoffRecursion` shows that the equation that
defines `BackoffLoop` has a solution, from prefixes of it that agree.

### Only model-checked

Liveness: `EveryMessageResolved`, `EveryOrphanRequeued`, `EveryEventDealtWith`. The
proof system has no reasoning about fairness and `ENABLED`. Every other property of
a passing run is stated by a theorem.

## Not modelled

* Request validation and signatures: pure functions on text and bytes.
* Observability: output that no part of the program reads.
* A configuration or breaker item that does not parse: no program of the repository
  writes one. (An event that does not parse is modelled, `Unreadable`.)
* Retention periods of the queues (4 and 14 days) and the 30-day TTL of events.
  Past them messages and events are lost by design.
* `MODE=inspect` and `DRY_RUN=true` of `dlq_ops.sh`: they only read and print.
* Start-up: environment variables, clients, routes.
* Deployment, monitoring, load tests.

## The plan

In this order:

1. (done) `Resilience`, `Worker`, `EventLifecycle`, `BreakerClock`; type
   correctness and the three safety invariants that hold with any number of workers.
2. (done) `Ingestion`; type correctness and its safety properties.
3. (done) Stale reads, errors by class and unreadable events in `Worker`, proofs
   included.
4. (done) `ConfigStore`; its three properties as theorems.
5. (done) `Relay`: API, workers and replay composed; the two refinements, and what
   follows from both together, as theorems.
6. (done) Any number of workers implement `EventLifecycle`; the breaker's cache; the
   breaker of one worker and what its table holds; the clock and the backoff for every configuration; as theorems.
7. Two requests in a run of `Relay`, if symmetry or a coarser worker makes it small
   enough; the worker's read of a configuration joined with `ConfigStore`.
