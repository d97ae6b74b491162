------------------------------ MODULE Ingestion ------------------------------
(***************************************************************************)
(* The ingestion side (ingestion/src): any number of concurrent runs of     *)
(* receive_webhook against the idempotency table, the events table and the  *)
(* queue, and the reconciler that re-enqueues orphaned events.              *)
(*                                                                         *)
(* As in Worker, an action is one call to DynamoDB or SQS with what follows *)
(* up to the next one; a call may return an error with or without having    *)
(* taken effect, and a run may end anywhere (a Lambda timeout, a killed     *)
(* process).  Requests are numbered in the order they arrive; the number    *)
(* also stands for the event_id generated for the request and for its       *)
(* created_at.                                                              *)
(***************************************************************************)
EXTENDS Integers, FiniteSets

CONSTANTS
    Keys,           \* idempotency keys
    Reconcilers,    \* runs of reconcile_orphaned that may overlap
    Limit,          \* RECONCILE_LIMIT (25)
    MaxRequests,    \* bound: requests received
    MaxFaults,      \* bound: calls that return an error
    MaxCrashes,     \* bound: handlers and reconcilers that end half-way
    MaxExpiries     \* bound: idempotency records removed by their TTL

ASSUME IngestionAssumption ==
    /\ Limit \in Nat \ {0}
    /\ MaxRequests \in Nat /\ MaxFaults \in Nat
    /\ MaxCrashes \in Nat /\ MaxExpiries \in Nat

Requests == 1..MaxRequests
NoEvent  == 0

VARIABLES
    (* DynamoDB *)
    idempotency, \* the event_id recorded for each key
    events,      \* webhook_events, sk=v0
    orphaned,    \* events whose item carries gsi1pk = ORPHANED
    index,       \* gsi1-retry-index: what it shows of each event
    (* SQS *)
    sent,        \* events a message was ever enqueued for
    (* each run of receive_webhook *)
    started,     \* requests received so far
    pc, key,     \* its next call, its idempotency_key
    answer,      \* what the client was told
    (* each run of reconcile_orphaned_events *)
    rpc, todo,   \* its next call, the events it still has to re-enqueue
    aged,        \* requests up to this one are older than min_age_secs
    (* bounds *)
    faults, crashes,
    (* history, read by properties only *)
    window,      \* the TTL period of its key in which a request was checked
    period       \* the current TTL period of each key

handlers    == <<started, pc, key, answer, window>>
reconcilers == <<rpc, todo>>
vars == <<idempotency, events, orphaned, index, sent, handlers, reconcilers,
          aged, faults, crashes, period>>

-----------------------------------------------------------------------------
(* Data *)

(* An event's item, as far as the reconciler tells it apart: pending with   *)
(* no attempt counted, or already touched by the worker.                    *)
Item == {"absent", "pending", "touched"}

(* What the index shows when it has caught up with the table.               *)
IndexEntry(r) == IF r \in orphaned THEN events[r] ELSE "absent"

Stored(r) == events[r] # "absent"

NoAnswer == [code |-> 0, event_id |-> NoEvent]
Answer   == [code : {0, 200, 202, 404, 422, 500}, event_id : Requests \cup {NoEvent}]

HandlerSteps == {"new", "check_and_record", "get_existing_event_id",
                 "create_event", "enqueue_event", "mark_event_orphaned", "done"}
ReconcilerSteps == {"fetch", "enqueue_event", "clear_orphaned_marker"}

Init ==
    /\ idempotency = [k \in Keys |-> NoEvent]
    /\ events = [r \in Requests |-> "absent"]
    /\ orphaned = {} /\ sent = {}
    /\ index = [r \in Requests |-> "absent"]
    /\ started = 0 /\ aged = 0
    /\ pc = [r \in Requests |-> "new"]
    /\ key \in [Requests -> Keys]
    /\ answer = [r \in Requests |-> NoAnswer]
    /\ rpc = [p \in Reconcilers |-> "fetch"]
    /\ todo = [p \in Reconcilers |-> {}]
    /\ faults = 0 /\ crashes = 0
    /\ window = [r \in Requests |-> 0]
    /\ period = [k \in Keys |-> 0]

-----------------------------------------------------------------------------
(* receive_webhook *)

GoTo(r, step) == pc' = [pc EXCEPT ![r] = step] /\ UNCHANGED answer

Respond(r, code, event_id) ==
    /\ pc' = [pc EXCEPT ![r] = "done"]
    /\ answer' = [answer EXCEPT ![r] = [code |-> code, event_id |-> event_id]]

(* A call of this step returns an error.                                    *)
Fault == faults < MaxFaults /\ faults' = faults + 1

(* A request comes in and is validated.                                     *)
Start(r) ==
    /\ pc[r] = "new" /\ r = started + 1 /\ started' = r
    /\ GoTo(r, "check_and_record") \/ Respond(r, 422, NoEvent)
    /\ UNCHANGED <<idempotency, events, orphaned, index, sent, key, window,
                   reconcilers, aged, faults, crashes, period>>

(* The conditional put.  When the answer to it is lost the SDK sends it     *)
(* again, and the second finds the record of the first.  The condition, and *)
(* first the put without one:                                               *)
KeyAlwaysFree(k) == k \in Keys

KeyFree(k) == idempotency[k] = NoEvent

CheckAndRecord(r) ==
    LET k == key[r]
        Record == idempotency' = [idempotency EXCEPT ![k] = r]
    IN /\ pc[r] = "check_and_record"
       /\ \/ KeyFree(k) /\ Record /\ GoTo(r, "create_event") /\ UNCHANGED faults
          \/ /\ ~KeyFree(k) /\ GoTo(r, "get_existing_event_id")
             /\ UNCHANGED <<idempotency, faults>>
          \/ KeyFree(k) /\ Fault /\ Record /\ GoTo(r, "get_existing_event_id")
          \/ /\ Fault /\ Respond(r, 500, NoEvent)
             /\ (KeyFree(k) /\ Record) \/ UNCHANGED idempotency
       /\ window' = [window EXCEPT ![r] = period[k]]
       /\ UNCHANGED <<events, orphaned, index, sent, started, key, reconcilers,
                      aged, crashes, period>>

(* An eventually consistent read: the record found by the put may not be    *)
(* there yet, or no longer; that is answered with a 404.                    *)
GetExistingEventId(r) ==
    /\ pc[r] = "get_existing_event_id"
    /\ \/ /\ idempotency[key[r]] # NoEvent
          /\ Respond(r, 200, idempotency[key[r]]) /\ UNCHANGED faults
       \/ Respond(r, 404, NoEvent) /\ UNCHANGED faults
       \/ Fault /\ Respond(r, 500, NoEvent)
    /\ UNCHANGED <<idempotency, events, orphaned, index, sent, started, key,
                   window, reconcilers, aged, crashes, period>>

(* What the errors of the two writes lead to, and, first, what they would   *)
(* lead to if the early return were missing.                                *)
CreateErrorIgnored(r)  == GoTo(r, "enqueue_event")
EnqueueErrorIgnored(r) == Respond(r, 202, r)

CreateFailed(r)  == Respond(r, 500, NoEvent)
EnqueueFailed(r) == GoTo(r, "mark_event_orphaned")

CreateEvent(r) ==
    LET Put == events' = [events EXCEPT ![r] = "pending"]
    IN /\ pc[r] = "create_event"
       /\ \/ Put /\ GoTo(r, "enqueue_event") /\ UNCHANGED faults
          \/ Fault /\ CreateFailed(r) /\ (Put \/ UNCHANGED events)
       /\ UNCHANGED <<idempotency, orphaned, index, sent, started, key, window,
                      reconcilers, aged, crashes, period>>

EnqueueEvent(r) ==
    LET Send == sent' = sent \cup {r}
    IN /\ pc[r] = "enqueue_event"
       /\ \/ Send /\ Respond(r, 202, r) /\ UNCHANGED faults
          \/ Fault /\ EnqueueFailed(r) /\ (Send \/ UNCHANGED sent)
       /\ UNCHANGED <<idempotency, events, orphaned, index, started, key, window,
                      reconcilers, aged, crashes, period>>

(* A failure to mark the event is only logged.                              *)
MarkEventOrphaned(r) ==
    LET Mark == orphaned' = orphaned \cup {r}
    IN /\ pc[r] = "mark_event_orphaned"
       /\ Respond(r, 500, NoEvent)
       /\ \/ Mark /\ UNCHANGED faults
          \/ Fault /\ (Mark \/ UNCHANGED orphaned)
       /\ UNCHANGED <<idempotency, events, index, sent, started, key, window,
                      reconcilers, aged, crashes, period>>

CrashHandler(r) ==
    /\ pc[r] \notin {"new", "done"}
    /\ crashes < MaxCrashes /\ crashes' = crashes + 1
    /\ GoTo(r, "done")
    /\ UNCHANGED <<idempotency, events, orphaned, index, sent, started, key,
                   window, reconcilers, aged, faults, period>>

-----------------------------------------------------------------------------
(* reconcile_orphaned_events *)

(* The filters of the query and of the loop.                                *)
UpToCutoff(r)   == r <= aged
Eligible(entry) == entry = "pending"

(* The first Limit entries of the index up to the cutoff, oldest first; of  *)
(* those, the loop skips the ones the worker has touched.                   *)
Page ==
    LET due == {r \in Requests : index[r] # "absent" /\ UpToCutoff(r)}
    IN {r \in due : Cardinality({q \in due : q <= r}) <= Limit}

FetchOrphanedEvents(p) ==
    /\ rpc[p] = "fetch"
    /\ todo' = [todo EXCEPT ![p] = {r \in Page : Eligible(index[r])}]
    /\ rpc' = [rpc EXCEPT ![p] = IF todo'[p] = {} THEN "fetch" ELSE "enqueue_event"]
    /\ UNCHANGED <<idempotency, events, orphaned, index, sent, handlers, aged,
                   faults, crashes, period>>

(* The event at hand.                                                       *)
Current(p, r) == r \in todo[p] /\ \A q \in todo[p] : r <= q

(* A run that ends, at its end or because a call failed; and one that would *)
(* keep its page for the next run.                                          *)
EndRunKeepsPage(p) == rpc' = [rpc EXCEPT ![p] = "fetch"] /\ UNCHANGED todo
EndRun(p) == rpc' = [rpc EXCEPT ![p] = "fetch"] /\ todo' = [todo EXCEPT ![p] = {}]

(* An error of enqueue_event ends the run; and if it did not.               *)
RequeueErrorIgnored(p) ==
    rpc' = [rpc EXCEPT ![p] = "clear_orphaned_marker"] /\ UNCHANGED todo
RequeueFailed(p) == EndRun(p)

Requeue(p, r) ==
    LET Send == sent' = sent \cup {r}
    IN /\ rpc[p] = "enqueue_event" /\ Current(p, r)
       /\ \/ /\ Send /\ rpc' = [rpc EXCEPT ![p] = "clear_orphaned_marker"]
             /\ UNCHANGED <<todo, faults>>
          \/ Fault /\ RequeueFailed(p) /\ (Send \/ UNCHANGED sent)
       /\ UNCHANGED <<idempotency, events, orphaned, index, handlers, aged,
                      crashes, period>>

ClearOrphanedMarker(p, r) ==
    LET Clear == orphaned' = orphaned \ {r}
    IN /\ rpc[p] = "clear_orphaned_marker" /\ Current(p, r)
       /\ \/ /\ Clear /\ todo' = [todo EXCEPT ![p] = @ \ {r}]
             /\ rpc' = [rpc EXCEPT ![p] =
                  IF todo'[p] = {} THEN "fetch" ELSE "enqueue_event"]
             /\ UNCHANGED faults
          \/ Fault /\ EndRun(p) /\ (Clear \/ UNCHANGED orphaned)
       /\ UNCHANGED <<idempotency, events, index, sent, handlers, aged,
                      crashes, period>>

CrashReconciler(p) ==
    /\ rpc[p] # "fetch"
    /\ crashes < MaxCrashes /\ crashes' = crashes + 1
    /\ EndRun(p)
    /\ UNCHANGED <<idempotency, events, orphaned, index, sent, handlers, aged,
                   faults, period>>

-----------------------------------------------------------------------------
(* The environment *)

(* The worker counts an attempt of an event or settles it; a second worker  *)
(* may put an event that was settled without an attempt back to pending.    *)
Touch(r) ==
    /\ r \in sent /\ Stored(r)
    /\ \E item \in {"pending", "touched"} \ {events[r]} :
         events' = [events EXCEPT ![r] = item]
    /\ UNCHANGED <<idempotency, orphaned, index, sent, handlers, reconcilers,
                   aged, faults, crashes, period>>

(* The index catches up with an item.                                       *)
Propagate(r) ==
    /\ index[r] # IndexEntry(r)
    /\ index' = [index EXCEPT ![r] = IndexEntry(r)]
    /\ UNCHANGED <<idempotency, events, orphaned, sent, handlers, reconcilers,
                   aged, faults, crashes, period>>

(* An event gets older than min_age_secs (120s), which is longer than the   *)
(* request that created it may take (30s).                                  *)
Age ==
    /\ aged < started /\ pc[aged + 1] = "done"
    /\ aged' = aged + 1
    /\ UNCHANGED <<idempotency, events, orphaned, index, sent, handlers,
                   reconcilers, faults, crashes, period>>

(* The TTL removes the record of a key.                                     *)
Expire(k) ==
    /\ idempotency[k] # NoEvent /\ period[k] < MaxExpiries
    /\ idempotency' = [idempotency EXCEPT ![k] = NoEvent]
    /\ period' = [period EXCEPT ![k] = @ + 1]
    /\ UNCHANGED <<events, orphaned, index, sent, handlers, reconcilers, aged,
                   faults, crashes>>

-----------------------------------------------------------------------------
Handle(r) ==
    \/ Start(r) \/ CheckAndRecord(r) \/ GetExistingEventId(r)
    \/ CreateEvent(r) \/ EnqueueEvent(r) \/ MarkEventOrphaned(r)

Reconcile(p) ==
    \/ FetchOrphanedEvents(p)
    \/ \E r \in Requests : Requeue(p, r) \/ ClearOrphanedMarker(p, r)

Next ==
    \/ \E r \in Requests : Handle(r) \/ CrashHandler(r) \/ Touch(r) \/ Propagate(r)
    \/ \E p \in Reconcilers : Reconcile(p) \/ CrashReconciler(p)
    \/ \E k \in Keys : Expire(k)
    \/ Age

Spec == Init /\ [][Next]_vars

(* A request that was received is handled or killed, the reconciler is run  *)
(* again and again as a scheduled job, the index catches up, events age.    *)
Fairness ==
    /\ \A r \in Requests :
         /\ WF_vars(pc[r] # "new" /\ Handle(r))
         /\ WF_vars(Propagate(r))
    /\ \A p \in Reconcilers : WF_vars(Reconcile(p))
    /\ WF_vars(Age)

FairSpec == Spec /\ Fairness

-----------------------------------------------------------------------------
(* Properties *)

(* Every variable holds what the code's types allow, and requests are taken *)
(* up in the order of their numbers.                                        *)
TypeOK ==
    /\ idempotency \in [Keys -> Requests \cup {NoEvent}]
    /\ events \in [Requests -> Item]
    /\ index \in [Requests -> Item]
    /\ orphaned \subseteq Requests /\ sent \subseteq Requests
    /\ started \in 0..MaxRequests /\ aged \in 0..started
    /\ pc \in [Requests -> HandlerSteps]
    /\ \A r \in Requests : pc[r] = "new" <=> r > started
    /\ key \in [Requests -> Keys]
    /\ answer \in [Requests -> Answer]
    /\ rpc \in [Reconcilers -> ReconcilerSteps]
    /\ todo \in [Reconcilers -> SUBSET Requests]
    /\ \A p \in Reconcilers : rpc[p] = "fetch" <=> todo[p] = {}
    /\ faults \in Nat /\ crashes \in Nat
    /\ window \in [Requests -> Nat] /\ period \in [Keys -> Nat]

(* Within the life of an idempotency record, at most one event is stored    *)
(* for its key, however many requests carry the key at the same time, fail  *)
(* or are retried (idempotency.rs 98-124).                                  *)
OneEventPerKey ==
    \A r, q \in Requests :
        r # q /\ key[r] = key[q] /\ window[r] = window[q] =>
            ~(Stored(r) /\ Stored(q))

(* A message never precedes its event: the worker deletes a message whose   *)
(* event it does not find, so one sent too early would be lost (webhook.rs  *)
(* 183-207, reconcile.rs 26-37).                                            *)
QueuedHasEvent == \A r \in sent : Stored(r)

(* A request answered with 202 has been enqueued for delivery.              *)
AcceptedIsQueued == \A r \in Requests : answer[r].code = 202 => r \in sent

(* The orphan marker is only taken off an event that was enqueued, so that  *)
(* a reconciler that fails or dies half-way loses no event (reconcile.rs    *)
(* 34-35).                                                                  *)
MarkerClearedAfterSend ==
    [][\A r \in orphaned : r \notin orphaned' => r \in sent]_vars

(* An orphaned event is enqueued in the end, by some run of the reconciler  *)
(* (reconcile.rs 15-40).                                                    *)
EveryOrphanRequeued ==
    \A r \in Requests : (r \in orphaned) ~> (r \in sent)

(* A client that retries a 500 and is told the request was a duplicate can  *)
(* rely on the event it is given the id of.                                 *)
RetryOf500IsSafe ==
    \A r \in Requests :
        LET e == answer[r].event_id
        IN answer[r].code = 200 /\ answer[e].code = 500 => Stored(e)
=============================================================================
