-------------------------------- MODULE Relay --------------------------------
(***************************************************************************)
(* The whole relay: the ingestion API and its reconciler (Ingestion), the   *)
(* delivery workers (Worker), and operators who replay the dead-letter      *)
(* queue (scripts/dlq_ops.sh), over the same events table and queue.        *)
(*                                                                         *)
(* The tables and the queue are those of Worker; Ingestion is instantiated  *)
(* on what it sees of them.  A step of the API is a step of Ingestion       *)
(* together with what it does to the tables and the queue of Worker; a step *)
(* of a worker must be one that Ingestion expects of its environment.       *)
(***************************************************************************)
EXTENDS Worker

CONSTANTS
    Keys, Reconcilers, Limit, MaxRequests, MaxExpiries, \* as in Ingestion
    MaxApiFaults,   \* bound: calls of the API that return an error
    MaxApiCrashes,  \* bound: handlers and reconcilers that end half-way
    Operators,      \* runs of dlq_ops.sh that may overlap
    MaxSends        \* bound: messages sent for one event

ASSUME RelayAssumption ==
    /\ Limit \in Nat \ {0} /\ MaxRequests \in Nat /\ MaxExpiries \in Nat
    /\ MaxApiFaults \in Nat /\ MaxApiCrashes \in Nat /\ MaxSends \in Nat
    (* The n-th message sent for an event carries its id. *)
    /\ Events = 1..MaxRequests
    /\ Messages = Events \X (1..MaxSends)
    /\ EventOf = [m \in Messages |-> m[1]]
    (* What the API writes, the worker can parse. *)
    /\ Poison = {} /\ Unreadable = {}

VARIABLES
    idempotency, orphaned, index, started, handler, key, answer, rpc, todo,
    aged, api_faults, api_crashes, window, period, \* as in Ingestion
    sends,      \* messages sent for each event
    replays     \* each run of dlq_ops.sh

api       == <<idempotency, orphaned, index, started, handler, key, answer,
               rpc, todo, aged, api_faults, api_crashes, window, period>>
relayVars == <<vars, api, sends, replays>>

(* What the API sees of the events table and the queue.                     *)
ItemOf(item) ==
    IF item = NoItem THEN "absent"
    ELSE IF item.status = "pending" /\ item.attempt_count = 0 THEN "pending"
    ELSE "touched"

Items == [e \in Events |-> ItemOf(events[e])]
Queued == {e \in Events : sends[e] > 0}

I == INSTANCE Ingestion WITH
       events <- Items, sent <- Queued, pc <- handler,
       faults <- api_faults, crashes <- api_crashes,
       MaxFaults <- MaxApiFaults, MaxCrashes <- MaxApiCrashes

(* A run of dlq_ops.sh with MODE=replay: the messages still to be sent, the *)
(* one to be deleted next, and DELETE_AFTER_REPLAY.                         *)
Replay == [batch : SUBSET Messages, copied : Messages \cup {NoItem},
           delete_after_replay : BOOLEAN]

RelayInit ==
    /\ Init
    /\ sends = [e \in Events |-> 0]
    /\ replays = [o \in Operators |-> NoItem]
    /\ I!Init

-----------------------------------------------------------------------------
(* The API *)

(* The next message, by number, is sent for an event.                       *)
Send(e) ==
    /\ sends[e] < MaxSends
    /\ Enqueue(<<e, sends[e] + 1>>)
    /\ sends' = [sends EXCEPT ![e] = @ + 1]

SendNothing == UNCHANGED <<vars, sends>>
CallFails   == api_faults' # api_faults

StoreStep(r) ==
    /\ StoreEvent(r) \/ UNCHANGED vars
    /\ UNCHANGED sends
    /\ I!CreateEvent(r)

EnqueueStep(r) ==
    \/ Send(r) /\ I!EnqueueEvent(r)
    \/ SendNothing /\ I!EnqueueEvent(r) /\ CallFails

RequeueStep(p, r) ==
    \/ Send(r) /\ I!Requeue(p, r)
    \/ SendNothing /\ I!Requeue(p, r) /\ CallFails

(* The other steps touch neither an event's item nor the queue.             *)
HandleStep(r) ==
    /\ \/ StoreStep(r) \/ EnqueueStep(r)
       \/ /\ SendNothing
          /\ \/ I!Start(r) \/ I!CheckAndRecord(r) \/ I!GetExistingEventId(r)
             \/ I!MarkEventOrphaned(r)
    /\ UNCHANGED replays

ReconcileStep(p) ==
    /\ \/ \E r \in Events : RequeueStep(p, r)
       \/ /\ SendNothing
          /\ \/ I!FetchOrphanedEvents(p)
             \/ \E r \in Events : I!ClearOrphanedMarker(p, r)
    /\ UNCHANGED replays

PropagateStep(r) == SendNothing /\ I!Propagate(r) /\ UNCHANGED replays

AgeStep == SendNothing /\ I!Age /\ UNCHANGED replays

CrashOrExpiry ==
    /\ SendNothing /\ UNCHANGED replays
    /\ \/ \E r \in Events : I!CrashHandler(r)
       \/ \E p \in Reconcilers : I!CrashReconciler(p)
       \/ \E k \in Keys : I!Expire(k)

ApiStep ==
    \/ \E r \in Events : HandleStep(r) \/ PropagateStep(r)
    \/ \E p \in Reconcilers : ReconcileStep(p)
    \/ AgeStep \/ CrashOrExpiry

-----------------------------------------------------------------------------
(* The workers, and what SQS and DynamoDB do *)

Undisturbed == UNCHANGED <<api, sends, replays>>

WorkerStep == Serve /\ Undisturbed

-----------------------------------------------------------------------------
(* dlq_ops.sh *)

(* A batch is received, and the messages among it whose ids were given are  *)
(* selected.  They stay in the dead-letter queue.                           *)
Select(o) ==
    /\ replays[o] = NoItem
    /\ \E batch \in SUBSET {m \in Messages : queue[m].place = "dlq"},
          delete \in BOOLEAN :
         /\ batch # {}
         /\ replays' = [replays EXCEPT ![o] =
              [batch |-> batch, copied |-> NoItem, delete_after_replay |-> delete]]
    /\ UNCHANGED <<vars, api, sends>>

(* What a run is after it sent a copy of m.                                 *)
AfterCopy(run, m) ==
    [run EXCEPT !.batch = @ \ {m},
                !.copied = IF run.delete_after_replay THEN m ELSE NoItem]

(* set -e ends the run when the copy is not sent; and if it did not.        *)
CopyBackUnchecked(o) ==
    /\ replays[o] # NoItem /\ replays[o].copied = NoItem
    /\ \E m \in replays[o].batch :
         /\ Send(EventOf[m]) \/ SendNothing
         /\ replays' = [replays EXCEPT ![o] = AfterCopy(@, m)]
    /\ UNCHANGED api

CopyBack(o) ==
    /\ replays[o] # NoItem /\ replays[o].copied = NoItem
    /\ \E m \in replays[o].batch :
         /\ Send(EventOf[m])
         /\ replays' = [replays EXCEPT ![o] = AfterCopy(@, m)]
    /\ UNCHANGED api

(* Another run may have deleted it already.                                 *)
DeleteOriginal(o) ==
    /\ replays[o] # NoItem
    /\ LET m == replays[o].copied
       IN /\ m # NoItem
          /\ RemoveFromDlq(m) \/ (queue[m].place # "dlq" /\ UNCHANGED vars)
    /\ replays' = [replays EXCEPT ![o].copied = NoItem]
    /\ UNCHANGED <<api, sends>>

(* The script ends: at its end, at the first call that fails (set -e), or   *)
(* because it is interrupted.                                               *)
EndReplay(o) ==
    /\ replays[o] # NoItem
    /\ replays' = [replays EXCEPT ![o] = NoItem]
    /\ UNCHANGED <<vars, api, sends>>

OperatorStep ==
    \E o \in Operators : Select(o) \/ CopyBack(o) \/ DeleteOriginal(o) \/ EndReplay(o)

-----------------------------------------------------------------------------
RelayNext == ApiStep \/ WorkerStep \/ OperatorStep

RelaySpec == RelayInit /\ [][RelayNext]_relayVars

(* As in Worker and Ingestion; of the operators nothing is assumed.         *)
RelayFairness ==
    /\ \A w \in Workers :
         /\ WF_relayVars(Receive(w) /\ Undisturbed)
         /\ WF_relayVars(Work(w) /\ Undisturbed)
    /\ \A m \in Messages : WF_relayVars(Redrive(m) /\ Undisturbed)
    /\ WF_relayVars(Tick /\ Undisturbed)
    /\ \A r \in Events :
         /\ WF_relayVars(handler[r] # "new" /\ HandleStep(r))
         /\ WF_relayVars(PropagateStep(r))
    /\ \A p \in Reconcilers : WF_relayVars(ReconcileStep(p))
    /\ WF_relayVars(AgeStep)

FairRelaySpec == RelaySpec /\ RelayFairness

-----------------------------------------------------------------------------
(* Properties *)

(* A message is taken out of the dead-letter queue for good only when a     *)
(* later one was sent for its event, however runs of the script overlap and *)
(* wherever they end (dlq_ops.sh 297-326).                                  *)
RemovedWasReplayed ==
    \A m \in Messages :
        queue[m].place = "removed" =>
            \E n \in Messages :
                /\ EventOf[n] = EventOf[m] /\ n[2] > m[2]
                /\ queue[n].place # "unsent"

Alive(m) == queue[m].place \in {"queue", "dlq"}

(* An event whose acceptance was answered with 202 is not lost: until it is *)
(* delivered or failed, there is a message for it in the queue or in the    *)
(* dead-letter queue, whichever of the API, the reconciler, the workers and *)
(* the operators crash or fail, in whatever order they run (webhook.rs      *)
(* 183-260, main.rs 299-372, dlq_ops.sh 290-330).                           *)
AcceptedNotLost ==
    \A e \in Events :
        answer[e].code = 202 =>
            settled[e] \/ \E m \in Messages : EventOf[m] = e /\ Alive(m)

(* An event is dealt with: settled, or left to the operators.               *)
DealtWith(e) ==
    settled[e] \/ \E m \in Messages :
                     EventOf[m] = e /\ queue[m].place \in {"dlq", "removed"}

(* Every event that was accepted or marked as orphaned is dealt with in the *)
(* end, through the reconciler if need be (webhook.rs 183-260, reconcile.rs *)
(* 15-40, main.rs 299-372).                                                 *)
EveryEventDealtWith ==
    \A e \in Events :
        (answer[e].code = 202 \/ e \in orphaned) ~> DealtWith(e)

(* Of the requests that carry the same idempotency key within the life of   *)
(* its record, at most one reaches the customer's endpoint (idempotency.rs  *)
(* 98-124).                                                                 *)
OneDeliveredPerKey ==
    \A r, q \in Events :
        r # q /\ key[r] = key[q] /\ window[r] = window[q] =>
            ~(posts[r] > 0 /\ posts[q] > 0)
=============================================================================
