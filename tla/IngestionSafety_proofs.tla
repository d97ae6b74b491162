------------------------ MODULE IngestionSafety_proofs ------------------------
(***************************************************************************)
(* The safety properties of Ingestion, for any number of keys, requests and *)
(* reconcilers, and any number of failed calls, crashes and expiries.       *)
(***************************************************************************)
EXTENDS Ingestion_proofs

LEMMA RequestsAreNumbers == \A r \in Requests : r \in Nat /\ r # NoEvent
  BY IngestionAssumption DEF Requests, NoEvent

LEMMA TypeInvariant == Spec => []TypeOK
  BY TypeCorrect

-----------------------------------------------------------------------------
(* A message never precedes its event.  Whatever leads to an enqueue is     *)
(* known to be stored: the handler past create_event, the marked events,    *)
(* what the index shows of them and what a reconciler took from it.         *)

QueuedInv ==
    /\ \A r \in sent : Stored(r)
    /\ \A r \in orphaned : Stored(r)
    /\ \A r \in Requests : index[r] # "absent" => Stored(r)
    /\ \A p \in Reconcilers : \A r \in todo[p] : Stored(r)
    /\ \A r \in Requests :
          pc[r] \in {"enqueue_event", "mark_event_orphaned"} => Stored(r)

(* An event's item is never removed.                                        *)
LEMMA StoredStays ==
    ASSUME TypeOK, [Next]_vars, NEW r \in Requests, Stored(r)
    PROVE  Stored(r)'
<1>1. ASSUME NEW q \in Requests, CreateEvent(q)
      PROVE  Stored(r)'
  BY <1>1 DEF CreateEvent, TypeOK, Stored
<1>2. ASSUME NEW q \in Requests, Touch(q)
      PROVE  Stored(r)'
  BY <1>2 DEF Touch, TypeOK, Stored
<1>3. CASE UNCHANGED events
  BY <1>3 DEF Stored
<1> QED
  BY <1>1, <1>2, <1>3
  DEF Next, vars, Handle, Start, CheckAndRecord, GetExistingEventId,
      EnqueueEvent, MarkEventOrphaned, CrashHandler, Propagate, Reconcile,
      FetchOrphanedEvents, Requeue, ClearOrphanedMarker, CrashReconciler,
      Expire, Age

LEMMA QueuedNext == TypeOK /\ QueuedInv /\ [Next]_vars => QueuedInv'
<1> SUFFICES ASSUME TypeOK, QueuedInv, [Next]_vars
             PROVE  QueuedInv'
  OBVIOUS
<1> DEFINE Waits(r) == pc[r] \in {"enqueue_event", "mark_event_orphaned"}
           Kept == /\ sent' \subseteq sent
                   /\ orphaned' \subseteq orphaned
                   /\ UNCHANGED index
                   /\ \A p \in Reconcilers : todo'[p] \subseteq todo[p]
<1>1. \A r \in Requests : Stored(r) => Stored(r)'
  BY StoredStays
<1>2. /\ sent \subseteq Requests /\ orphaned \subseteq Requests
      /\ \A p \in Reconcilers : todo[p] \subseteq Requests
      /\ pc \in [Requests -> HandlerSteps]
  BY DEF TypeOK
<1>3. ASSUME Kept, \A r \in Requests : Waits(r)' => Waits(r)
      PROVE  QueuedInv'
  BY <1>1, <1>2, <1>3 DEF QueuedInv
<1>4. ASSUME NEW r \in Requests, CreateEvent(r)
      PROVE  QueuedInv'
  <2>1. Kept
    BY <1>4 DEF CreateEvent, reconcilers
  <2>2. \A q \in Requests \ {r} : Waits(q)' => Waits(q)
    BY <1>2, <1>4 DEF CreateEvent, CreateFailed, GoTo, Respond
  <2>3. Waits(r)' => Stored(r)'
    BY <1>2, <1>4 DEF CreateEvent, CreateFailed, GoTo, Respond, TypeOK, Stored
  <2> QED  BY <1>1, <1>2, <2>1, <2>2, <2>3 DEF QueuedInv
<1>5. ASSUME NEW r \in Requests, EnqueueEvent(r) \/ MarkEventOrphaned(r)
      PROVE  QueuedInv'
  <2>1. /\ Waits(r)
        /\ sent' \subseteq sent \cup {r} /\ orphaned' \subseteq orphaned \cup {r}
        /\ UNCHANGED <<index, todo>>
    BY <1>5 DEF EnqueueEvent, MarkEventOrphaned, reconcilers
  <2>2. \A q \in Requests : Waits(q)' => Waits(q)
    BY <1>2, <1>5, <2>1
    DEF EnqueueEvent, EnqueueFailed, MarkEventOrphaned, GoTo, Respond
  <2> QED  BY <1>1, <1>2, <2>1, <2>2 DEF QueuedInv
<1>6. ASSUME NEW r \in Requests,
             Start(r) \/ CheckAndRecord(r) \/ GetExistingEventId(r) \/ CrashHandler(r)
      PROVE  QueuedInv'
  <2>1. Kept
    BY <1>6 DEF Start, CheckAndRecord, GetExistingEventId, CrashHandler, reconcilers
  <2>2. \A q \in Requests : Waits(q)' => Waits(q)
    BY <1>2, <1>6
    DEF Start, CheckAndRecord, GetExistingEventId, CrashHandler, GoTo, Respond
  <2> QED  BY <1>3, <2>1, <2>2
<1>7. ASSUME NEW r \in Requests, Propagate(r)
      PROVE  QueuedInv'
  <2>1. IndexEntry(r) # "absent" => Stored(r)
    BY DEF IndexEntry, QueuedInv
  <2>2. \A q \in Requests : index'[q] # "absent" => Stored(q)
    BY <1>7, <2>1 DEF Propagate, QueuedInv, TypeOK
  <2> QED
    BY <1>1, <1>2, <1>7, <2>2 DEF Propagate, handlers, reconcilers, QueuedInv
<1>8. ASSUME NEW p \in Reconcilers, FetchOrphanedEvents(p)
      PROVE  QueuedInv'
  <2>1. \A r \in {q \in Page : Eligible(index[q])} : r \in Requests /\ Stored(r)
    BY DEF Page, QueuedInv
  <2>2. \A q \in Reconcilers : \A r \in todo'[q] : r \in Requests /\ Stored(r)
    BY <1>2, <1>8, <2>1 DEF FetchOrphanedEvents, QueuedInv, TypeOK
  <2> QED
    BY <1>1, <1>2, <1>8, <2>2 DEF FetchOrphanedEvents, handlers, QueuedInv
<1>9. ASSUME NEW p \in Reconcilers, NEW r \in Requests, Requeue(p, r)
      PROVE  QueuedInv'
  <2>1. /\ Stored(r) /\ sent' \subseteq sent \cup {r}
        /\ \A q \in Reconcilers : todo'[q] \subseteq todo[q]
    BY <1>9 DEF Requeue, RequeueFailed, EndRun, Current, QueuedInv, TypeOK
  <2> QED
    BY <1>1, <1>2, <1>9, <2>1 DEF Requeue, handlers, QueuedInv
<1>10. ASSUME NEW p \in Reconcilers, NEW r \in Requests, ClearOrphanedMarker(p, r)
       PROVE  QueuedInv'
  <2>1. Kept
    BY <1>10 DEF ClearOrphanedMarker, EndRun, TypeOK
  <2> QED  BY <1>3, <1>10, <2>1 DEF ClearOrphanedMarker, handlers
<1>11. ASSUME NEW p \in Reconcilers, CrashReconciler(p)
       PROVE  QueuedInv'
  <2>1. Kept
    BY <1>11 DEF CrashReconciler, EndRun, TypeOK
  <2> QED  BY <1>3, <1>11, <2>1 DEF CrashReconciler, handlers
<1>12. ASSUME \/ \E r \in Requests : Touch(r)
              \/ \E k \in Keys : Expire(k)
              \/ Age \/ UNCHANGED vars
       PROVE  QueuedInv'
  <2>1. Kept /\ UNCHANGED pc
    BY <1>12 DEF Touch, Expire, Age, vars, handlers, reconcilers
  <2> QED  BY <1>3, <2>1
<1> QED
  BY <1>4, <1>5, <1>6, <1>7, <1>8, <1>9, <1>10, <1>11, <1>12
  DEF Next, Handle, Reconcile

(* A message never precedes its event in the queue: neither the handler nor *)
(* the reconciler enqueues an event that create_event has not stored        *)
(* (webhook.rs 160-207, reconcile.rs 26-37).                                *)
THEOREM QueuedHasEventHolds == Spec => []QueuedHasEvent
<1>1. Init => QueuedInv
  BY DEF Init, QueuedInv, Stored
<1>2. QueuedInv => QueuedHasEvent
  BY DEF QueuedInv, QueuedHasEvent
<1> QED  BY <1>1, <1>2, QueuedNext, TypeInvariant, PTL DEF Spec

-----------------------------------------------------------------------------
(* The marker of an event is taken off after the event was enqueued: a      *)
(* reconciler about to take it off has just enqueued it.                    *)

MarkerInv ==
    \A p \in Reconcilers, r \in Requests :
        rpc[p] = "clear_orphaned_marker" /\ Current(p, r) => r \in sent

LEMMA CurrentIsOne ==
    ASSUME TypeOK, NEW p \in Reconcilers, NEW r \in Requests, NEW q \in Requests,
           Current(p, r), Current(p, q)
    PROVE  r = q
  BY RequestsAreNumbers DEF Current

LEMMA MarkerNext == TypeOK /\ MarkerInv /\ [Next]_vars => MarkerInv'
<1> SUFFICES ASSUME TypeOK, MarkerInv, [Next]_vars
             PROVE  MarkerInv'
  OBVIOUS
<1>1. /\ rpc \in [Reconcilers -> ReconcilerSteps]
      /\ todo \in [Reconcilers -> SUBSET Requests]
  BY DEF TypeOK
<1>2. ASSUME NEW p \in Reconcilers, sent \subseteq sent',
             \A q \in Reconcilers \ {p} : rpc'[q] = rpc[q] /\ todo'[q] = todo[q],
             rpc'[p] # "clear_orphaned_marker"
      PROVE  MarkerInv'
  BY <1>2 DEF MarkerInv, Current
<1>3. ASSUME NEW p \in Reconcilers, NEW r \in Requests, Requeue(p, r)
      PROVE  MarkerInv'
  <2>1. CASE RequeueFailed(p)
    <3>1. rpc'[p] # "clear_orphaned_marker" /\ sent \subseteq sent'
      BY <1>1, <1>3, <2>1 DEF Requeue, RequeueFailed, EndRun
    <3>2. \A q \in Reconcilers \ {p} : rpc'[q] = rpc[q] /\ todo'[q] = todo[q]
      BY <1>1, <2>1 DEF RequeueFailed, EndRun
    <3> QED  BY <1>2, <3>1, <3>2
  <2>2. CASE /\ sent' = sent \cup {r} /\ UNCHANGED todo
             /\ rpc' = [rpc EXCEPT ![p] = "clear_orphaned_marker"]
    <3>1. \A q \in Requests : Current(p, q) => q \in sent'
      BY <1>3, <2>2, CurrentIsOne DEF Requeue
    <3> QED  BY <1>1, <2>2, <3>1 DEF MarkerInv, Current
  <2> QED  BY <1>3, <2>1, <2>2 DEF Requeue
<1>4. ASSUME NEW p \in Reconcilers,
             \/ FetchOrphanedEvents(p) \/ CrashReconciler(p)
             \/ \E r \in Requests : ClearOrphanedMarker(p, r)
      PROVE  MarkerInv'
  <2>1. UNCHANGED sent /\ rpc'[p] # "clear_orphaned_marker"
    BY <1>1, <1>4
    DEF FetchOrphanedEvents, CrashReconciler, ClearOrphanedMarker, EndRun
  <2>2. \A q \in Reconcilers \ {p} : rpc'[q] = rpc[q] /\ todo'[q] = todo[q]
    BY <1>1, <1>4
    DEF FetchOrphanedEvents, CrashReconciler, ClearOrphanedMarker, EndRun
  <2> QED  BY <1>2, <2>1, <2>2
<1>5. ASSUME UNCHANGED reconcilers, sent \subseteq sent'
      PROVE  MarkerInv'
  BY <1>5 DEF MarkerInv, Current, reconcilers
<1> QED
  BY <1>3, <1>4, <1>5
  DEF Next, vars, Handle, Start, CheckAndRecord, GetExistingEventId, CreateEvent,
      EnqueueEvent, MarkEventOrphaned, CrashHandler, Touch, Propagate, Reconcile,
      Expire, Age

(* The orphan marker is only taken off an event that was enqueued           *)
(* (reconcile.rs 34-35), so that none is lost to a reconciler that fails or *)
(* dies in its loop.                                                        *)
THEOREM MarkerClearedAfterSendHolds == Spec => MarkerClearedAfterSend
<1>1. Init => MarkerInv
  BY DEF Init, MarkerInv
<1>2. ASSUME TypeOK, MarkerInv, [Next]_vars,
             NEW r \in orphaned, r \notin orphaned'
      PROVE  r \in sent
  <2>1. PICK p \in Reconcilers, q \in Requests : ClearOrphanedMarker(p, q)
    BY <1>2
    DEF Next, vars, Handle, Start, CheckAndRecord, GetExistingEventId, CreateEvent,
        EnqueueEvent, MarkEventOrphaned, CrashHandler, Touch, Propagate, Reconcile,
        FetchOrphanedEvents, Requeue, CrashReconciler, Expire, Age
  <2>2. q = r
    BY <1>2, <2>1 DEF ClearOrphanedMarker
  <2> QED  BY <1>2, <2>1, <2>2 DEF ClearOrphanedMarker, MarkerInv
<1>3. TypeOK /\ MarkerInv /\ [Next]_vars
        => [\A r \in orphaned : r \notin orphaned' => r \in sent]_vars
  BY <1>2
<1> QED  BY <1>1, <1>3, MarkerNext, TypeInvariant, PTL DEF Spec, MarkerClearedAfterSend

-----------------------------------------------------------------------------
(* One event per key.  A request wins its key when its put goes through;    *)
(* from then on it may store its event.  The record of the key stands for   *)
(* the whole TTL period in which it was won, so nobody else wins the key in *)
(* that period.                                                             *)

Won(r) == \/ pc[r] \in {"create_event", "enqueue_event", "mark_event_orphaned"}
          \/ Stored(r)

WinnerInv ==
    /\ \A r \in Requests : pc[r] \in {"new", "check_and_record"} => ~Stored(r)
    /\ \A r \in Requests : window[r] <= period[key[r]]
    /\ \A r \in Requests :
          Won(r) /\ window[r] = period[key[r]] => idempotency[key[r]] # NoEvent
    /\ \A r, q \in Requests :
          r # q /\ key[r] = key[q] /\ window[r] = window[q] => ~(Won(r) /\ Won(q))

LEMMA WinnerNext == TypeOK /\ WinnerInv /\ [Next]_vars => WinnerInv'
<1> SUFFICES ASSUME TypeOK, WinnerInv, [Next]_vars
             PROVE  WinnerInv'
  OBVIOUS
<1>1. /\ pc \in [Requests -> HandlerSteps]
      /\ key \in [Requests -> Keys]
      /\ events \in [Requests -> Item]
      /\ window \in [Requests -> Nat] /\ period \in [Keys -> Nat]
      /\ idempotency \in [Keys -> Requests \cup {NoEvent}]
  BY DEF TypeOK
<1>2. ASSUME UNCHANGED <<key, window, period, idempotency>>,
             \A r \in Requests : Won(r)' => Won(r),
             \A r \in Requests : pc'[r] \in {"new", "check_and_record"}
                => pc[r] \in {"new", "check_and_record"} /\ (Stored(r)' => Stored(r))
      PROVE  WinnerInv'
  BY <1>2 DEF WinnerInv
<1>3. ASSUME NEW r \in Requests, CheckAndRecord(r)
      PROVE  WinnerInv'
  <2>1. /\ key[r] \in Keys /\ period[key[r]] \in Nat
        /\ ~Won(r) /\ ~Stored(r)
    BY <1>1, <1>3 DEF CheckAndRecord, WinnerInv, Won
  <2>2. /\ UNCHANGED <<key, period, events>>
        /\ window' = [window EXCEPT ![r] = period[key[r]]]
        /\ \A q \in Requests \ {r} : pc'[q] = pc[q]
        /\ pc'[r] \notin {"new", "check_and_record"}
    BY <1>1, <1>3 DEF CheckAndRecord, GoTo, Respond
  <2>3. /\ \A q \in Requests : Stored(q)' <=> Stored(q)
        /\ \A q \in Requests \ {r} : Won(q)' <=> Won(q)
    BY <2>2 DEF Stored, Won
  <2>4. \A k \in Keys : idempotency[k] # NoEvent => idempotency'[k] # NoEvent
    BY <1>1, <1>3, RequestsAreNumbers DEF CheckAndRecord
  <2>5. Won(r)' => KeyFree(key[r]) /\ idempotency'[key[r]] # NoEvent
    BY <1>1, <1>3, <2>1, <2>3, RequestsAreNumbers
    DEF CheckAndRecord, GoTo, Respond, Won
  <2>6. \A q \in Requests : window'[q] <= period'[key'[q]]
    BY <1>1, <2>1, <2>2 DEF WinnerInv
  <2>7. \A q \in Requests :
          Won(q)' /\ window'[q] = period'[key'[q]] => idempotency'[key'[q]] # NoEvent
    BY <1>1, <2>2, <2>3, <2>4, <2>5 DEF WinnerInv
  <2>8. \A q \in Requests \ {r} :
          key[q] = key[r] /\ window'[q] = window'[r] => ~(Won(r)' /\ Won(q)')
    BY <1>1, <2>2, <2>3, <2>5 DEF WinnerInv, KeyFree
  <2>9. \A p, q \in Requests :
          p # q /\ key'[p] = key'[q] /\ window'[p] = window'[q] => ~(Won(p)' /\ Won(q)')
    BY <1>1, <2>2, <2>3, <2>8 DEF WinnerInv
  <2> QED  BY <2>2, <2>3, <2>6, <2>7, <2>9 DEF WinnerInv
<1>4. ASSUME NEW k \in Keys, Expire(k)
      PROVE  WinnerInv'
  <2>1. /\ UNCHANGED <<pc, key, window, events>>
        /\ period' = [period EXCEPT ![k] = @ + 1]
        /\ idempotency' = [idempotency EXCEPT ![k] = NoEvent]
    BY <1>4 DEF Expire, handlers
  <2>2. \A r \in Requests : (Won(r)' <=> Won(r)) /\ (Stored(r)' <=> Stored(r))
    BY <2>1 DEF Won, Stored
  <2>3. \A r \in Requests :
          /\ window'[r] <= period'[key'[r]]
          /\ key[r] = k => window'[r] # period'[key'[r]]
    BY <1>1, <2>1 DEF WinnerInv
  <2> QED  BY <1>1, <2>1, <2>2, <2>3 DEF WinnerInv
<1>5. ASSUME NEW r \in Requests,
             \/ Start(r) \/ GetExistingEventId(r) \/ EnqueueEvent(r)
             \/ MarkEventOrphaned(r) \/ CrashHandler(r)
      PROVE  WinnerInv'
  <2>1. UNCHANGED <<key, window, period, idempotency, events>>
    BY <1>5 DEF Start, GetExistingEventId, EnqueueEvent, MarkEventOrphaned, CrashHandler
  <2>2. /\ \A q \in Requests : Stored(q)' <=> Stored(q)
        /\ \A q \in Requests \ {r} : pc'[q] = pc[q]
    BY <1>1, <1>5, <2>1
    DEF Start, GetExistingEventId, EnqueueEvent, MarkEventOrphaned, CrashHandler,
        EnqueueFailed, GoTo, Respond, Stored
  <2>3. /\ pc'[r] \in {"new", "check_and_record"} => pc[r] = "new"
        /\ pc'[r] = "mark_event_orphaned" => pc[r] = "enqueue_event"
        /\ pc'[r] \notin {"create_event", "enqueue_event"}
    BY <1>1, <1>5
    DEF Start, GetExistingEventId, EnqueueEvent, MarkEventOrphaned, CrashHandler,
        EnqueueFailed, GoTo, Respond
  <2> QED  BY <1>2, <2>1, <2>2, <2>3 DEF Won
<1>6. ASSUME NEW r \in Requests, CreateEvent(r)
      PROVE  WinnerInv'
  <2>1. /\ UNCHANGED <<key, window, period, idempotency>> /\ Won(r)
        /\ pc'[r] \notin {"new", "check_and_record"}
    BY <1>1, <1>6 DEF CreateEvent, CreateFailed, GoTo, Respond, Won
  <2>2. \A q \in Requests \ {r} : pc'[q] = pc[q] /\ (Stored(q)' <=> Stored(q))
    BY <1>1, <1>6 DEF CreateEvent, CreateFailed, GoTo, Respond, Stored
  <2> QED  BY <1>2, <2>1, <2>2 DEF Won
<1>7. ASSUME NEW r \in Requests, Touch(r)
      PROVE  WinnerInv'
  <2>1. UNCHANGED <<key, window, period, idempotency, pc>>
    BY <1>7 DEF Touch, handlers
  <2>2. \A q \in Requests : Stored(q)' <=> Stored(q)
    BY <1>1, <1>7 DEF Touch, Stored
  <2> QED  BY <1>2, <2>1, <2>2 DEF Won
<1>8. ASSUME UNCHANGED <<key, window, period, idempotency, pc, events>>
      PROVE  WinnerInv'
  BY <1>2, <1>8 DEF Won, Stored
<1> QED
  BY <1>3, <1>4, <1>5, <1>6, <1>7, <1>8
  DEF Next, vars, handlers, Handle, Propagate, Reconcile, FetchOrphanedEvents,
      Requeue, ClearOrphanedMarker, CrashReconciler, Age

(* Within the life of an idempotency record at most one event is stored for *)
(* its key, whatever the interleaving of the requests that carry it and     *)
(* whatever calls of theirs fail (idempotency.rs 57-123).                   *)
THEOREM OneEventPerKeyHolds == Spec => []OneEventPerKey
<1>1. Init => WinnerInv
  BY DEF Init, WinnerInv, Won, Stored
<1>2. WinnerInv => OneEventPerKey
  BY DEF WinnerInv, OneEventPerKey, Won
<1> QED  BY <1>1, <1>2, WinnerNext, TypeInvariant, PTL DEF Spec

-----------------------------------------------------------------------------
(* The answer 202 is only given by the step that enqueues the event, and    *)
(* nothing is ever taken back from what was sent.                           *)

LEMMA AcceptedNext == TypeOK /\ AcceptedIsQueued /\ [Next]_vars => AcceptedIsQueued'
<1> SUFFICES ASSUME TypeOK, AcceptedIsQueued, [Next]_vars
             PROVE  AcceptedIsQueued'
  OBVIOUS
<1>1. answer \in [Requests -> Answer]
  BY DEF TypeOK
<1>2. ASSUME NEW r \in Requests, sent \subseteq sent',
             \A q \in Requests \ {r} : answer'[q] = answer[q],
             answer'[r].code = 202 => answer[r].code = 202 \/ r \in sent'
      PROVE  AcceptedIsQueued'
  BY <1>2 DEF AcceptedIsQueued
<1>3. ASSUME NEW r \in Requests, Handle(r) \/ CrashHandler(r)
      PROVE  AcceptedIsQueued'
  <2>1. /\ sent \subseteq sent'
        /\ \A q \in Requests \ {r} : answer'[q] = answer[q]
    BY <1>1, <1>3
    DEF Handle, Start, CheckAndRecord, GetExistingEventId, CreateEvent, CreateFailed,
        EnqueueEvent, EnqueueFailed, MarkEventOrphaned, CrashHandler, GoTo, Respond
  <2>2. answer'[r].code = 202 => answer[r].code = 202 \/ r \in sent'
    <3>1. CASE EnqueueEvent(r)
      BY <1>1, <3>1 DEF EnqueueEvent, EnqueueFailed, GoTo, Respond
    <3>2. CASE ~EnqueueEvent(r)
      BY <1>1, <1>3, <3>2
      DEF Handle, Start, CheckAndRecord, GetExistingEventId, CreateEvent,
          CreateFailed, MarkEventOrphaned, CrashHandler, GoTo, Respond
    <3> QED  BY <3>1, <3>2
  <2> QED  BY <1>2, <2>1, <2>2
<1>4. ASSUME UNCHANGED answer, sent \subseteq sent'
      PROVE  AcceptedIsQueued'
  BY <1>4 DEF AcceptedIsQueued
<1> QED
  BY <1>3, <1>4
  DEF Next, vars, handlers, Touch, Propagate, Reconcile, FetchOrphanedEvents,
      Requeue, ClearOrphanedMarker, CrashReconciler, Expire, Age

(* Whoever was answered 202 has an event in the queue (webhook.rs 200-260). *)
THEOREM AcceptedIsQueuedHolds == Spec => []AcceptedIsQueued
<1>1. Init => AcceptedIsQueued
  BY DEF Init, AcceptedIsQueued, NoAnswer
<1> QED  BY <1>1, AcceptedNext, TypeInvariant, PTL DEF Spec
=============================================================================
